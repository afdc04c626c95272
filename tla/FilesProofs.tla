----------------------------- MODULE FilesProofs -----------------------------
(***************************************************************************)
(* Proofs about the descriptor tables and the file system, for every image, *)
(* every number of processes and descriptors and every size of a request.   *)
(***************************************************************************)
EXTENDS Files, SequenceTheorems, TLAPS

(***************************************************************************)
(* Blocks and offsets.                                                      *)
(***************************************************************************)
\* Division with remainder has one answer.
LEMMA DivUnique ==
    ASSUME NEW m \in Nat \ {0}, NEW x \in Nat, NEW q \in Nat, NEW r \in 0 .. m - 1,
           x = m * q + r
    PROVE  x \div m = q /\ x % m = r
  <1> DEFINE q2 == x \div m
             r2 == x % m
  <1>1. q2 \in Int /\ r2 \in 0 .. m - 1 /\ x = m * q2 + r2
    OBVIOUS
  <1> HIDE DEF q2, r2
  <1>2. ~(q2 >= q + 1)
    <2> SUFFICES ASSUME q2 >= q + 1 PROVE FALSE
      OBVIOUS
    <2>1. m * q2 >= m * (q + 1)
      BY <1>1
    <2>2. m * (q + 1) = m * q + m
      OBVIOUS
    <2> QED BY <1>1, <2>1, <2>2
  <1>3. ~(q >= q2 + 1)
    <2> SUFFICES ASSUME q >= q2 + 1 PROVE FALSE
      OBVIOUS
    <2>1. m * q >= m * (q2 + 1)
      BY <1>1
    <2>2. m * (q2 + 1) = m * q2 + m
      BY <1>1
    <2> QED BY <1>1, <2>1, <2>2
  <1>4. q = q2
    BY <1>1, <1>2, <1>3
  <1>5. r = r2
    BY <1>1, <1>4
  <1> QED BY <1>4, <1>5 DEF q2, r2

\* Division with remainder, as the provers need it.
LEMMA DivFacts ==
    ASSUME NEW m \in Nat \ {0}, NEW x \in Nat
    PROVE  x \div m \in Nat /\ x % m \in 0 .. m - 1 /\ x = m * (x \div m) + (x % m)
  <1> DEFINE q == x \div m
             r == x % m
  <1>1. q \in Int /\ r \in 0 .. m - 1 /\ x = m * q + r
    OBVIOUS
  <1> HIDE DEF q, r
  <1>2. q <= -1 => m * q <= -m
    BY <1>1
  <1>3. q \in Nat
    BY <1>1, <1>2
  <1> QED BY <1>1, <1>3 DEF q, r

\* Further on in the same block, and at the beginning of the next.
LEMMA SameBlock ==
    ASSUME NEW m \in Nat \ {0}, NEW x \in Nat, NEW j \in Nat, (x % m) + j < m
    PROVE  (x + j) \div m = x \div m /\ (x + j) % m = (x % m) + j
  <1> DEFINE q == x \div m
             r == x % m
  <1>1. q \in Nat /\ r \in 0 .. m - 1 /\ x = m * q + r
    BY DivFacts
  <1>2. r + j < m
    OBVIOUS
  <1> HIDE DEF q, r
  <1>3. x + j = m * q + (r + j) /\ r + j \in 0 .. m - 1 /\ x + j \in Nat
    BY <1>1, <1>2
  <1>4. (x + j) \div m = q /\ (x + j) % m = r + j
    BY <1>1, <1>3, DivUnique
  <1> QED BY <1>4 DEF q, r

\* The end of a block is the start of the next.
LEMMA NextBlock ==
    ASSUME NEW m \in Nat \ {0}, NEW x \in Nat
    PROVE  /\ x + (m - (x % m)) \in Nat
           /\ (x + (m - (x % m))) \div m = x \div m + 1 /\ (x + (m - (x % m))) % m = 0
  <1> DEFINE q == x \div m
             r == x % m
  <1>1. q \in Nat /\ r \in 0 .. m - 1 /\ x = m * q + r
    BY DivFacts
  <1> HIDE DEF q, r
  <1>2. m * (q + 1) = m * q + m
    BY <1>1
  <1>3. x + (m - r) = m * (q + 1) + 0 /\ 0 \in 0 .. m - 1 /\ x + (m - r) \in Nat
    BY <1>1, <1>2
  <1>4. (x + (m - r)) \div m = q + 1 /\ (x + (m - r)) % m = 0
    BY <1>1, <1>3, DivUnique
  <1> QED BY <1>3, <1>4 DEF q, r

-----------------------------------------------------------------------------
(***************************************************************************)
(* The invariant of descriptors and of reads of files, however directories  *)
(* are listed meanwhile.                                                    *)
(***************************************************************************)
Copies == [at : {"copy"}, fd : Fds, block : Nat, from : 0 .. BLOCK_SIZE - 1,
           length : Nat, buf : Seq(Bytes)]
Lists  == [at : {"list"}, fd : Fds, name : Names]

Types ==
    /\ fds \in [Procs -> [Fds -> Descriptors]]
    /\ seen \in [Procs -> [Fds -> Seq(Bytes \cup Names)]]
    /\ call \in [Procs -> {Idle} \cup Lists \cup Copies]
    /\ directoryLoc \in Nat

Offset(d) == d.file_position % WORD

\* A read c of the file of descriptor d: the bytes copied so far are those
\* from the descriptor's position on, the next one is at the place the read
\* has come to, and what remains of the request is in the file.
ReadOK(c, d) ==
    /\ d.inode \in Inodes
    /\ Offset(d) + Len(c.buf) < file_size[d.inode]
    /\ Offset(d) + Len(c.buf) + c.length <= file_size[d.inode]
    /\ c.block = (Offset(d) + Len(c.buf)) \div BLOCK_SIZE
    /\ c.from = (Offset(d) + Len(c.buf)) % BLOCK_SIZE
    /\ \A k \in 1 .. Len(c.buf) : c.buf[k] = FileByte(d.inode, Offset(d) + k - 1)

\* The call a process is in belongs to an open descriptor of its kind.
CallOK(p) ==
    /\ call[p] \in Lists =>
          fds[p][call[p].fd].flags = "FD_AVAIL" /\ fds[p][call[p].fd].ops = "dir"
    /\ call[p] \in Copies =>
          /\ fds[p][call[p].fd].flags = "FD_AVAIL" /\ fds[p][call[p].fd].ops = "file"
          /\ ReadOK(call[p], fds[p][call[p].fd])

\* What the reads of descriptor d have returned: ReadsFollowFile for one.
SeenOK(d, s) ==
    d.flags = "FD_AVAIL" /\ d.ops = "file" /\ Consistent(d.inode) =>
        /\ d.file_position = Len(s)
        /\ Len(s) <= file_size[d.inode]
        /\ \A x \in 1 .. Len(s) : s[x] = FileByte(d.inode, x - 1)

FileInv ==
    /\ Types
    /\ \A p \in Procs : CallOK(p)
    /\ \A p \in Procs, fd \in Fds : SeenOK(fds[p][fd], seen[p][fd])

-----------------------------------------------------------------------------
(***************************************************************************)
(* Types, and what one entry of a table is after a step.                    *)
(***************************************************************************)
LEMMA ConstantFacts ==
    /\ BLOCK_SIZE \in Nat \ {0} /\ WORD \in Nat \ {0} /\ total_data_blocks \in Nat
    /\ Len(Dentries) \in Nat /\ DOMAIN Dentries = 1 .. Len(Dentries)
    /\ Fds \subseteq Nat
    /\ \A n \in Inodes : file_size[n] \in Nat /\ file_size[n] < WORD
    /\ \A n \in Inodes, b \in NBYTES : b \in Nat /\ b + file_size[n] < WORD
  BY FilesAssumption, LenProperties DEF Fds

\* The call of a process is one of three kinds, told apart by its first field.
LEMMA CallKinds ==
    ASSUME Types, NEW p \in Procs
    PROVE  /\ call[p] = Idle \/ call[p] \in Lists \/ call[p] \in Copies
           /\ Idle \notin Lists /\ Idle \notin Copies
           /\ call[p].at = "copy" <=> call[p] \in Copies
           /\ call[p].at = "list" <=> call[p] \in Lists
  <1>1. call[p] = Idle \/ call[p] \in Lists \/ call[p] \in Copies
    BY DEF Types
  <1>2. Idle.at = "idle"
    BY DEF Idle
  <1>3. \A c \in Lists : c.at = "list"
    BY DEF Lists
  <1>4. \A c \in Copies : c.at = "copy"
    BY DEF Copies
  <1> QED BY <1>1, <1>2, <1>3, <1>4

\* The offset that read_data gets is an unsigned word.
LEMMA OffsetFacts ==
    ASSUME NEW d \in Descriptors
    PROVE  Offset(d) \in 0 .. WORD - 1
  <1>1. d.file_position \in Int
    BY DEF Descriptors
  <1> QED BY <1>1, ConstantFacts DEF Offset

\* One descriptor of one process is assigned.
LEMMA SetFd ==
    ASSUME Types, NEW p \in Procs, NEW fd \in Fds, NEW d \in Descriptors,
           fds' = [fds EXCEPT ![p] = [fds[p] EXCEPT ![fd] = d]]
    PROVE  /\ fds' \in [Procs -> [Fds -> Descriptors]]
           /\ fds'[p][fd] = d /\ \A f \in Fds \ {fd} : fds'[p][f] = fds[p][f]
           /\ \A q \in Procs \ {p} : fds'[q] = fds[q]
  BY DEF Types

\* One history is assigned.
LEMMA SetSeen ==
    ASSUME Types, NEW p \in Procs, NEW fd \in Fds, NEW s \in Seq(Bytes \cup Names),
           seen' = [seen EXCEPT ![p] = [seen[p] EXCEPT ![fd] = s]]
    PROVE  /\ seen' \in [Procs -> [Fds -> Seq(Bytes \cup Names)]]
           /\ seen'[p][fd] = s /\ \A f \in Fds \ {fd} : seen'[p][f] = seen[p][f]
           /\ \A q \in Procs \ {p} : seen'[q] = seen[q]
  BY DEF Types

\* The call in progress of one process is assigned.
LEMMA SetCall ==
    ASSUME Types, NEW p \in Procs, NEW c \in {Idle} \cup Lists \cup Copies,
           call' = [call EXCEPT ![p] = c]
    PROVE  /\ call' \in [Procs -> {Idle} \cup Lists \cup Copies]
           /\ call'[p] = c
           /\ \A q \in Procs \ {p} : call'[q] = call[q]
  BY DEF Types

\* A step of p leaves the other processes alone.
LEMMA StepSuffices ==
    ASSUME FileInv, Types', NEW p \in Procs, CallOK(p)',
           \A fd \in Fds : SeenOK(fds'[p][fd], seen'[p][fd]),
           \A q \in Procs \ {p} : fds'[q] = fds[q] /\ seen'[q] = seen[q] /\ call'[q] = call[q]
    PROVE  FileInv'
  <1>1. \A q \in Procs : CallOK(q)'
    <2> SUFFICES ASSUME NEW q \in Procs \ {p} PROVE CallOK(q)'
      OBVIOUS
    <2>1. CallOK(q) /\ fds'[q] = fds[q] /\ call'[q] = call[q]
      BY DEF FileInv
    <2> QED BY <2>1 DEF CallOK, ReadOK, Offset
  <1>2. \A q \in Procs, fd \in Fds : SeenOK(fds'[q][fd], seen'[q][fd])
    BY DEF FileInv
  <1>3. \A q \in Procs, fd \in Fds : SeenOK(fds[q][fd], seen[q][fd])'
    BY <1>2 DEF SeenOK
  <1> QED BY <1>1, <1>3 DEF FileInv

\* A process that is in no call.
LEMMA IdleOK == ASSUME NEW p, call'[p] = Idle PROVE CallOK(p)'
  <1>1. Idle \notin Lists
    BY DEF Lists, Idle
  <1>2. Idle \notin Copies
    BY DEF Copies, Idle
  <1>3. (call[p])' \notin Lists /\ (call[p])' \notin Copies
    BY <1>1, <1>2
  <1> QED BY <1>3 DEF CallOK, Lists, Copies

-----------------------------------------------------------------------------
(***************************************************************************)
(* Opening and closing, and directories.                                    *)
(***************************************************************************)
LEMMA EmptySeen == <<>> \in Seq(Bytes \cup Names) /\ Len(<<>>) = 0
  BY EmptySeq

\* sys_open gives a fresh descriptor with nothing read.
LEMMA OpenStep ==
    ASSUME FileInv, NEW p \in Procs, NEW name, sys_open(p, name) PROVE FileInv'
  <1>1. PICK e \in DOMAIN Dentries, fd \in Fds :
           /\ fds' = [fds EXCEPT ![p][fd] = OpenedFd(@, Dentries[e])]
           /\ seen' = [seen EXCEPT ![p][fd] = <<>>]
    BY DEF sys_open
  <1> DEFINE d == OpenedFd(fds[p][fd], Dentries[e])
  <1>2. /\ call[p] = Idle /\ UNCHANGED <<directoryLoc, call>>
        /\ fds' = [fds EXCEPT ![p] = [fds[p] EXCEPT ![fd] = d]]
        /\ seen' = [seen EXCEPT ![p] = [seen[p] EXCEPT ![fd] = <<>>]]
    BY <1>1 DEF sys_open
  <1>3. d \in Descriptors /\ d.file_position = 0
    <2>1. Dentries[e].filetype \in {"rtc", "dir", "file"} /\ Dentries[e].inodeNumber \in Nat
      BY FilesAssumption
    <2> QED BY <2>1 DEF OpenedFd, Descriptors
  <1>4. Types
    BY DEF FileInv
  <1>5. SeenOK(d, <<>>)
    <2>1. \A x \in 1 .. 0 : FALSE
      OBVIOUS
    <2>2. Consistent(d.inode) => 0 <= file_size[d.inode]
      BY ConstantFacts DEF Consistent
    <2> HIDE DEF d
    <2> QED BY <1>3, <2>1, <2>2, EmptySeen DEF SeenOK
  <1> HIDE DEF d
  <1>6. /\ fds' \in [Procs -> [Fds -> Descriptors]]
        /\ fds'[p][fd] = d /\ \A f \in Fds \ {fd} : fds'[p][f] = fds[p][f]
        /\ \A q \in Procs \ {p} : fds'[q] = fds[q]
    BY <1>2, <1>3, <1>4, SetFd
  <1>7. /\ seen' \in [Procs -> [Fds -> Seq(Bytes \cup Names)]]
        /\ seen'[p][fd] = <<>> /\ \A f \in Fds \ {fd} : seen'[p][f] = seen[p][f]
        /\ \A q \in Procs \ {p} : seen'[q] = seen[q]
    BY <1>2, <1>4, EmptySeen, SetSeen
  <1>8. \A f \in Fds : SeenOK(fds'[p][f], seen'[p][f])
    BY <1>5, <1>6, <1>7 DEF FileInv
  <1>9. Types'
    BY <1>2, <1>4, <1>6, <1>7 DEF Types
  <1>10. CallOK(p)'
    BY <1>2, IdleOK
  <1> QED BY <1>2, <1>6, <1>7, <1>8, <1>9, <1>10, StepSuffices

\* sys_close frees a descriptor.
LEMMA CloseStep ==
    ASSUME FileInv, NEW p \in Procs, NEW fd \in Fds, sys_close(p, fd) PROVE FileInv'
  <1> DEFINE d == [fds[p][fd] EXCEPT !.flags = "FD_OCCUP"]
  <1>1. /\ call[p] = Idle /\ UNCHANGED <<directoryLoc, call>>
        /\ fds' = [fds EXCEPT ![p] = [fds[p] EXCEPT ![fd] = d]]
        /\ seen' = [seen EXCEPT ![p] = [seen[p] EXCEPT ![fd] = <<>>]]
    BY DEF sys_close
  <1>2. Types /\ fds[p][fd] \in Descriptors
    BY DEF FileInv, Types
  <1>3. d \in Descriptors /\ d.flags = "FD_OCCUP"
    BY <1>2 DEF Descriptors
  <1> HIDE DEF d
  <1>4. SeenOK(d, <<>>)
    BY <1>3 DEF SeenOK
  <1>6. /\ fds' \in [Procs -> [Fds -> Descriptors]]
        /\ fds'[p][fd] = d /\ \A f \in Fds \ {fd} : fds'[p][f] = fds[p][f]
        /\ \A q \in Procs \ {p} : fds'[q] = fds[q]
    BY <1>1, <1>2, <1>3, SetFd
  <1>7. /\ seen' \in [Procs -> [Fds -> Seq(Bytes \cup Names)]]
        /\ seen'[p][fd] = <<>> /\ \A f \in Fds \ {fd} : seen'[p][f] = seen[p][f]
        /\ \A q \in Procs \ {p} : seen'[q] = seen[q]
    BY <1>1, <1>2, EmptySeen, SetSeen
  <1>8. \A f \in Fds : SeenOK(fds'[p][f], seen'[p][f])
    BY <1>4, <1>6, <1>7 DEF FileInv
  <1>9. Types'
    BY <1>1, <1>2, <1>6, <1>7 DEF Types
  <1>10. CallOK(p)'
    BY <1>1, IdleOK
  <1> QED BY <1>1, <1>6, <1>7, <1>8, <1>9, <1>10, StepSuffices

\* A new descriptor table has no file open.
LEMMA NewFdsFacts ==
    NewFds \in [Fds -> Descriptors] /\ \A fd \in Fds : NewFds[fd].ops # "file"
  <1>1. Closed \in Descriptors /\ Closed.ops = "error"
    BY DEF Closed, Descriptors
  <1>2. \A c \in Descriptors, o \in {"stdin", "stdout"} :
           /\ [c EXCEPT !.flags = "FD_AVAIL", !.ops = o] \in Descriptors
           /\ [c EXCEPT !.flags = "FD_AVAIL", !.ops = o].ops = o
    BY DEF Descriptors
  <1>3. /\ [Closed EXCEPT !.flags = "FD_AVAIL", !.ops = "stdin"] \in Descriptors
        /\ [Closed EXCEPT !.flags = "FD_AVAIL", !.ops = "stdin"].ops = "stdin"
        /\ [Closed EXCEPT !.flags = "FD_AVAIL", !.ops = "stdout"] \in Descriptors
        /\ [Closed EXCEPT !.flags = "FD_AVAIL", !.ops = "stdout"].ops = "stdout"
    BY <1>1, <1>2
  <1>4. \A fd \in Fds : fd = 0 \/ fd = 1 \/ (fd # 0 /\ fd # 1)
    OBVIOUS
  <1> QED BY <1>1, <1>2, <1>3, <1>4 DEF NewFds

\* halt frees all descriptors of a process for the next one.
LEMMA HaltStep == ASSUME FileInv, NEW p \in Procs, halt_execute(p) PROVE FileInv'
  <1> DEFINE s == [fd \in Fds |-> <<>>]
  <1>1. /\ call[p] = Idle /\ UNCHANGED <<directoryLoc, call>>
        /\ fds' = [fds EXCEPT ![p] = NewFds] /\ seen' = [seen EXCEPT ![p] = s]
    BY DEF halt_execute
  <1>2. Types /\ s \in [Fds -> Seq(Bytes \cup Names)]
    BY EmptySeen DEF FileInv
  <1> HIDE DEF s
  <1>3. /\ fds' \in [Procs -> [Fds -> Descriptors]] /\ fds'[p] = NewFds
        /\ seen' \in [Procs -> [Fds -> Seq(Bytes \cup Names)]]
        /\ \A q \in Procs \ {p} : fds'[q] = fds[q] /\ seen'[q] = seen[q]
    BY <1>1, <1>2, NewFdsFacts DEF Types
  <1>4. \A f \in Fds : SeenOK(fds'[p][f], seen'[p][f])
    BY <1>3, NewFdsFacts DEF SeenOK
  <1>5. Types'
    BY <1>1, <1>2, <1>3 DEF Types
  <1>6. CallOK(p)'
    BY <1>1, IdleOK
  <1> QED BY <1>1, <1>3, <1>4, <1>5, <1>6, StepSuffices

\* The start of a directory read leaves files alone.
LEMMA DirectoryReadStep ==
    ASSUME FileInv, NEW p \in Procs, NEW fd \in Fds, call[p] = Idle, IsOpen(p, fd),
           fds[p][fd].ops = "dir", directory_read(p, fd)
    PROVE  FileInv'
  <1>1. Types /\ fds' = fds
    BY DEF FileInv, directory_read
  <1>2. CASE directoryLoc < Len(Dentries)
    <2> DEFINE c == [at |-> "list", fd |-> fd, name |-> Dentries[directoryLoc + 1].fileName]
    <2>1. call' = [call EXCEPT ![p] = c] /\ UNCHANGED <<directoryLoc, seen>>
      BY <1>2 DEF directory_read
    <2>2. directoryLoc + 1 \in DOMAIN Dentries
      BY <1>1, <1>2, ConstantFacts DEF Types
    <2>3. c \in Lists /\ c.fd = fd /\ c.at = "list"
      BY <2>2 DEF Lists, Names
    <2> HIDE DEF c
    <2>4. /\ call' \in [Procs -> {Idle} \cup Lists \cup Copies] /\ call'[p] = c
          /\ \A q \in Procs \ {p} : call'[q] = call[q]
      BY <1>1, <2>1, <2>3, SetCall
    <2>5. c \notin Copies
      BY <2>3 DEF Copies
    <2>6. (call[p])' = c /\ (fds[p][call[p].fd])' = fds[p][fd]
      BY <1>1, <2>3, <2>4
    <2>7. CallOK(p)'
      BY <1>1, <2>3, <2>4, <2>5 DEF CallOK, IsOpen, Copies, Lists
    <2>8. Types'
      BY <1>1, <2>1, <2>4 DEF Types
    <2> QED BY <1>1, <2>1, <2>4, <2>7, <2>8, StepSuffices DEF FileInv
  <1>3. CASE ~(directoryLoc < Len(Dentries))
    <2>1. /\ directoryLoc' = 0 /\ call' = call
          /\ seen' = [seen EXCEPT ![p] = [seen[p] EXCEPT ![fd] = <<>>]]
      BY <1>3 DEF directory_read, rewind
    <2>2. /\ seen' \in [Procs -> [Fds -> Seq(Bytes \cup Names)]]
          /\ seen'[p][fd] = <<>> /\ \A f \in Fds \ {fd} : seen'[p][f] = seen[p][f]
          /\ \A q \in Procs \ {p} : seen'[q] = seen[q]
      BY <1>1, <2>1, EmptySeen, SetSeen
    <2>3. SeenOK(fds[p][fd], <<>>)
      BY DEF SeenOK
    <2>4. \A f \in Fds : SeenOK(fds'[p][f], seen'[p][f])
      BY <1>1, <2>2, <2>3 DEF FileInv
    <2>5. Types'
      BY <1>1, <2>1, <2>2 DEF Types
    <2>6. CallOK(p)'
      BY <2>1, IdleOK
    <2> QED BY <1>1, <2>1, <2>2, <2>4, <2>5, <2>6, StepSuffices
  <1> QED BY <1>2, <1>3

\* So does its next entry.
LEMMA DirectoryNextStep == ASSUME FileInv, NEW p \in Procs, directory_next(p) PROVE FileInv'
  <1> DEFINE fd == call[p].fd
             s == Append(seen[p][fd], call[p].name)
  <1>1. /\ call[p].at = "list" /\ directoryLoc' = directoryLoc + 1 /\ fds' = fds
        /\ call' = [call EXCEPT ![p] = Idle]
        /\ seen' = [seen EXCEPT ![p] = [seen[p] EXCEPT ![fd] = s]]
    BY DEF directory_next, advance
  <1>2. Types /\ call[p] \in Lists
    BY <1>1, CallKinds DEF FileInv
  <1>3. fd \in Fds /\ call[p].name \in Names /\ fds[p][fd].ops = "dir"
    BY <1>2 DEF Lists, FileInv, CallOK
  <1>4. seen[p][fd] \in Seq(Bytes \cup Names) /\ call[p].name \in Bytes \cup Names
    BY <1>2, <1>3 DEF Types
  <1>5. s \in Seq(Bytes \cup Names)
    BY <1>4, AppendProperties
  <1> HIDE DEF s, fd
  <1>6. /\ seen' \in [Procs -> [Fds -> Seq(Bytes \cup Names)]]
        /\ seen'[p][fd] = s /\ \A f \in Fds \ {fd} : seen'[p][f] = seen[p][f]
        /\ \A q \in Procs \ {p} : seen'[q] = seen[q]
    BY <1>1, <1>2, <1>3, <1>5, SetSeen
  <1>7. /\ call' \in [Procs -> {Idle} \cup Lists \cup Copies] /\ call'[p] = Idle
        /\ \A q \in Procs \ {p} : call'[q] = call[q]
    BY <1>1, <1>2, SetCall
  <1>8. SeenOK(fds[p][fd], s)
    BY <1>3 DEF SeenOK
  <1>9. \A f \in Fds : SeenOK(fds'[p][f], seen'[p][f])
    BY <1>1, <1>6, <1>8 DEF FileInv
  <1>10. Types'
    BY <1>1, <1>2, <1>6, <1>7 DEF Types
  <1>11. CallOK(p)'
    BY <1>7, IdleOK
  <1> QED BY <1>1, <1>6, <1>7, <1>9, <1>10, <1>11, StepSuffices

-----------------------------------------------------------------------------
(***************************************************************************)
(* Reading files.                                                           *)
(***************************************************************************)
LEMMA ModSmall == ASSUME NEW m \in Nat \ {0}, NEW x \in Nat, x < m PROVE x % m = x
  <1>1. x = m * 0 + x /\ x \in 0 .. m - 1
    OBVIOUS
  <1> QED BY <1>1, DivUnique

\* The bytes that one memcpy adds.
Piece(b, from, n) == [j \in 1 .. n |-> <<b, from + j - 1>>]

\* A piece of a block: its bytes, in order.
LEMMA PieceFacts ==
    ASSUME NEW b \in Nat, NEW from \in Nat, NEW n \in Nat, from + n <= BLOCK_SIZE
    PROVE  /\ Piece(b, from, n) \in Seq(Bytes) /\ Len(Piece(b, from, n)) = n
           /\ \A j \in 1 .. n : Piece(b, from, n)[j] = <<b, from + j - 1>>
  <1>1. \A j \in 1 .. n : from + j - 1 \in 0 .. BLOCK_SIZE - 1
    BY ConstantFacts
  <1>2. \A j \in 1 .. n : <<b, from + j - 1>> \in Bytes
    BY <1>1 DEF Bytes
  <1>3. Piece(b, from, n) \in [1 .. n -> Bytes]
    BY <1>2 DEF Piece
  <1>4. Piece(b, from, n) \in Seq(Bytes)
    BY <1>3, SeqDef
  <1>5. Len(Piece(b, from, n)) = n
    <2>1. /\ Len(Piece(b, from, n)) \in Nat
          /\ 1 .. Len(Piece(b, from, n)) = 1 .. n
      BY <1>3, <1>4, LenProperties
    <2> QED BY <2>1
  <1> QED BY <1>4, <1>5 DEF Piece

\* How much of a request of len bytes is in the block that offset from is in.
Chunk(from, len) == IF from + len <= BLOCK_SIZE THEN len ELSE BLOCK_SIZE - from

\* How much of a read one block can serve.
LEMMA ChunkFacts ==
    ASSUME NEW from \in 0 .. BLOCK_SIZE - 1, NEW len \in Nat
    PROVE  /\ Chunk(from, len) \in Nat /\ from + Chunk(from, len) <= BLOCK_SIZE
           /\ Chunk(from, len) <= len
           /\ Chunk(from, len) # len => /\ Chunk(from, len) < len
                                        /\ Chunk(from, len) = BLOCK_SIZE - from
  BY ConstantFacts DEF Chunk

\* The place x of a file is in its block x \div BLOCK_SIZE, and the bytes from
\* there to the end of the block are the next ones of the file.
LEMMA PieceOfFile ==
    ASSUME NEW f \in Inodes, NEW x \in Nat, x < file_size[f], NEW n \in Nat,
           (x % BLOCK_SIZE) + n <= BLOCK_SIZE, NEW b, NEW from,
           b = block_number[f][x \div BLOCK_SIZE], from = x % BLOCK_SIZE
    PROVE  /\ b \in Nat /\ (Consistent(f) => b < total_data_blocks)
           /\ Piece(b, from, n) \in Seq(Bytes) /\ Len(Piece(b, from, n)) = n
           /\ \A j \in 1 .. n : Piece(b, from, n)[j] = FileByte(f, x + (j - 1))
  <1>1. file_size[f] \in Nat /\ x \in 0 .. file_size[f] - 1
    BY ConstantFacts
  <1>2. b \in Nat
    BY <1>1, FilesAssumption
  <1>3. b \in FileBlocks(f)
    BY <1>1 DEF FileBlocks
  <1>4. Consistent(f) => b < total_data_blocks
    BY <1>3 DEF Consistent
  <1>5. from \in 0 .. BLOCK_SIZE - 1 /\ from + n <= BLOCK_SIZE
    BY ConstantFacts, DivFacts
  <1>6. from \in Nat
    BY <1>5, ConstantFacts
  <1>7. /\ Piece(b, from, n) \in Seq(Bytes) /\ Len(Piece(b, from, n)) = n
        /\ \A j \in 1 .. n : Piece(b, from, n)[j] = <<b, from + j - 1>>
    BY <1>2, <1>5, <1>6, PieceFacts
  <1>8. \A j \in 1 .. n : Piece(b, from, n)[j] = FileByte(f, x + (j - 1))
    <2> TAKE j \in 1 .. n
    <2>1. j - 1 \in Nat /\ from + (j - 1) < BLOCK_SIZE /\ from + (j - 1) = from + j - 1
      BY <1>5, ConstantFacts
    <2>2. (x % BLOCK_SIZE) + (j - 1) < BLOCK_SIZE
      BY <2>1
    <2>3. /\ (x + (j - 1)) \div BLOCK_SIZE = x \div BLOCK_SIZE
          /\ (x + (j - 1)) % BLOCK_SIZE = (x % BLOCK_SIZE) + (j - 1)
      BY <2>1, <2>2, ConstantFacts, SameBlock
    <2>4. (x + (j - 1)) % BLOCK_SIZE = from + j - 1
      BY <2>1, <2>3
    <2>5. FileByte(f, x + (j - 1)) = <<b, from + j - 1>>
      BY <2>3, <2>4, Zenon DEF FileByte
    <2> QED BY <1>7, <2>5
  <1> QED BY <1>2, <1>4, <1>7, <1>8

\* s is the file from place o on.
Follows(s, f, o) == \A k \in 1 .. Len(s) : s[k] = FileByte(f, o + k - 1)

\* Two pieces of a file that meet are one.
LEMMA JoinFollows ==
    ASSUME NEW f, NEW o \in Nat, NEW S, NEW s \in Seq(S), NEW r \in Seq(S),
           Follows(s, f, o), Follows(r, f, o + Len(s))
    PROVE  /\ s \o r \in Seq(S) /\ Len(s \o r) = Len(s) + Len(r)
           /\ Follows(s \o r, f, o)
  <1> DEFINE a == Len(s)
             b == Len(r)
             t == s \o r
  <1>1. a \in Nat /\ b \in Nat
    BY LenProperties
  <1>2. /\ t \in Seq(S) /\ Len(t) = a + b
        /\ \A k \in 1 .. a + b : t[k] = IF k <= a THEN s[k] ELSE r[k - a]
    BY ConcatProperties
  <1>3. /\ \A k \in 1 .. a : s[k] = FileByte(f, o + k - 1)
        /\ \A j \in 1 .. b : r[j] = FileByte(f, o + a + j - 1)
    BY DEF Follows
  <1> HIDE DEF a, b, t
  <1>4. ASSUME NEW k \in 1 .. a + b PROVE t[k] = FileByte(f, o + k - 1)
    <2>1. CASE k <= a
      <3>1. k \in 1 .. a
        BY <1>1, <2>1
      <3> QED BY <1>2, <1>3, <2>1, <3>1
    <2>2. CASE ~(k <= a)
      <3>1. PICK j \in 1 .. b : j = k - a
        BY <1>1, <2>2
      <3>2. o + a + j - 1 = o + k - 1
        BY <1>1, <3>1
      <3>3. t[k] = r[j]
        BY <1>2, <2>2, <3>1
      <3>4. r[j] = FileByte(f, o + a + j - 1)
        BY <1>3
      <3> QED BY <3>2, <3>3, <3>4
    <2> QED BY <2>1, <2>2
  <1>5. Follows(t, f, o)
    BY <1>2, <1>4 DEF Follows
  <1> QED BY <1>2, <1>5 DEF a, b, t

Moved(d, value) == [d EXCEPT !.file_position = @ + value]

\* file_read moves the position and nothing else of a descriptor.
LEMMA MovedFacts ==
    ASSUME NEW d \in Descriptors, NEW value \in Int
    PROVE  /\ Moved(d, value) \in Descriptors
           /\ Moved(d, value).flags = d.flags /\ Moved(d, value).ops = d.ops
           /\ Moved(d, value).inode = d.inode
           /\ Moved(d, value).file_position = d.file_position + value
  BY DEF Moved, Descriptors

\* The end of a read: what it returned must fit what was returned before.
LEMMA ReturnStep ==
    ASSUME FileInv, NEW p \in Procs, NEW fd \in Fds, NEW value \in Int,
           NEW bytes \in Seq(Bytes), Return(p, fd, value, bytes), directoryLoc' = directoryLoc,
           SeenOK(Moved(fds[p][fd], value), seen[p][fd] \o bytes)
    PROVE  FileInv'
  <1> DEFINE d == Moved(fds[p][fd], value)
             s == seen[p][fd] \o bytes
  <1>1. /\ fds' = [fds EXCEPT ![p] = [fds[p] EXCEPT ![fd] = d]]
        /\ seen' = [seen EXCEPT ![p] = [seen[p] EXCEPT ![fd] = s]]
        /\ call' = [call EXCEPT ![p] = Idle]
    BY DEF Return, Moved
  <1>2. /\ Types /\ fds[p][fd] \in Descriptors
        /\ seen[p][fd] \in Seq(Bytes \cup Names)
    BY DEF FileInv, Types
  <1>3. d \in Descriptors
    BY <1>2, MovedFacts
  <1>4. s \in Seq(Bytes \cup Names)
    <2>1. bytes \in Seq(Bytes \cup Names)
      BY SeqMonotonic
    <2> QED BY <1>2, <2>1, ConcatProperties
  <1>5. SeenOK(d, s)
    OBVIOUS
  <1> HIDE DEF d, s
  <1>6. /\ fds' \in [Procs -> [Fds -> Descriptors]]
        /\ fds'[p][fd] = d /\ \A f \in Fds \ {fd} : fds'[p][f] = fds[p][f]
        /\ \A q \in Procs \ {p} : fds'[q] = fds[q]
    BY <1>1, <1>2, <1>3, SetFd
  <1>7. /\ seen' \in [Procs -> [Fds -> Seq(Bytes \cup Names)]]
        /\ seen'[p][fd] = s /\ \A f \in Fds \ {fd} : seen'[p][f] = seen[p][f]
        /\ \A q \in Procs \ {p} : seen'[q] = seen[q]
    BY <1>1, <1>2, <1>4, SetSeen
  <1>8. /\ call' \in [Procs -> {Idle} \cup Lists \cup Copies] /\ call'[p] = Idle
        /\ \A q \in Procs \ {p} : call'[q] = call[q]
    BY <1>1, <1>2, SetCall
  <1>9. \A f \in Fds : SeenOK(fds'[p][f], seen'[p][f])
    BY <1>5, <1>6, <1>7 DEF FileInv
  <1>10. Types'
    BY <1>2, <1>6, <1>7, <1>8 DEF Types
  <1>11. CallOK(p)'
    BY <1>8, IdleOK
  <1> QED BY <1>6, <1>7, <1>8, <1>9, <1>10, <1>11, StepSuffices

\* A read goes on: only the call of the process changes.
LEMMA CopyOnStep ==
    ASSUME FileInv, NEW p \in Procs, NEW c \in Copies, UNCHANGED <<fds, seen, directoryLoc>>,
           call' = [call EXCEPT ![p] = c],
           fds[p][c.fd].flags = "FD_AVAIL", fds[p][c.fd].ops = "file", ReadOK(c, fds[p][c.fd])
    PROVE  FileInv'
  <1>1. Types /\ \A fd \in Fds : SeenOK(fds[p][fd], seen[p][fd])
    BY DEF FileInv
  <1>2. /\ call' \in [Procs -> {Idle} \cup Lists \cup Copies] /\ call'[p] = c
        /\ \A q \in Procs \ {p} : call'[q] = call[q]
    BY <1>1, SetCall
  <1>3. c \notin Lists
    BY DEF Lists, Copies
  <1>4. CallOK(p)'
    BY <1>2, <1>3 DEF CallOK, Lists, Copies, ReadOK, Offset
  <1>5. Types'
    BY <1>1, <1>2 DEF Types
  <1> QED BY <1>1, <1>2, <1>4, <1>5, StepSuffices

\* The two ways that a step of a read of a file goes: it returns bytes that
\* follow those read before, or it has copied as much as it should have.
ReadReturns(p, fd) ==
    \E value \in Int, bytes \in Seq(Bytes) :
        /\ Return(p, fd, value, bytes)
        /\ SeenOK(Moved(fds[p][fd], value), seen[p][fd] \o bytes)

ReadGoesOn(p) ==
    /\ UNCHANGED <<fds, seen>>
    /\ \E c \in Copies :
          /\ call' = [call EXCEPT ![p] = c]
          /\ fds[p][c.fd].flags = "FD_AVAIL" /\ fds[p][c.fd].ops = "file"
          /\ ReadOK(c, fds[p][c.fd])

\* The first block of a read: it returns or goes on.
LEMMA ReadDataCases ==
    ASSUME FileInv, NEW p \in Procs, NEW fd \in Fds, NEW nbytes \in NBYTES,
           IsOpen(p, fd), fds[p][fd].ops = "file", read_data(p, fd, nbytes)
    PROVE  ReadReturns(p, fd) \/ ReadGoesOn(p)
  <1> DEFINE d == fds[p][fd]
             s == seen[p][fd]
             o == Offset(d)
  <1>1. d \in Descriptors /\ s \in Seq(Bytes \cup Names) /\ SeenOK(d, s) /\ d.flags = "FD_AVAIL"
    BY DEF FileInv, Types, IsOpen
  <1>2. o \in Nat
    BY <1>1, OffsetFacts, ConstantFacts
  <1>3. <<>> \in Seq(Bytes) /\ s \o <<>> = s
    BY <1>1, EmptySeq, ConcatEmptySeq
  <1>4. CASE d.inode \notin Inodes
    <2>1. Return(p, fd, -1, <<>>)
      BY <1>4 DEF read_data
    <2>2. SeenOK(Moved(d, -1), s)
      BY <1>1, <1>4, MovedFacts DEF SeenOK, Consistent
    <2>3. SeenOK(Moved(d, -1), s \o <<>>) /\ -1 \in Int
      BY <1>3, <2>2
    <2> QED BY <1>3, <2>1, <2>3 DEF ReadReturns
  <1>5. CASE d.inode \in Inodes /\ o >= file_size[d.inode]
    <2> DEFINE none == 0
    <2>1. Return(p, fd, none, <<>>)
      BY <1>5 DEF read_data, Offset
    <2>2. none \in Int /\ d.file_position + none = d.file_position
      BY <1>1 DEF Descriptors
    <2> HIDE DEF none
    <2>3. /\ Moved(d, none).file_position = d.file_position
          /\ Moved(d, none).flags = d.flags /\ Moved(d, none).ops = d.ops
          /\ Moved(d, none).inode = d.inode
      BY <1>1, <2>2, MovedFacts
    <2>4. SeenOK(Moved(d, none), s \o <<>>)
      <3> HIDE DEF d, s
      <3> QED BY <1>1, <1>3, <2>3 DEF SeenOK
    <2> QED BY <1>3, <2>1, <2>2, <2>4 DEF ReadReturns
  <1>6. CASE d.inode \in Inodes /\ ~(o >= file_size[d.inode])
    <2> DEFINE len == Cut(d.inode, o, nbytes)
               c == [at |-> "copy", fd |-> fd, block |-> o \div BLOCK_SIZE,
                     from |-> o % BLOCK_SIZE, length |-> len, buf |-> <<>>]
    <2>1. call' = [call EXCEPT ![p] = c] /\ UNCHANGED <<fds, seen>>
      BY <1>6 DEF read_data, Offset
    <2>2. /\ file_size[d.inode] \in Nat /\ o < file_size[d.inode]
          /\ nbytes \in Nat /\ nbytes + o \in Nat /\ nbytes + o < WORD
      BY <1>2, <1>6, ConstantFacts
    <2>3. (nbytes + o) % WORD = nbytes + o
      BY <2>2, ConstantFacts, ModSmall
    <2>4. len \in Nat /\ o + len <= file_size[d.inode]
      BY <1>2, <2>2, <2>3 DEF Cut
    <2>5. o \div BLOCK_SIZE \in Nat /\ o % BLOCK_SIZE \in 0 .. BLOCK_SIZE - 1
      BY <1>2, ConstantFacts, DivFacts
    <2> HIDE DEF len
    <2>6. c \in Copies
      BY <1>3, <2>4, <2>5 DEF Copies
    <2>7. /\ c.fd = fd /\ c.buf = <<>> /\ c.length = len
          /\ c.block = o \div BLOCK_SIZE /\ c.from = o % BLOCK_SIZE
      OBVIOUS
    <2> HIDE DEF c
    <2>8. /\ Len(c.buf) = 0 /\ o + 0 = o /\ \A k \in 1 .. 0 : FALSE
      BY <1>2, <2>7, EmptySeq
    <2>9. ReadOK(c, d)
      BY <1>6, <2>2, <2>4, <2>7, <2>8 DEF ReadOK
    <2> QED BY <1>1, <2>1, <2>6, <2>7, <2>9 DEF ReadGoesOn
  <1> QED BY <1>4, <1>5, <1>6

\* What a read of open file d has copied after one more block: the bytes of
\* the file from the descriptor's position on.
LEMMA CopyFacts ==
    ASSUME NEW c \in Copies, NEW d \in Descriptors, ReadOK(c, d), NEW b, NEW n, NEW copied,
           b = block_number[d.inode][c.block], n = Chunk(c.from, c.length),
           copied = c.buf \o Piece(b, c.from, n)
    PROVE  /\ b \in Nat /\ (Consistent(d.inode) => b < total_data_blocks)
           /\ n \in Nat /\ Len(c.buf) \in Nat /\ Offset(d) \in Nat
           /\ copied \in Seq(Bytes) /\ Len(copied) = Len(c.buf) + n
           /\ Follows(copied, d.inode, Offset(d))
  <1> DEFINE o == Offset(d)
             f == d.inode
             buf == c.buf
             from == c.from
             x == o + Len(buf)
             piece == Piece(b, from, n)
  <1>1. from \in 0 .. BLOCK_SIZE - 1 /\ c.length \in Nat /\ buf \in Seq(Bytes)
    BY DEF Copies
  <1>2. Len(buf) \in Nat /\ o \in Nat /\ x \in Nat
    BY <1>1, LenProperties, OffsetFacts, ConstantFacts
  <1>3. /\ f \in Inodes /\ x < file_size[f] /\ from = x % BLOCK_SIZE
        /\ b = block_number[f][x \div BLOCK_SIZE]
        /\ \A k \in 1 .. Len(buf) : buf[k] = FileByte(f, o + k - 1)
    BY DEF ReadOK
  <1>4. n \in Nat /\ from + n <= BLOCK_SIZE
    BY <1>1, ChunkFacts
  <1>5. copied = buf \o piece
    OBVIOUS
  <1> HIDE DEF o, f, buf, from, x
  <1>6. (x % BLOCK_SIZE) + n <= BLOCK_SIZE
    BY <1>3, <1>4
  <1>7. /\ b \in Nat /\ (Consistent(f) => b < total_data_blocks)
        /\ piece \in Seq(Bytes) /\ Len(piece) = n
        /\ \A j \in 1 .. n : piece[j] = FileByte(f, x + (j - 1))
    <2>1. f \in Inodes /\ x \in Nat /\ x < file_size[f] /\ n \in Nat
      BY <1>2, <1>3, <1>4
    <2>2. b = block_number[f][x \div BLOCK_SIZE] /\ from = x % BLOCK_SIZE
      BY <1>3
    <2> QED BY <1>6, <2>1, <2>2, PieceOfFile
  <1> HIDE DEF piece
  <1>8. \A j \in 1 .. Len(piece) : piece[j] = FileByte(f, (o + Len(buf)) + (j - 1))
    BY <1>7 DEF x
  <1>9. /\ copied \in Seq(Bytes) /\ Len(copied) = Len(buf) + n
        /\ Follows(copied, f, o)
    <2>1. /\ buf \in Seq(Bytes) /\ piece \in Seq(Bytes) /\ o \in Nat
      BY <1>1, <1>2, <1>7
    <2>2. Follows(buf, f, o)
      BY <1>3 DEF Follows
    <2>3. Follows(piece, f, o + Len(buf))
      <3>1. \A j \in 1 .. n : (o + Len(buf)) + (j - 1) = (o + Len(buf)) + j - 1
        BY <1>2, <1>4
      <3> QED BY <1>7, <1>8, <3>1 DEF Follows
    <2>4. /\ buf \o piece \in Seq(Bytes) /\ Len(buf \o piece) = Len(buf) + Len(piece)
          /\ Follows(buf \o piece, f, o)
      BY <2>1, <2>2, <2>3, JoinFollows
    <2> QED BY <1>5, <1>7, <2>4
  <1> QED BY <1>2, <1>4, <1>7, <1>9 DEF o, f, buf

\* The call of a read that goes on after n more bytes.
Going(c, n, copied) == [c EXCEPT !.block = c.block + 1, !.from = 0,
                                 !.length = c.length - n, !.buf = copied]

\* The bytes of a read that is done are the ones after those read before.
LEMMA EndOfCopy ==
    ASSUME NEW d \in Descriptors, d.inode \in Inodes, NEW s \in Seq(Bytes \cup Names),
           d.flags = "FD_AVAIL", d.ops = "file", SeenOK(d, s),
           NEW copied \in Seq(Bytes), Follows(copied, d.inode, Offset(d)),
           Offset(d) + Len(copied) <= file_size[d.inode]
    PROVE  SeenOK(Moved(d, Len(copied)), s \o copied)
  <1> DEFINE v == Len(copied)
             f == d.inode
             none == 0
  <1>1. v \in Nat /\ v \in Int /\ Len(s) \in Nat
    BY LenProperties
  <1>2. /\ Moved(d, v).file_position = d.file_position + v /\ Moved(d, v).inode = f
    BY <1>1, MovedFacts
  <1>3. ASSUME Consistent(f)
        PROVE  /\ d.file_position + v = Len(s \o copied)
               /\ Len(s \o copied) <= file_size[f]
               /\ \A x \in 1 .. Len(s \o copied) : (s \o copied)[x] = FileByte(f, x - 1)
    <2>1. /\ d.file_position = Len(s) /\ Len(s) <= file_size[f]
          /\ \A x \in 1 .. Len(s) : s[x] = FileByte(f, x - 1)
      BY <1>3 DEF SeenOK
    <2>2. Len(s) < WORD /\ file_size[f] \in Nat
      BY <1>1, <2>1, ConstantFacts
    <2>3. Offset(d) = Len(s)
      BY <1>1, <2>1, <2>2, ModSmall, ConstantFacts DEF Offset
    <2>4. copied \in Seq(Bytes \cup Names)
      BY SeqMonotonic
    <2>5. Follows(copied, f, none + Len(s))
      <3>1. none + Len(s) = Len(s)
        BY <1>1
      <3> QED BY <2>3, <3>1
    <2>6. Follows(s, f, none)
      <3>1. \A x \in 1 .. Len(s) : none + x - 1 = x - 1
        BY <1>1
      <3> QED BY <2>1, <3>1 DEF Follows
    <2>7. none \in Nat
      OBVIOUS
    <2> HIDE DEF none, f
    <2>8. /\ Len(s \o copied) = Len(s) + v /\ Follows(s \o copied, f, none)
      BY <2>4, <2>5, <2>6, <2>7, JoinFollows
    <2>9. \A x \in 1 .. Len(s) + v : none + x - 1 = x - 1
      BY <1>1 DEF none
    <2>10. \A x \in 1 .. Len(s \o copied) : (s \o copied)[x] = FileByte(f, x - 1)
      BY <2>8, <2>9 DEF Follows
    <2>11. Len(s) + v <= file_size[f]
      BY <2>3 DEF f
    <2> QED BY <2>1, <2>8, <2>10, <2>11
  <1> HIDE DEF v, f
  <1>4. SeenOK(Moved(d, v), s \o copied)
    BY <1>2, <1>3 DEF SeenOK
  <1> QED BY <1>4 DEF v

\* A read that is not done goes on at the beginning of the next block.
LEMMA NextCopy ==
    ASSUME NEW c \in Copies, NEW d \in Descriptors, ReadOK(c, d),
           NEW n, n = Chunk(c.from, c.length), n # c.length,
           NEW copied \in Seq(Bytes), Len(copied) = Len(c.buf) + n,
           Follows(copied, d.inode, Offset(d)), NEW e, e = Going(c, n, copied)
    PROVE  e \in Copies /\ e.fd = c.fd /\ ReadOK(e, d)
  <1>1. /\ c.block \in Nat /\ c.from \in 0 .. BLOCK_SIZE - 1
        /\ c.length \in Nat /\ c.buf \in Seq(Bytes) /\ Len(c.buf) \in Nat
    BY LenProperties DEF Copies
  <1>2. n \in Nat /\ n < c.length /\ n = BLOCK_SIZE - c.from
    BY <1>1, ChunkFacts
  <1>3. c.length - n \in Nat /\ c.block + 1 \in Nat /\ 0 \in 0 .. BLOCK_SIZE - 1
    BY <1>1, <1>2, ConstantFacts
  <1>4. /\ e \in Copies /\ e.fd = c.fd /\ e.block = c.block + 1 /\ e.from = 0
        /\ e.length = c.length - n /\ e.buf = copied
    <2> DEFINE k == c.block + 1
               z == 0
               l == c.length - n
    <2>1. k \in Nat /\ z \in 0 .. BLOCK_SIZE - 1 /\ l \in Nat
      BY <1>3
    <2>2. e = [c EXCEPT !.block = k, !.from = z, !.length = l, !.buf = copied]
      BY DEF Going
    <2> HIDE DEF k, z, l
    <2>3. /\ e \in Copies /\ e.fd = c.fd /\ e.block = k /\ e.from = z
          /\ e.length = l /\ e.buf = copied
      BY <2>1, <2>2 DEF Copies
    <2> QED BY <2>3 DEF k, z, l
  <1>5. Offset(d) \in Nat
    BY OffsetFacts, ConstantFacts
  <1> DEFINE x == Offset(d) + Len(c.buf)
             size == file_size[d.inode]
  <1>6. /\ d.inode \in Inodes /\ x < size /\ x + c.length <= size
        /\ c.block = x \div BLOCK_SIZE /\ c.from = x % BLOCK_SIZE
    BY DEF ReadOK
  <1>7. x \in Nat /\ size \in Nat
    <2>1. x \in Nat
      BY <1>1, <1>5
    <2>2. d.inode \in Inodes
      BY <1>6
    <2>3. size \in Nat
      BY <2>2, ConstantFacts, Zenon
    <2> QED BY <2>1, <2>3
  <1>8. Offset(d) + Len(copied) = x + n
    BY <1>1, <1>2, <1>5
  <1> HIDE DEF x, size
  <1>9. /\ (x + n) \div BLOCK_SIZE = c.block + 1 /\ (x + n) % BLOCK_SIZE = 0
    <2>1. x + n = x + (BLOCK_SIZE - (x % BLOCK_SIZE))
      BY <1>2, <1>6
    <2>2. /\ (x + (BLOCK_SIZE - (x % BLOCK_SIZE))) \div BLOCK_SIZE = x \div BLOCK_SIZE + 1
          /\ (x + (BLOCK_SIZE - (x % BLOCK_SIZE))) % BLOCK_SIZE = 0
      BY <1>7, NextBlock, ConstantFacts
    <2> QED BY <1>6, <2>1, <2>2
  <1>10. x + n < size /\ x + n + (c.length - n) <= size
    BY <1>1, <1>2, <1>6, <1>7
  <1>11. /\ e.block = (Offset(d) + Len(e.buf)) \div BLOCK_SIZE
         /\ e.from = (Offset(d) + Len(e.buf)) % BLOCK_SIZE
    BY <1>4, <1>8, <1>9
  <1>12. /\ Offset(d) + Len(e.buf) < file_size[d.inode]
         /\ Offset(d) + Len(e.buf) + e.length <= file_size[d.inode]
    BY <1>4, <1>8, <1>10 DEF size
  <1>13. \A k \in 1 .. Len(e.buf) : e.buf[k] = FileByte(d.inode, Offset(d) + k - 1)
    BY <1>4 DEF Follows
  <1>14. ReadOK(e, d)
    BY <1>6, <1>11, <1>12, <1>13 DEF ReadOK
  <1> QED BY <1>4, <1>14

\* Every later block: it returns or goes on.
LEMMA CopyBlockCases ==
    ASSUME FileInv, NEW p \in Procs, copy_block(p)
    PROVE  /\ call[p] \in Copies /\ fds[p][call[p].fd].ops = "file"
           /\ UNCHANGED <<directoryLoc, lister>>
           /\ ReadReturns(p, call[p].fd) \/ ReadGoesOn(p)
  <1>1. Types /\ call[p] \in Copies
    BY CallKinds DEF FileInv, copy_block
  <1>2. PICK c \in Copies : c = call[p]
    BY <1>1
  <1>3. PICK fd : fd = c.fd
    OBVIOUS
  <1>4. PICK d : d = fds[p][fd]
    OBVIOUS
  <1>5. PICK s : s = seen[p][fd]
    OBVIOUS
  <1>6. PICK b : b = block_number[d.inode][c.block]
    OBVIOUS
  <1>7. PICK n : n = Chunk(c.from, c.length)
    OBVIOUS
  <1>8. PICK copied : copied = c.buf \o Piece(b, c.from, n)
    OBVIOUS
  <1>9. fd \in Fds /\ c.length \in Nat
    BY <1>3 DEF Copies
  <1>10. /\ d \in Descriptors /\ d.flags = "FD_AVAIL" /\ d.ops = "file" /\ ReadOK(c, d)
         /\ s \in Seq(Bytes \cup Names) /\ SeenOK(d, s)
    BY <1>1, <1>2, <1>3, <1>4, <1>5, <1>9 DEF FileInv, Types, CallOK
  <1>11. /\ b \in Nat /\ (Consistent(d.inode) => b < total_data_blocks)
         /\ n \in Nat /\ Len(c.buf) \in Nat /\ Offset(d) \in Nat
         /\ copied \in Seq(Bytes) /\ Len(copied) = Len(c.buf) + n
         /\ Follows(copied, d.inode, Offset(d))
    BY <1>6, <1>7, <1>8, <1>10, CopyFacts
  <1>12. /\ directoryLoc' = directoryLoc /\ lister' = lister
         /\ b >= total_data_blocks => Return(p, fd, -1, <<>>)
         /\ ~(b >= total_data_blocks) /\ n = c.length => Return(p, fd, Len(copied), copied)
         /\ ~(b >= total_data_blocks) /\ n # c.length =>
               /\ UNCHANGED <<fds, seen>>
               /\ call' = [call EXCEPT ![p] = Going(c, n, copied)]
    <2> DEFINE c0 == call[p]
               b0 == block_number[fds[p][c0.fd].inode][c0.block]
               n0 == IF c0.from + c0.length <= BLOCK_SIZE THEN c0.length ELSE BLOCK_SIZE - c0.from
               copied0 == c0.buf \o [j \in 1 .. n0 |-> <<b0, c0.from + j - 1>>]
    <2>1. c0 = c /\ b0 = b /\ n0 = n /\ copied0 = copied
      <3>1. c0 = c /\ b0 = b
        BY <1>2, <1>3, <1>4, <1>6
      <3>2. n0 = n
        BY <1>2, <1>7 DEF Chunk
      <3>3. copied0 = c.buf \o Piece(b, c.from, n)
        <4> HIDE DEF c0, b0, n0
        <4> QED BY <3>1, <3>2 DEF Piece
      <3> QED BY <1>8, <3>1, <3>2, <3>3
    <2>2. /\ directoryLoc' = directoryLoc /\ lister' = lister
          /\ IF b >= total_data_blocks THEN Return(p, c.fd, -1, <<>>)
             ELSE IF n = c.length THEN Return(p, c.fd, Len(copied), copied)
             ELSE /\ call' = [call EXCEPT ![p].block = @ + 1, ![p].from = NextFrom(@),
                                          ![p].length = @ - n, ![p].buf = copied]
                  /\ UNCHANGED <<fds, seen>>
      <3>1. /\ directoryLoc' = directoryLoc /\ lister' = lister
            /\ IF b0 >= total_data_blocks THEN Return(p, c0.fd, -1, <<>>)
               ELSE IF n0 = c0.length THEN Return(p, c0.fd, Len(copied0), copied0)
               ELSE /\ call' = [call EXCEPT ![p].block = @ + 1, ![p].from = NextFrom(@),
                                            ![p].length = @ - n0, ![p].buf = copied0]
                    /\ UNCHANGED <<fds, seen>>
        BY Zenon DEF copy_block
      <3> HIDE DEF c0, b0, n0, copied0
      <3> QED BY <2>1, <3>1
    <2>3. [call EXCEPT ![p].block = @ + 1, ![p].from = NextFrom(@),
                       ![p].length = @ - n, ![p].buf = copied]
          = [call EXCEPT ![p] = Going(c, n, copied)]
      BY <1>1, <1>2 DEF NextFrom, Copies, Going, Types
    <2> QED BY <1>3, <2>2, <2>3
  <1>13. <<>> \in Seq(Bytes) /\ s \o <<>> = s
    BY <1>10, EmptySeq, ConcatEmptySeq
  <1>14. ASSUME b >= total_data_blocks PROVE ReadReturns(p, call[p].fd)
    <2>1. Return(p, fd, -1, <<>>) /\ ~Consistent(d.inode)
      BY <1>11, <1>12, <1>14, ConstantFacts
    <2>2. Moved(d, -1).inode = d.inode
      BY <1>10, MovedFacts
    <2>3. SeenOK(Moved(d, -1), s \o <<>>)
      BY <2>1, <2>2 DEF SeenOK
    <2>4. -1 \in Int
      OBVIOUS
    <2> QED BY <1>2, <1>3, <1>4, <1>5, <1>13, <2>1, <2>3, <2>4 DEF ReadReturns
  <1>15. ASSUME ~(b >= total_data_blocks), n = c.length PROVE ReadReturns(p, call[p].fd)
    <2>1. Return(p, fd, Len(copied), copied)
      BY <1>12, <1>15
    <2>2. d.inode \in Inodes /\ Offset(d) + Len(copied) <= file_size[d.inode]
      BY <1>10, <1>11, <1>15, ConstantFacts DEF ReadOK
    <2>3. SeenOK(Moved(d, Len(copied)), s \o copied)
      BY <1>10, <1>11, <2>2, EndOfCopy
    <2>4. Len(copied) \in Int
      BY <1>11
    <2> QED BY <1>2, <1>3, <1>4, <1>5, <1>11, <2>1, <2>3, <2>4 DEF ReadReturns
  <1>16. ASSUME ~(b >= total_data_blocks), n # c.length PROVE ReadGoesOn(p)
    <2>1. PICK e : e = Going(c, n, copied)
      OBVIOUS
    <2>2. call' = [call EXCEPT ![p] = e] /\ UNCHANGED <<fds, seen>>
      BY <1>12, <1>16, <2>1
    <2>3. e \in Copies /\ e.fd = c.fd /\ ReadOK(e, d)
      BY <1>7, <1>10, <1>11, <1>16, <2>1, NextCopy
    <2> QED BY <1>3, <1>4, <1>10, <2>2, <2>3 DEF ReadGoesOn
  <1>17. fds[p][call[p].fd].ops = "file"
    BY <1>2, <1>3, <1>4, <1>10
  <1>18. ReadReturns(p, call[p].fd) \/ ReadGoesOn(p)
    BY <1>14, <1>15, <1>16
  <1> QED BY <1>1, <1>12, <1>17, <1>18

\* Either way the file invariant is kept.
LEMMA ReadStep ==
    ASSUME FileInv, NEW p \in Procs, NEW fd \in Fds, directoryLoc' = directoryLoc,
           ReadReturns(p, fd) \/ ReadGoesOn(p)
    PROVE  FileInv'
  <1>1. CASE ReadReturns(p, fd)
    BY <1>1, ReturnStep DEF ReadReturns
  <1>2. CASE ReadGoesOn(p)
    BY <1>2, CopyOnStep DEF ReadGoesOn
  <1> QED BY <1>1, <1>2

-----------------------------------------------------------------------------
(***************************************************************************)
(* The theorem about reads.                                                 *)
(***************************************************************************)
LEMMA FileInvInit == Init => FileInv
  <1> SUFFICES ASSUME Init PROVE FileInv
    OBVIOUS
  <1>1. Idle \notin Lists
    BY DEF Idle, Lists
  <1>2. Idle \notin Copies
    BY DEF Idle, Copies
  <1>3. \A p \in Procs : call[p] = Idle /\ fds[p] = NewFds
    BY DEF Init
  <1>4. Types
    BY NewFdsFacts, EmptySeen DEF Init, Types
  <1>5. \A p \in Procs : CallOK(p)
    BY <1>1, <1>2, <1>3 DEF CallOK
  <1>6. \A p \in Procs, fd \in Fds : SeenOK(fds[p][fd], seen[p][fd])
    BY <1>3, NewFdsFacts DEF SeenOK
  <1> QED BY <1>4, <1>5, <1>6 DEF FileInv

\* Every step keeps the file invariant.
LEMMA FileInvStep == FileInv /\ [Next]_vars => FileInv'
  <1> SUFFICES ASSUME FileInv, [Next]_vars PROVE FileInv'
    OBVIOUS
  <1>1. CASE UNCHANGED vars
    <2>1. UNCHANGED <<fds, directoryLoc, call, seen>>
      BY <1>1 DEF vars
    <2> QED BY <2>1 DEF FileInv, Types, CallOK, ReadOK, Offset, SeenOK
  <1>2. CASE Next
    <2>1. PICK p \in Procs :
             \/ \E e \in DOMAIN Dentries : sys_open(p, Dentries[e].fileName)
             \/ \E fd \in Fds : sys_close(p, fd)
             \/ \E fd \in Fds, n \in NBYTES : sys_read(p, fd, n)
             \/ copy_block(p)
             \/ directory_next(p)
             \/ halt_execute(p)
      BY <1>2 DEF Next
    <2>2. ASSUME NEW fd \in Fds, NEW n \in NBYTES, sys_read(p, fd, n) PROVE FileInv'
      <3>1. CASE fds[p][fd].ops = "file"
        <4>1. IsOpen(p, fd) /\ read_data(p, fd, n) /\ directoryLoc' = directoryLoc
          BY <2>2, <3>1 DEF sys_read
        <4> QED BY <3>1, <4>1, ReadDataCases, ReadStep
      <3>2. CASE fds[p][fd].ops # "file"
        <4>1. /\ IsOpen(p, fd) /\ call[p] = Idle
              /\ fds[p][fd].ops = "dir" /\ directory_read(p, fd)
          BY <2>2, <3>2 DEF sys_read
        <4> QED BY <4>1, DirectoryReadStep
      <3> QED BY <3>1, <3>2
    <2>3. ASSUME copy_block(p) PROVE FileInv'
      <3>1. /\ call[p] \in Copies /\ directoryLoc' = directoryLoc
            /\ ReadReturns(p, call[p].fd) \/ ReadGoesOn(p)
        BY <2>3, CopyBlockCases
      <3>2. call[p].fd \in Fds
        BY <3>1 DEF Copies
      <3> QED BY <3>1, <3>2, ReadStep
    <2> QED BY <2>1, <2>2, <2>3, OpenStep, CloseStep, DirectoryNextStep, HaltStep
  <1> QED BY <1>1, <1>2

\* So it holds throughout, whatever programs do with the directory.
LEMMA FileInvariance == Spec => []FileInv
  <1> QED BY FileInvInit, FileInvStep, PTL DEF Spec

\* What the reads of an open file return, put together, is the file from its
\* beginning (file_read, read_data), whoever else reads, opens or closes
\* meanwhile, and however directories are listed.
THEOREM ReadsFollowFileHolds == Spec => []ReadsFollowFile
  <1>1. FileInv => ReadsFollowFile
    BY DEF FileInv, SeenOK, ReadsFollowFile, IsOpen
  <1> QED BY <1>1, FileInvariance, PTL


-----------------------------------------------------------------------------
(***************************************************************************)
(* Open descriptors.  That halt hands on a table in which stdin and stdout  *)
(* are what they were takes an invariant of its own.                        *)
(***************************************************************************)
StdOK(p) == \A fd \in {0, 1} : fds[p][fd] = NewFds[fd] /\ seen[p][fd] = <<>>

FdInv == FileInv /\ \A p \in Procs : StdOK(p)

\* OpenFilesKept for one descriptor.
Kept(p, fd) ==
    fds[p][fd].flags = "FD_AVAIL" /\ fds'[p][fd].flags = "FD_AVAIL" =>
        /\ fds'[p][fd].ops = fds[p][fd].ops
        /\ fds'[p][fd].inode = fds[p][fd].inode
        /\ Len(seen'[p][fd]) < Len(seen[p][fd]) => fds[p][fd].ops = "dir"

AllKept == /\ \A p \in Procs, fd \in Fds : Kept(p, fd)
           /\ \A p \in Procs : StdOK(p)'

\* A new process has stdin and stdout and six free descriptors.
LEMMA NewFdsFlags ==
    /\ 0 \in Fds /\ 1 \in Fds
    /\ NewFds[0].ops = "stdin" /\ NewFds[1].ops = "stdout"
    /\ \A fd \in {0, 1} : NewFds[fd].ops \notin {"file", "dir"}
    /\ \A fd \in Fds \ {0, 1} : NewFds[fd].flags = "FD_OCCUP"
  <1>1. 0 \in Fds /\ 1 \in Fds
    BY FilesAssumption DEF Fds
  <1>2. Closed \in Descriptors /\ Closed.flags = "FD_OCCUP"
    BY DEF Closed, Descriptors
  <1>3. \A c \in Descriptors, o \in {"stdin", "stdout"} :
           [c EXCEPT !.flags = "FD_AVAIL", !.ops = o].ops = o
    BY DEF Descriptors
  <1>4. /\ [Closed EXCEPT !.flags = "FD_AVAIL", !.ops = "stdin"].ops = "stdin"
        /\ [Closed EXCEPT !.flags = "FD_AVAIL", !.ops = "stdout"].ops = "stdout"
    BY <1>2, <1>3
  <1>5. NewFds[0].ops = "stdin" /\ NewFds[1].ops = "stdout"
    <2> DEFINE in  == [Closed EXCEPT !.flags = "FD_AVAIL", !.ops = "stdin"]
               out == [Closed EXCEPT !.flags = "FD_AVAIL", !.ops = "stdout"]
    <2>1. NewFds = [fd \in Fds |-> CASE fd = 0 -> in [] fd = 1 -> out [] OTHER -> Closed]
      BY DEF NewFds
    <2>2. in.ops = "stdin" /\ out.ops = "stdout"
      BY <1>4
    <2> HIDE DEF in, out
    <2> QED BY <1>1, <2>1, <2>2
  <1>6. \A fd \in Fds \ {0, 1} : NewFds[fd] = Closed
    BY DEF NewFds
  <1> QED BY <1>1, <1>2, <1>5, <1>6

\* A step that changes one descriptor.
LEMMA KeepOthers ==
    ASSUME FdInv, NEW p \in Procs, NEW fd \in Fds \ {0, 1}, Kept(p, fd),
           \A f \in Fds \ {fd} : fds'[p][f] = fds[p][f] /\ seen'[p][f] = seen[p][f],
           \A q \in Procs \ {p} : fds'[q] = fds[q] /\ seen'[q] = seen[q]
    PROVE  AllKept
  <1>1. \A q \in Procs, f \in Fds : Len(seen[q][f]) \in Nat
    BY LenProperties DEF FdInv, FileInv, Types
  <1>2. \A q \in Procs, f \in Fds : ~(Len(seen[q][f]) < Len(seen[q][f]))
    BY <1>1
  <1>3. \A q \in Procs, f \in Fds :
           q # p \/ f # fd => fds'[q][f] = fds[q][f] /\ seen'[q][f] = seen[q][f]
    OBVIOUS
  <1>4. \A q \in Procs, f \in Fds : Kept(q, f)
    BY <1>2, <1>3 DEF Kept
  <1>5. \A q \in Procs : StdOK(q)'
    BY <1>3, NewFdsFlags DEF FdInv, StdOK
  <1> QED BY <1>4, <1>5 DEF AllKept

\* A step that touches no descriptor and no history keeps all files open.
LEMMA KeepAll == ASSUME FdInv, UNCHANGED <<fds, seen>> PROVE AllKept
  <1>1. \A q \in Procs, f \in Fds : Len(seen[q][f]) \in Nat
    BY LenProperties DEF FdInv, FileInv, Types
  <1>2. \A q \in Procs, f \in Fds : ~(Len(seen[q][f]) < Len(seen[q][f]))
    BY <1>1
  <1> QED BY <1>2 DEF AllKept, Kept, FdInv, StdOK

\* An open file or directory is neither stdin nor stdout.
LEMMA NotStd ==
    ASSUME FdInv, NEW p \in Procs, NEW fd \in Fds, fds[p][fd].ops \in {"file", "dir"}
    PROVE  fd \in Fds \ {0, 1}
  BY NewFdsFlags DEF FdInv, StdOK

\* sys_open takes a descriptor that was free.
LEMMA OpenKeeps ==
    ASSUME FdInv, NEW p \in Procs, NEW name, sys_open(p, name) PROVE AllKept
  <1>1. PICK e \in DOMAIN Dentries, fd \in Fds :
           /\ FreeFd(p, fd)
           /\ fds' = [fds EXCEPT ![p][fd] = OpenedFd(@, Dentries[e])]
           /\ seen' = [seen EXCEPT ![p][fd] = <<>>]
    BY DEF sys_open
  <1>2. Types
    BY DEF FdInv, FileInv
  <1>3. /\ \A f \in Fds \ {fd} : fds'[p][f] = fds[p][f] /\ seen'[p][f] = seen[p][f]
        /\ \A q \in Procs \ {p} : fds'[q] = fds[q] /\ seen'[q] = seen[q]
    BY <1>1, <1>2 DEF Types
  <1>4. fd \in Fds \ {0, 1} /\ ~IsOpen(p, fd)
    BY <1>1, ConstantFacts DEF FreeFd
  <1>5. Kept(p, fd)
    BY <1>4 DEF Kept, IsOpen
  <1> QED BY <1>3, <1>4, <1>5, KeepOthers

\* sys_close frees the one it was called for.
LEMMA CloseKeeps ==
    ASSUME FdInv, NEW p \in Procs, NEW fd \in Fds, sys_close(p, fd) PROVE AllKept
  <1>1. /\ fd >= 2 /\ fds' = [fds EXCEPT ![p][fd].flags = "FD_OCCUP"]
        /\ seen' = [seen EXCEPT ![p][fd] = <<>>]
    BY DEF sys_close
  <1>2. Types /\ fds[p][fd] \in Descriptors
    BY DEF FdInv, FileInv, Types
  <1>3. /\ \A f \in Fds \ {fd} : fds'[p][f] = fds[p][f] /\ seen'[p][f] = seen[p][f]
        /\ \A q \in Procs \ {p} : fds'[q] = fds[q] /\ seen'[q] = seen[q]
        /\ fds'[p][fd].flags = "FD_OCCUP"
    BY <1>1, <1>2 DEF Types, Descriptors
  <1>4. fd \in Fds \ {0, 1}
    BY <1>1, ConstantFacts
  <1>5. Kept(p, fd)
    BY <1>3 DEF Kept
  <1> QED BY <1>3, <1>4, <1>5, KeepOthers

\* halt closes the files of the process that halts.
LEMMA HaltKeeps == ASSUME FdInv, NEW p \in Procs, halt_execute(p) PROVE AllKept
  <1>1. /\ fds' = [fds EXCEPT ![p] = NewFds]
        /\ seen' = [seen EXCEPT ![p] = [fd \in Fds |-> <<>>]]
    BY DEF halt_execute
  <1>2. Types
    BY DEF FdInv, FileInv
  <1>3. /\ fds'[p] = NewFds /\ \A f \in Fds : seen'[p][f] = <<>>
        /\ \A q \in Procs \ {p} : fds'[q] = fds[q] /\ seen'[q] = seen[q]
    BY <1>1, <1>2 DEF Types
  <1>4. \A q \in Procs : StdOK(q)'
    BY <1>3, NewFdsFlags DEF FdInv, StdOK
  <1>5. \A q \in Procs, f \in Fds : ~(Len(seen[q][f]) < Len(seen[q][f]))
    <2>1. \A q \in Procs, f \in Fds : Len(seen[q][f]) \in Nat
      BY <1>2, LenProperties DEF Types
    <2> QED BY <2>1
  <1>6. \A f \in Fds : Kept(p, f)
    <2> TAKE f \in Fds
    <2>1. CASE f \in {0, 1}
      <3>1. fds'[p][f] = fds[p][f] /\ seen'[p][f] = seen[p][f]
        BY <1>3, <2>1 DEF FdInv, StdOK
      <3> QED BY <1>5, <3>1 DEF Kept
    <2>2. CASE f \notin {0, 1}
      BY <1>3, <2>2, NewFdsFlags DEF Kept
    <2> QED BY <2>1, <2>2
  <1>7. \A q \in Procs \ {p}, f \in Fds : Kept(q, f)
    BY <1>3, <1>5 DEF Kept
  <1> QED BY <1>4, <1>6, <1>7 DEF AllKept

\* A read adds to what was read before.
LEMMA ReadKeeps ==
    ASSUME FdInv, NEW p \in Procs, NEW fd \in Fds, fds[p][fd].ops = "file",
           ReadReturns(p, fd) \/ ReadGoesOn(p)
    PROVE  AllKept
  <1>1. CASE ReadReturns(p, fd)
    <2>1. PICK value \in Int, bytes \in Seq(Bytes) : Return(p, fd, value, bytes)
      BY <1>1 DEF ReadReturns
    <2> DEFINE d == fds[p][fd]
               e == Moved(d, value)
               s == seen[p][fd]
               t == s \o bytes
    <2>2. /\ fds' = [fds EXCEPT ![p][fd] = e] /\ seen' = [seen EXCEPT ![p][fd] = t]
      BY <2>1 DEF Return, Moved
    <2>3. Types /\ d \in Descriptors /\ s \in Seq(Bytes \cup Names)
      BY DEF FdInv, FileInv, Types
    <2>4. e.ops = d.ops /\ e.inode = d.inode
      BY <2>3, MovedFacts
    <2>5. Len(t) = Len(s) + Len(bytes) /\ Len(s) \in Nat /\ Len(bytes) \in Nat
      <3>1. bytes \in Seq(Bytes \cup Names)
        BY SeqMonotonic
      <3> QED BY <2>3, <3>1, ConcatProperties, LenProperties
    <2>6. ~(Len(t) < Len(s))
      <3> HIDE DEF t, s
      <3> QED BY <2>5
    <2> HIDE DEF e, t
    <2>7. /\ fds'[p][fd] = e /\ seen'[p][fd] = t
          /\ \A f \in Fds \ {fd} : fds'[p][f] = fds[p][f] /\ seen'[p][f] = seen[p][f]
          /\ \A q \in Procs \ {p} : fds'[q] = fds[q] /\ seen'[q] = seen[q]
      BY <2>2, <2>3 DEF Types
    <2>8. Kept(p, fd)
      BY <2>4, <2>6, <2>7 DEF Kept
    <2>9. fd \in Fds \ {0, 1}
      BY NotStd
    <2> QED BY <2>7, <2>8, <2>9, KeepOthers
  <1>2. CASE ReadGoesOn(p)
    BY <1>2, KeepAll DEF ReadGoesOn
  <1> QED BY <1>1, <1>2

\* A directory read that has not found its entry adds nothing.
LEMMA DirectoryReadKeeps ==
    ASSUME FdInv, NEW p \in Procs, NEW fd \in Fds, fds[p][fd].ops = "dir", directory_read(p, fd)
    PROVE  AllKept
  <1>1. CASE directoryLoc < Len(Dentries)
    BY <1>1, KeepAll DEF directory_read
  <1>2. CASE ~(directoryLoc < Len(Dentries))
    <2>1. fds' = fds /\ seen' = [seen EXCEPT ![p][fd] = <<>>]
      BY <1>2 DEF directory_read
    <2>2. Types
      BY DEF FdInv, FileInv
    <2>3. /\ \A f \in Fds \ {fd} : fds'[p][f] = fds[p][f] /\ seen'[p][f] = seen[p][f]
          /\ \A q \in Procs \ {p} : fds'[q] = fds[q] /\ seen'[q] = seen[q]
      BY <2>1, <2>2 DEF Types
    <2>4. Kept(p, fd)
      BY <2>1 DEF Kept
    <2> QED BY <2>3, <2>4, NotStd, KeepOthers
  <1> QED BY <1>1, <1>2

\* One that has adds the entry's name.
LEMMA DirectoryNextKeeps ==
    ASSUME FdInv, NEW p \in Procs, directory_next(p)
    PROVE  AllKept
  <1> DEFINE fd == call[p].fd
             s == Append(seen[p][fd], call[p].name)
  <1>1. /\ call[p].at = "list" /\ fds' = fds /\ seen' = [seen EXCEPT ![p][fd] = s]
    BY DEF directory_next
  <1>2. Types /\ call[p] \in Lists
    BY <1>1, CallKinds DEF FdInv, FileInv
  <1>3. fd \in Fds /\ fds[p][fd].ops = "dir"
    BY <1>2 DEF Lists, FdInv, FileInv, CallOK
  <1> HIDE DEF fd, s
  <1>4. /\ \A f \in Fds \ {fd} : fds'[p][f] = fds[p][f] /\ seen'[p][f] = seen[p][f]
        /\ \A q \in Procs \ {p} : fds'[q] = fds[q] /\ seen'[q] = seen[q]
    BY <1>1, <1>2, <1>3 DEF Types
  <1>5. Kept(p, fd)
    BY <1>1, <1>3 DEF Kept
  <1> QED BY <1>3, <1>4, <1>5, NotStd, KeepOthers

\* No step closes a file, or forgets a read of one, but its own close and halt.
LEMMA NextKeeps == ASSUME FdInv, [Next]_vars PROVE AllKept
  <1>1. FileInv
    BY DEF FdInv
  <1>2. CASE UNCHANGED vars
    BY <1>2, KeepAll DEF vars
  <1>3. CASE Next
    <2>1. PICK p \in Procs :
             \/ \E e \in DOMAIN Dentries : sys_open(p, Dentries[e].fileName)
             \/ \E fd \in Fds : sys_close(p, fd)
             \/ \E fd \in Fds, n \in NBYTES : sys_read(p, fd, n)
             \/ copy_block(p)
             \/ directory_next(p)
             \/ halt_execute(p)
      BY <1>3 DEF Next
    <2>2. ASSUME NEW fd \in Fds, NEW n \in NBYTES, sys_read(p, fd, n) PROVE AllKept
      <3>1. CASE fds[p][fd].ops = "file"
        <4>1. IsOpen(p, fd) /\ read_data(p, fd, n)
          BY <2>2, <3>1 DEF sys_read
        <4> QED BY <1>1, <3>1, <4>1, ReadDataCases, ReadKeeps
      <3>2. CASE fds[p][fd].ops # "file"
        <4>1. fds[p][fd].ops = "dir" /\ directory_read(p, fd)
          BY <2>2, <3>2 DEF sys_read
        <4> QED BY <4>1, DirectoryReadKeeps
      <3> QED BY <3>1, <3>2
    <2>3. ASSUME copy_block(p) PROVE AllKept
      <3>1. /\ call[p] \in Copies /\ fds[p][call[p].fd].ops = "file"
            /\ ReadReturns(p, call[p].fd) \/ ReadGoesOn(p)
        BY <1>1, <2>3, CopyBlockCases
      <3>2. call[p].fd \in Fds
        BY <3>1 DEF Copies
      <3> QED BY <3>1, <3>2, ReadKeeps
    <2> QED BY <2>1, <2>2, <2>3, OpenKeeps, CloseKeeps, DirectoryNextKeeps, HaltKeeps
  <1> QED BY <1>2, <1>3

\* The invariant of the descriptors holds throughout.
LEMMA FdInvariance == Spec => []FdInv
  <1>1. Init => FdInv
    <2> SUFFICES ASSUME Init PROVE FdInv
      OBVIOUS
    <2>1. \A p \in Procs : StdOK(p)
      BY NewFdsFlags DEF Init, StdOK
    <2> QED BY <2>1, FileInvInit DEF FdInv
  <1>2. FdInv /\ [Next]_vars => FdInv'
    <2> SUFFICES ASSUME FdInv, [Next]_vars PROVE FdInv'
      OBVIOUS
    <2>1. FileInv'
      BY FileInvStep DEF FdInv
    <2>2. \A p \in Procs : StdOK(p)'
      BY NextKeeps DEF AllKept
    <2> QED BY <2>1, <2>2 DEF FdInv
  <1> QED BY <1>1, <1>2, PTL DEF Spec

\* An open descriptor goes on naming the same file until it is closed
\* (sys_open gives out a descriptor that is free, sys_close and halt free
\* it), and what was read through it is forgotten only when a directory's
\* listing begins again.
THEOREM OpenFilesKeptHolds == Spec => OpenFilesKept
  <1>1. FdInv /\ [Next]_vars =>
           [\A p \in Procs, fd \in Fds :
               IsOpen(p, fd) /\ IsOpen(p, fd)' =>
                   /\ fds'[p][fd].ops = fds[p][fd].ops
                   /\ fds'[p][fd].inode = fds[p][fd].inode
                   /\ Len(seen'[p][fd]) < Len(seen[p][fd]) => fds[p][fd].ops = "dir"]_vars
    <2> SUFFICES ASSUME FdInv, [Next]_vars, NEW p \in Procs, NEW fd \in Fds
                 PROVE  IsOpen(p, fd) /\ IsOpen(p, fd)' =>
                            /\ fds'[p][fd].ops = fds[p][fd].ops
                            /\ fds'[p][fd].inode = fds[p][fd].inode
                            /\ Len(seen'[p][fd]) < Len(seen[p][fd]) => fds[p][fd].ops = "dir"
      OBVIOUS
    <2>1. Kept(p, fd)
      BY NextKeeps DEF AllKept
    <2> QED BY <2>1 DEF Kept, IsOpen
  <1> QED BY <1>1, FdInvariance, PTL DEF Spec, OpenFilesKept

-----------------------------------------------------------------------------
(***************************************************************************)
(* Directories, as long as one descriptor lists at a time: the read of a    *)
(* directory is that of the listing that has begun, and directoryLoc is     *)
(* still at the entry it has copied.                                        *)
(***************************************************************************)
ListerOK(p) ==
    call[p] \in Lists =>
        /\ lister = <<p, call[p].fd>>
        /\ directoryLoc < Len(Dentries)
        /\ call[p].name = Dentries[directoryLoc + 1].fileName

DirInv == /\ directoryLoc \in 0 .. Len(Dentries)
          /\ \A p \in Procs : ListerOK(p)

\* Nobody is not a descriptor.
LEMMA NobodyLists == ASSUME NEW p, NEW fd PROVE Nobody # <<p, fd>>
  BY DEF Nobody

\* A process that lists is neither idle nor copying a file.
LEMMA IdleIsNoList == Idle \notin Lists /\ \A c \in Copies : c \notin Lists
  <1>1. Idle \notin Lists
    BY DEF Idle, Lists
  <1>2. \A c \in Copies : c \notin Lists
    BY DEF Copies, Lists
  <1> QED BY <1>1, <1>2

\* A step of p outside directory_read may at most give up p's own listing.
LEMMA QuietStep ==
    ASSUME DirInv, NEW p \in Procs, call'[p] \notin Lists, directoryLoc' = directoryLoc,
           \A q \in Procs \ {p} : call'[q] = call[q],
           lister' = lister \/ \E fd \in Fds : lister = <<p, fd>>
    PROVE  DirInv'
  <1>1. ASSUME NEW q \in Procs PROVE ListerOK(q)'
    <2>1. CASE q = p
      BY <2>1 DEF ListerOK, Lists, Names
    <2>2. CASE q # p /\ call[q] \notin Lists
      BY <2>2 DEF ListerOK, Lists, Names
    <2>3. CASE q # p /\ call[q] \in Lists
      <3>1. /\ lister = <<q, call[q].fd>> /\ directoryLoc < Len(Dentries)
            /\ call[q].name = Dentries[directoryLoc + 1].fileName
        BY <2>3 DEF DirInv, ListerOK
      <3>2. lister' = lister
        BY <2>3, <3>1
      <3>3. call'[q] = call[q]
        BY <2>3
      <3> QED BY <3>1, <3>2, <3>3 DEF ListerOK
    <2> QED BY <2>1, <2>2, <2>3
  <1> QED BY <1>1 DEF DirInv

\* Reads of files leave the directory to its lister.
LEMMA ReadQuiet ==
    ASSUME FileInv, DirInv, NEW p \in Procs, NEW fd \in Fds,
           UNCHANGED <<directoryLoc, lister>>, ReadReturns(p, fd) \/ ReadGoesOn(p)
    PROVE  DirInv'
  <1>1. PICK c \in {Idle} \cup Copies : call' = [call EXCEPT ![p] = c]
    BY DEF ReadReturns, ReadGoesOn, Return
  <1>2. call'[p] = c /\ \A q \in Procs \ {p} : call'[q] = call[q]
    BY <1>1 DEF FileInv, Types
  <1> QED BY <1>2, IdleIsNoList, QuietStep

\* A directory read starts when nobody else lists.
LEMMA DirectoryReadDir ==
    ASSUME "shared" \notin Listings, FileInv, DirInv, NEW p \in Procs, NEW fd \in Fds,
           directory_read(p, fd)
    PROVE  DirInv'
  <1>1. directoryLoc \in Nat /\ directoryLoc <= Len(Dentries) /\ Len(Dentries) \in Nat
    BY ConstantFacts DEF DirInv
  <1>2. CASE directoryLoc < Len(Dentries)
    <2> DEFINE c == [at |-> "list", fd |-> fd, name |-> Dentries[directoryLoc + 1].fileName]
    <2>1. /\ call' = [call EXCEPT ![p] = c] /\ directoryLoc' = directoryLoc
          /\ lister' = <<p, fd>> /\ lister \in {Nobody, <<p, fd>>}
      BY <1>2 DEF directory_read, MayList
    <2>2. c.fd = fd /\ c.name = Dentries[directoryLoc + 1].fileName
      OBVIOUS
    <2> HIDE DEF c
    <2>3. call'[p] = c /\ \A q \in Procs \ {p} : call'[q] = call[q]
      BY <2>1 DEF FileInv, Types
    <2>4. ListerOK(p)'
      BY <1>2, <2>1, <2>2, <2>3 DEF ListerOK
    <2>5. ASSUME NEW q \in Procs \ {p} PROVE ListerOK(q)'
      <3>1. call[q] \notin Lists
        <4>1. call[q] \in Lists => lister = <<q, call[q].fd>>
          BY DEF DirInv, ListerOK
        <4> QED BY <2>1, <4>1, NobodyLists
      <3> QED BY <2>3, <3>1 DEF ListerOK, Lists, Names
    <2> QED BY <1>1, <2>1, <2>4, <2>5 DEF DirInv
  <1>3. CASE ~(directoryLoc < Len(Dentries))
    <2>1. directoryLoc' = 0 /\ call' = call
      BY <1>3 DEF directory_read, rewind
    <2>2. \A q \in Procs : call[q] \notin Lists
      BY <1>3 DEF DirInv, ListerOK
    <2>3. \A q \in Procs : ListerOK(q)'
      BY <2>1, <2>2 DEF ListerOK, Lists, Names
    <2> QED BY <1>1, <2>1, <2>3 DEF DirInv
  <1> QED BY <1>2, <1>3

\* The lister takes the next entry or ends its list.
LEMMA DirectoryNextDir ==
    ASSUME FileInv, DirInv, NEW p \in Procs, directory_next(p) PROVE DirInv'
  <1>1. /\ call[p].at = "list" /\ directoryLoc' = directoryLoc + 1
        /\ call' = [call EXCEPT ![p] = Idle]
    BY DEF directory_next, advance
  <1>2. call[p] \in Lists
    BY <1>1, CallKinds DEF FileInv
  <1>3. lister = <<p, call[p].fd>> /\ directoryLoc < Len(Dentries)
    BY <1>2 DEF DirInv, ListerOK
  <1>4. directoryLoc' \in 0 .. Len(Dentries)
    BY <1>1, <1>3, ConstantFacts DEF DirInv
  <1>5. call'[p] = Idle /\ \A q \in Procs \ {p} : call'[q] = call[q]
    BY <1>1 DEF FileInv, Types
  <1>6. \A q \in Procs \ {p} : call[q] \notin Lists
    <2>1. \A q \in Procs : call[q] \in Lists => lister = <<q, call[q].fd>>
      BY DEF DirInv, ListerOK
    <2> QED BY <1>3, <2>1
  <1>7. \A q \in Procs : call'[q] \notin Lists
    BY <1>5, <1>6, IdleIsNoList
  <1>8. \A q \in Procs : ListerOK(q)'
    BY <1>7 DEF ListerOK, Lists, Names
  <1> QED BY <1>4, <1>8 DEF DirInv

\* Every step keeps the directory invariant, with one lister at a time.
LEMMA DirInvStep ==
    ASSUME "shared" \notin Listings, FileInv, DirInv, [Next]_vars PROVE DirInv'
  <1>1. CASE UNCHANGED vars
    BY <1>1 DEF vars, DirInv, ListerOK, Lists, Names
  <1>2. CASE Next
    <2>1. PICK p \in Procs :
             \/ \E e \in DOMAIN Dentries : sys_open(p, Dentries[e].fileName)
             \/ \E fd \in Fds : sys_close(p, fd)
             \/ \E fd \in Fds, n \in NBYTES : sys_read(p, fd, n)
             \/ copy_block(p)
             \/ directory_next(p)
             \/ halt_execute(p)
      BY <1>2 DEF Next
    <2>2. ASSUME call[p] = Idle, UNCHANGED <<call, directoryLoc>>,
                 lister' = lister \/ \E fd \in Fds : lister = <<p, fd>>
          PROVE  DirInv'
      BY <2>2, IdleIsNoList, QuietStep
    <2>3. ASSUME NEW name, sys_open(p, name) PROVE DirInv'
      BY <2>2, <2>3 DEF sys_open
    <2>4. ASSUME NEW fd \in Fds, sys_close(p, fd) PROVE DirInv'
      BY <2>2, <2>4 DEF sys_close, Forget
    <2>5. ASSUME halt_execute(p) PROVE DirInv'
      BY <2>2, <2>5 DEF halt_execute, Forget
    <2>6. ASSUME NEW fd \in Fds, NEW n \in NBYTES, sys_read(p, fd, n) PROVE DirInv'
      <3>1. CASE fds[p][fd].ops = "file"
        <4>1. IsOpen(p, fd) /\ read_data(p, fd, n) /\ UNCHANGED <<directoryLoc, lister>>
          BY <2>6, <3>1 DEF sys_read
        <4> QED BY <3>1, <4>1, ReadDataCases, ReadQuiet
      <3>2. CASE fds[p][fd].ops # "file"
        BY <2>6, <3>2, DirectoryReadDir DEF sys_read
      <3> QED BY <3>1, <3>2
    <2>7. ASSUME copy_block(p) PROVE DirInv'
      <3>1. /\ call[p] \in Copies /\ UNCHANGED <<directoryLoc, lister>>
            /\ ReadReturns(p, call[p].fd) \/ ReadGoesOn(p)
        BY <2>7, CopyBlockCases
      <3>2. call[p].fd \in Fds
        BY <3>1 DEF Copies
      <3> QED BY <3>1, <3>2, ReadQuiet
    <2> QED BY <2>1, <2>3, <2>4, <2>5, <2>6, <2>7, DirectoryNextDir
  <1> QED BY <1>1, <1>2

\* So it holds throughout.
LEMMA DirInvariance == ASSUME "shared" \notin Listings PROVE Spec => [](FileInv /\ DirInv)
  <1>1. Init => DirInv
    <2> SUFFICES ASSUME Init PROVE DirInv
      OBVIOUS
    <2>1. directoryLoc \in 0 .. Len(Dentries)
      BY ConstantFacts DEF Init
    <2>2. \A p \in Procs : call[p] \notin Lists
      BY IdleIsNoList DEF Init
    <2> QED BY <2>1, <2>2 DEF DirInv, ListerOK
  <1>2. FileInv /\ DirInv /\ [Next]_vars => DirInv'
    BY DirInvStep
  <1> QED BY <1>1, <1>2, FileInvariance, PTL DEF Spec

\* The types of the descriptor tables, of directoryLoc and of the reads in
\* progress, whose descriptors are open, as long as no two descriptors list
\* the directory at a time.
THEOREM TypeCorrect == ASSUME "shared" \notin Listings PROVE Spec => []TypeOK
  <1>1. FileInv /\ DirInv => TypeOK
    <2> SUFFICES ASSUME FileInv, DirInv PROVE TypeOK
      OBVIOUS
    <2>1. Types
      BY DEF FileInv
    <2>2. ASSUME NEW p \in Procs
          PROVE  /\ call[p] \in Calls(p)
                 /\ call[p] # Idle =>
                       /\ IsOpen(p, call[p].fd)
                       /\ fds[p][call[p].fd].ops =
                             IF call[p].at = "list" THEN "dir" ELSE "file"
      <3>1. CallOK(p) /\ call[p] \in {Idle} \cup Lists \cup Copies
        BY DEF FileInv, Types
      <3>2. call[p] \in Calls(p)
        BY <3>1 DEF Calls, Lists, Copies, Names
      <3>3. CASE call[p] \in Lists
        <4>1. call[p].at = "list"
          BY <3>3 DEF Lists
        <4> QED BY <3>1, <3>2, <3>3, <4>1 DEF CallOK, IsOpen
      <3>4. CASE call[p] \in Copies
        <4>1. call[p].at # "list"
          BY <3>4 DEF Copies
        <4> QED BY <3>1, <3>2, <3>4, <4>1 DEF CallOK, IsOpen
      <3>5. CASE call[p] = Idle
        BY <3>2, <3>5
      <3> QED BY <3>1, <3>3, <3>4, <3>5
    <2> QED BY <2>1, <2>2 DEF TypeOK, Types, DirInv
  <1> QED BY <1>1, DirInvariance, PTL

-----------------------------------------------------------------------------
(***************************************************************************)
(* The order of a listing, when each is read to its end before the next.    *)
(***************************************************************************)
Listed(n) == [e \in 1 .. n |-> Dentries[e].fileName]

IsDir(d) == d.flags = "FD_AVAIL" /\ d.ops = "dir"

OrderOK(p, fd) ==
    /\ lister = <<p, fd>> => IsDir(fds[p][fd]) /\ seen[p][fd] = Listed(directoryLoc)
    /\ IsDir(fds[p][fd]) /\ lister # <<p, fd>> => seen[p][fd] = <<>>

OrderInv == /\ lister = Nobody => directoryLoc = 0
            /\ \A p \in Procs, fd \in Fds : OrderOK(p, fd)

\* The first n names of the directory, and one more.
LEMMA ListedFacts ==
    ASSUME NEW n \in Nat, n < Len(Dentries)
    PROVE  /\ Listed(n) \in Seq(Names) /\ Len(Listed(n)) = n
           /\ Append(Listed(n), Dentries[n + 1].fileName) = Listed(n + 1)
  <1>1. \A e \in 1 .. n + 1 : Dentries[e].fileName \in Names
    BY ConstantFacts DEF Names
  <1>2. Listed(n) \in [1 .. n -> Names] /\ Listed(n + 1) \in [1 .. n + 1 -> Names]
    BY <1>1 DEF Listed
  <1>3. n + 1 \in Nat /\ 1 .. (n + 1) = 1 .. n + 1
    OBVIOUS
  <1>4. Listed(n) \in Seq(Names) /\ Listed(n + 1) \in Seq(Names)
    BY <1>2, <1>3, SeqDef
  <1>5. Len(Listed(n)) = n
    <2>1. Len(Listed(n)) \in Nat /\ 1 .. Len(Listed(n)) = 1 .. n
      BY <1>2, <1>4, LenProperties
    <2> QED BY <2>1
  <1> DEFINE s == Append(Listed(n), Dentries[n + 1].fileName)
             l == Listed(n)
             x == Dentries[n + 1].fileName
  <1>6. x \in Names
    BY <1>1
  <1>7. /\ s \in Seq(Names) /\ Len(s) = n + 1 /\ s[n + 1] = x
        /\ \A e \in 1 .. n : s[e] = l[e]
    <2>1. l \in Seq(Names) /\ Len(l) = n
      BY <1>4, <1>5
    <2> HIDE DEF l, x
    <2>2. /\ Append(l, x) \in Seq(Names) /\ Len(Append(l, x)) = Len(l) + 1
          /\ \A i \in 1 .. Len(l) : Append(l, x)[i] = l[i]
          /\ Append(l, x)[Len(l) + 1] = x
      BY <1>6, <2>1, AppendProperties
    <2> QED BY <2>1, <2>2 DEF l, x
  <1>8. s \in [1 .. n + 1 -> Names]
    BY <1>7, LenProperties
  <1>9. \A e \in 1 .. n + 1 : s[e] = Listed(n + 1)[e]
    <2> TAKE e \in 1 .. n + 1
    <2>1. CASE e = n + 1
      BY <1>7, <2>1 DEF Listed
    <2>2. CASE e # n + 1
      <3>1. e \in 1 .. n
        BY <2>2
      <3>2. s[e] = l[e]
        BY <1>7, <3>1
      <3> QED BY <3>1, <3>2 DEF Listed
    <2> QED BY <2>1, <2>2
  <1> HIDE DEF s
  <1>10. s = Listed(n + 1)
    BY <1>2, <1>8, <1>9
  <1> QED BY <1>4, <1>5, <1>10 DEF s

\* None of them is the empty list.
LEMMA ListedNone == Listed(0) = <<>>
  <1>1. 1 .. 0 = {}
    OBVIOUS
  <1> QED BY <1>1 DEF Listed

\* A step that is not one of the listing leaves it alone.
LEMMA OrderQuiet ==
    ASSUME OrderInv, NEW p \in Procs, NEW S \in SUBSET Fds,
           UNCHANGED <<directoryLoc, lister>>,
           \A fd \in S : /\ lister # <<p, fd>>
                         /\ IsDir(fds'[p][fd]) => seen'[p][fd] = <<>>,
           \A fd \in Fds \ S : fds'[p][fd] = fds[p][fd] /\ seen'[p][fd] = seen[p][fd],
           \A q \in Procs \ {p} : fds'[q] = fds[q] /\ seen'[q] = seen[q]
    PROVE  OrderInv'
  <1>1. ASSUME NEW q \in Procs, NEW fd \in Fds PROVE OrderOK(q, fd)'
    <2>1. OrderOK(q, fd)
      BY DEF OrderInv
    <2>2. CASE q = p /\ fd \in S
      BY <2>2 DEF OrderOK, IsDir
    <2>3. CASE q # p \/ fd \notin S
      <3>1. fds'[q][fd] = fds[q][fd] /\ seen'[q][fd] = seen[q][fd]
        BY <2>3
      <3> QED BY <2>1, <3>1 DEF OrderOK, IsDir, Listed
    <2> QED BY <2>2, <2>3
  <1>2. (lister = Nobody => directoryLoc = 0)'
    BY DEF OrderInv, Nobody
  <1> QED BY <1>1, <1>2 DEF OrderInv

\* A step on a descriptor that does not list keeps the order.
LEMMA OrderQuietOne ==
    ASSUME OrderInv, NEW p \in Procs, NEW fd \in Fds,
           UNCHANGED <<directoryLoc, lister>>, lister # <<p, fd>>,
           IsDir(fds'[p][fd]) => seen'[p][fd] = <<>>,
           \A f \in Fds \ {fd} : fds'[p][f] = fds[p][f] /\ seen'[p][f] = seen[p][f],
           \A q \in Procs \ {p} : fds'[q] = fds[q] /\ seen'[q] = seen[q]
    PROVE  OrderInv'
  <1>1. PICK S \in SUBSET Fds : S = {fd}
    OBVIOUS
  <1>2. /\ \A f \in S : lister # <<p, f>> /\ (IsDir(fds'[p][f]) => seen'[p][f] = <<>>)
        /\ \A f \in Fds \ S : fds'[p][f] = fds[p][f] /\ seen'[p][f] = seen[p][f]
    BY <1>1
  <1> QED BY <1>2, OrderQuiet

\* sys_open: a directory starts with nothing read.
LEMMA OpenOrder ==
    ASSUME FileInv, OrderInv, NEW p \in Procs, NEW name, sys_open(p, name) PROVE OrderInv'
  <1>1. PICK e \in DOMAIN Dentries, fd \in Fds :
           /\ FreeFd(p, fd)
           /\ fds' = [fds EXCEPT ![p][fd] = OpenedFd(@, Dentries[e])]
           /\ seen' = [seen EXCEPT ![p][fd] = <<>>]
    BY DEF sys_open
  <1>2. UNCHANGED <<directoryLoc, lister>> /\ Types
    BY DEF sys_open, FileInv
  <1>3. /\ \A f \in Fds \ {fd} : fds'[p][f] = fds[p][f] /\ seen'[p][f] = seen[p][f]
        /\ \A q \in Procs \ {p} : fds'[q] = fds[q] /\ seen'[q] = seen[q]
        /\ seen'[p][fd] = <<>>
    BY <1>1, <1>2 DEF Types
  <1>4. lister # <<p, fd>>
    BY <1>1 DEF OrderInv, OrderOK, FreeFd, IsOpen, IsDir
  <1> QED BY <1>2, <1>3, <1>4, OrderQuietOne

\* sys_close, of a directory only when its list has ended.
LEMMA CloseOrder ==
    ASSUME Listings = {}, FileInv, OrderInv, NEW p \in Procs, NEW fd \in Fds, sys_close(p, fd)
    PROVE  OrderInv'
  <1>1. /\ fds' = [fds EXCEPT ![p][fd].flags = "FD_OCCUP"]
        /\ seen' = [seen EXCEPT ![p][fd] = <<>>]
        /\ lister # <<p, fd>> /\ UNCHANGED <<directoryLoc, lister>>
    BY DEF sys_close, MayAbandon, Forget
  <1>2. Types
    BY DEF FileInv
  <1>3. /\ \A f \in Fds \ {fd} : fds'[p][f] = fds[p][f] /\ seen'[p][f] = seen[p][f]
        /\ \A q \in Procs \ {p} : fds'[q] = fds[q] /\ seen'[q] = seen[q]
        /\ seen'[p][fd] = <<>>
    BY <1>1, <1>2 DEF Types
  <1> QED BY <1>1, <1>3, OrderQuietOne

\* halt, likewise.
LEMMA HaltOrder ==
    ASSUME Listings = {}, FileInv, OrderInv, NEW p \in Procs, halt_execute(p)
    PROVE  OrderInv'
  <1>1. /\ seen' = [seen EXCEPT ![p] = [fd \in Fds |-> <<>>]]
        /\ fds' = [fds EXCEPT ![p] = NewFds]
        /\ \A fd \in Fds : lister # <<p, fd>>
        /\ directoryLoc' = directoryLoc
    BY DEF halt_execute, MayAbandon
  <1>2. lister' = lister
    BY <1>1 DEF halt_execute, Forget
  <1>3. Types
    BY DEF FileInv
  <1>4. /\ \A q \in Procs \ {p} : fds'[q] = fds[q] /\ seen'[q] = seen[q]
        /\ \A fd \in Fds : seen'[p][fd] = <<>>
    BY <1>1, <1>3 DEF Types
  <1> QED BY <1>1, <1>2, <1>4, OrderQuiet

\* Reads of files.
LEMMA ReadOrder ==
    ASSUME FileInv, OrderInv, NEW p \in Procs, NEW fd \in Fds, fds[p][fd].ops = "file",
           UNCHANGED <<directoryLoc, lister>>, ReadReturns(p, fd) \/ ReadGoesOn(p)
    PROVE  OrderInv'
  <1>1. lister # <<p, fd>>
    BY DEF OrderInv, OrderOK, IsDir
  <1>2. CASE ReadReturns(p, fd)
    <2>1. PICK value \in Int, bytes \in Seq(Bytes) : Return(p, fd, value, bytes)
      BY <1>2 DEF ReadReturns
    <2>2. Types /\ fds[p][fd] \in Descriptors
      BY DEF FileInv, Types
    <2>3. /\ fds' = [fds EXCEPT ![p][fd] = Moved(fds[p][fd], value)]
          /\ seen' = [seen EXCEPT ![p][fd] = @ \o bytes]
      BY <2>1 DEF Return, Moved
    <2>4. Moved(fds[p][fd], value).ops = "file"
      BY <2>2, MovedFacts
    <2>5. /\ \A f \in Fds \ {fd} : fds'[p][f] = fds[p][f] /\ seen'[p][f] = seen[p][f]
          /\ \A q \in Procs \ {p} : fds'[q] = fds[q] /\ seen'[q] = seen[q]
          /\ fds'[p][fd] = Moved(fds[p][fd], value)
      BY <2>2, <2>3 DEF Types
    <2>6. ~IsDir(fds'[p][fd])
      BY <2>4, <2>5 DEF IsDir
    <2> QED BY <1>1, <2>5, <2>6, OrderQuietOne
  <1>3. CASE ReadGoesOn(p)
    <2>1. fds' = fds /\ seen' = seen
      BY <1>3 DEF ReadGoesOn
    <2>2. ~IsDir(fds'[p][fd])
      BY <2>1 DEF IsDir
    <2> QED BY <1>1, <2>1, <2>2, OrderQuietOne
  <1> QED BY <1>2, <1>3

\* The start of a directory read.
LEMMA DirectoryReadOrder ==
    ASSUME Listings = {}, FileInv, DirInv, OrderInv, NEW p \in Procs, NEW fd \in Fds,
           IsDir(fds[p][fd]), directory_read(p, fd)
    PROVE  OrderInv'
  <1>1. lister \in {Nobody, <<p, fd>>} /\ fds' = fds
    BY DEF directory_read, MayList
  <1>2. \A q \in Procs, f \in Fds : <<q, f>> # <<p, fd>> => lister # <<q, f>>
    BY <1>1, NobodyLists
  <1>3. CASE directoryLoc < Len(Dentries)
    <2>1. lister' = <<p, fd>> /\ UNCHANGED <<directoryLoc, seen>>
      BY <1>3 DEF directory_read
    <2>2. seen[p][fd] = Listed(directoryLoc)
      <3>1. CASE lister = <<p, fd>>
        BY <3>1 DEF OrderInv, OrderOK
      <3>2. CASE lister = Nobody
        <4>1. lister # <<p, fd>> /\ directoryLoc = 0
          BY <3>2, NobodyLists DEF OrderInv
        <4>2. seen[p][fd] = <<>>
          BY <4>1 DEF OrderInv, OrderOK
        <4> QED BY <4>1, <4>2, ListedNone
      <3> QED BY <1>1, <3>1, <3>2
    <2>3. ASSUME NEW q \in Procs, NEW f \in Fds PROVE OrderOK(q, f)'
      <3>1. CASE q = p /\ f = fd
        BY <1>1, <2>1, <2>2, <3>1 DEF OrderOK, IsDir, Listed
      <3>2. CASE ~(q = p /\ f = fd)
        <4>1. lister # <<q, f>> /\ lister' # <<q, f>>
          BY <1>2, <2>1, <3>2
        <4> QED BY <1>1, <2>1, <4>1 DEF OrderInv, OrderOK, IsDir
      <3> QED BY <3>1, <3>2
    <2>4. (lister = Nobody => directoryLoc = 0)'
      BY <2>1, NobodyLists DEF Nobody
    <2> QED BY <2>3, <2>4 DEF OrderInv
  <1>4. CASE ~(directoryLoc < Len(Dentries))
    <2>1. /\ directoryLoc' = 0 /\ lister' = Nobody
          /\ seen' = [seen EXCEPT ![p][fd] = <<>>]
      BY <1>4 DEF directory_read, rewind
    <2>2. ASSUME NEW q \in Procs, NEW f \in Fds PROVE OrderOK(q, f)'
      <3>1. lister' # <<q, f>>
        BY <2>1, NobodyLists
      <3>2. CASE q = p /\ f = fd
        <4>1. seen'[p][fd] = <<>>
          BY <2>1 DEF FileInv, Types
        <4> QED BY <3>1, <3>2, <4>1 DEF OrderOK
      <3>3. CASE ~(q = p /\ f = fd)
        <4>1. seen'[q][f] = seen[q][f]
          BY <2>1, <3>3 DEF FileInv, Types
        <4>2. lister # <<q, f>>
          BY <1>2, <3>3
        <4> QED BY <1>1, <3>1, <4>1, <4>2 DEF OrderInv, OrderOK, IsDir
      <3> QED BY <3>2, <3>3
    <2>3. (lister = Nobody => directoryLoc = 0)'
      BY <2>1
    <2> QED BY <2>2, <2>3 DEF OrderInv
  <1> QED BY <1>3, <1>4

\* The next entry is the next name.
LEMMA DirectoryNextOrder ==
    ASSUME FileInv, DirInv, OrderInv, NEW p \in Procs, directory_next(p)
    PROVE  OrderInv'
  <1> DEFINE fd == call[p].fd
             n == directoryLoc
             s == Append(seen[p][fd], call[p].name)
  <1>1. /\ call[p].at = "list" /\ directoryLoc' = n + 1 /\ UNCHANGED <<fds, lister>>
        /\ seen' = [seen EXCEPT ![p][fd] = s]
    BY DEF directory_next, advance
  <1>2. Types /\ call[p] \in Lists
    BY <1>1, CallKinds DEF FileInv
  <1>3. fd \in Fds
    BY <1>2 DEF Lists
  <1>4. lister = <<p, fd>> /\ n < Len(Dentries) /\ call[p].name = Dentries[n + 1].fileName
    BY <1>2 DEF DirInv, ListerOK
  <1>5. IsDir(fds[p][fd]) /\ seen[p][fd] = Listed(n) /\ n \in Nat
    BY <1>2, <1>3, <1>4 DEF OrderInv, OrderOK, Types
  <1>6. s = Listed(n + 1)
    BY <1>4, <1>5, ListedFacts
  <1> HIDE DEF fd, s, n
  <1>7. ASSUME NEW q \in Procs, NEW f \in Fds PROVE OrderOK(q, f)'
    <2>1. CASE q = p /\ f = fd
      <3>1. seen'[q][f] = Listed(directoryLoc')
        BY <1>1, <1>2, <1>3, <1>6, <2>1 DEF Types
      <3> QED BY <1>1, <1>4, <1>5, <2>1, <3>1 DEF OrderOK, IsDir, Listed
    <2>2. CASE ~(q = p /\ f = fd)
      <3>1. seen'[q][f] = seen[q][f]
        BY <1>1, <1>2, <1>3, <2>2 DEF Types
      <3>2. lister # <<q, f>>
        BY <1>4, <2>2
      <3> QED BY <1>1, <3>1, <3>2 DEF OrderInv, OrderOK, IsDir
    <2> QED BY <2>1, <2>2
  <1>8. (lister = Nobody => directoryLoc = 0)'
    BY <1>1, <1>4, NobodyLists DEF Nobody
  <1> QED BY <1>7, <1>8 DEF OrderInv

\* Every step keeps the order, when every list is finished before the next.
LEMMA OrderInvStep ==
    ASSUME Listings = {}, FileInv, DirInv, OrderInv, [Next]_vars PROVE OrderInv'
  <1>1. CASE UNCHANGED vars
    BY <1>1 DEF vars, OrderInv, OrderOK, IsDir, Listed, Nobody
  <1>2. CASE Next
    <2>1. PICK p \in Procs :
             \/ \E e \in DOMAIN Dentries : sys_open(p, Dentries[e].fileName)
             \/ \E fd \in Fds : sys_close(p, fd)
             \/ \E fd \in Fds, n \in NBYTES : sys_read(p, fd, n)
             \/ copy_block(p)
             \/ directory_next(p)
             \/ halt_execute(p)
      BY <1>2 DEF Next
    <2>2. ASSUME NEW fd \in Fds, NEW n \in NBYTES, sys_read(p, fd, n) PROVE OrderInv'
      <3>1. CASE fds[p][fd].ops = "file"
        <4>1. IsOpen(p, fd) /\ read_data(p, fd, n) /\ UNCHANGED <<directoryLoc, lister>>
          BY <2>2, <3>1 DEF sys_read
        <4> QED BY <3>1, <4>1, ReadDataCases, ReadOrder
      <3>2. CASE fds[p][fd].ops # "file"
        <4>1. IsDir(fds[p][fd]) /\ directory_read(p, fd)
          BY <2>2, <3>2 DEF sys_read, IsOpen, IsDir
        <4> QED BY <4>1, DirectoryReadOrder
      <3> QED BY <3>1, <3>2
    <2>3. ASSUME copy_block(p) PROVE OrderInv'
      <3>1. /\ call[p] \in Copies /\ fds[p][call[p].fd].ops = "file"
            /\ UNCHANGED <<directoryLoc, lister>>
            /\ ReadReturns(p, call[p].fd) \/ ReadGoesOn(p)
        BY <2>3, CopyBlockCases
      <3>2. call[p].fd \in Fds
        BY <3>1 DEF Copies
      <3> QED BY <3>1, <3>2, ReadOrder
    <2> QED BY <2>1, <2>2, <2>3, OpenOrder, CloseOrder, HaltOrder, DirectoryNextOrder
  <1> QED BY <1>1, <1>2

\* When every listing is read to its end by one descriptor before the next
\* begins, directory_read gives it the entries before directoryLoc, each once
\* and in order, and every listing begins with the first entry, whatever the
\* processes do with their other descriptors meanwhile.
THEOREM ListingInOrderHolds == ASSUME Listings = {} PROVE Spec => []ListingInOrder
  <1>1. Init => OrderInv
    <2> SUFFICES ASSUME Init PROVE OrderInv
      OBVIOUS
    <2>1. \A p \in Procs, fd \in Fds : seen[p][fd] = <<>>
      BY DEF Init
    <2>2. lister = Nobody /\ directoryLoc = 0
      BY DEF Init
    <2>3. \A p \in Procs, fd \in Fds : OrderOK(p, fd)
      BY <2>1, <2>2, NobodyLists DEF OrderOK
    <2> QED BY <2>2, <2>3 DEF OrderInv
  <1>2. FileInv /\ DirInv /\ OrderInv /\ [Next]_vars => OrderInv'
    BY OrderInvStep
  <1>3. Spec => [](FileInv /\ DirInv)
    BY DirInvariance
  <1>4. OrderInv => ListingInOrder
    BY DEF OrderInv, OrderOK, ListingInOrder, Listed
  <1> QED BY <1>1, <1>2, <1>3, <1>4, PTL DEF Spec
=============================================================================
