-------------------------------- MODULE Files --------------------------------
(***************************************************************************)
(* The descriptor tables of the PCBs (syscalls.c) over the read-only file   *)
(* system (filesys.c).  A process makes one system call at a time, but the  *)
(* calls run with interrupts enabled: those of different processes          *)
(* interleave at every block that read_data copies and around every use of  *)
(* directoryLoc, which all of them share.  What opening, reading and closing*)
(* the RTC do to the device is the subject of Rtc, terminal_read that of    *)
(* TermInput.                                                               *)
(*                                                                          *)
(* A byte is named by the place it is stored at: data block and offset.     *)
(***************************************************************************)
EXTENDS Integers, Sequences, SequencesExt

CONSTANTS
    Procs,              \* the processes
    NUM_MAX_OPEN_FILES, \* descriptors of a process
    BLOCK_SIZE,         \* bytes in a data block
    WORD,               \* 2^32: offsets and lengths are unsigned words
    Dentries,           \* the directory: [fileName, filetype, inodeNumber]
    file_size,          \* file_size[inode], for the inodes of the image
    block_number,       \* block_number[inode][k], k = 0, 1, ..
    total_data_blocks,  \* data blocks of the image
    NBYTES,             \* the nbytes of the calls of sys_read
    MAX_SEEN,           \* bound: how much is read, or fails, per descriptor
    Listings            \* subset of {"shared", "abandoned"}, see below

(***************************************************************************)
(* Listings: "shared": two descriptors read the directory at a time;        *)
(* "abandoned": a directory is closed before it has been read to its end.   *)
(***************************************************************************)
Fds    == 0 .. NUM_MAX_OPEN_FILES - 1
Inodes == DOMAIN file_size
Names  == {Dentries[e].fileName : e \in DOMAIN Dentries}
Bytes  == Nat \X (0 .. BLOCK_SIZE - 1)

ASSUME FilesAssumption ==
    /\ NUM_MAX_OPEN_FILES \in Nat /\ NUM_MAX_OPEN_FILES > 2
    /\ BLOCK_SIZE \in Nat \ {0}
    /\ WORD \in Nat \ {0}
    /\ total_data_blocks \in Nat
    /\ Dentries \in Seq(Range(Dentries))
    /\ \A e \in DOMAIN Dentries :
          /\ Dentries[e].filetype \in {"rtc", "dir", "file"}
          /\ Dentries[e].inodeNumber \in Nat
    /\ \A n \in Inodes :
          /\ file_size[n] \in Nat /\ file_size[n] < WORD
          /\ \A x \in 0 .. file_size[n] - 1 : block_number[n][x \div BLOCK_SIZE] \in Nat
    \* length + offset does not wrap around
    /\ \A n \in Inodes, b \in NBYTES : b \in Nat /\ b + file_size[n] < WORD
    /\ Listings \subseteq {"shared", "abandoned"}

VARIABLES
    fds,            \* PCB: fds[p][fd]
    directoryLoc,   \* the next entry that directory_read returns
    call,           \* the read that p is in
    seen,           \* history: what reads of fds[p][fd] returned since sys_open
    lister          \* history: the descriptor whose listing has begun

vars == <<fds, directoryLoc, call, seen, lister>>

\* flags FD_OCCUP means free, FD_AVAIL open.
Closed == [flags |-> "FD_OCCUP", ops |-> "error", inode |-> -1, file_position |-> 0]
Idle   == [at |-> "idle"]
Nobody == <<>>

\* The descriptor table that execute gives a process.
NewFds == [fd \in Fds |->
              CASE fd = 0 -> [Closed EXCEPT !.flags = "FD_AVAIL", !.ops = "stdin"]
                [] fd = 1 -> [Closed EXCEPT !.flags = "FD_AVAIL", !.ops = "stdout"]
                [] OTHER  -> Closed]

Init ==
    /\ fds = [p \in Procs |-> NewFds]
    /\ directoryLoc = 0
    /\ call = [p \in Procs |-> Idle]
    /\ seen = [p \in Procs |-> [fd \in Fds |-> <<>>]]
    /\ lister = Nobody

-----------------------------------------------------------------------------
IsOpen(p, fd) == fds[p][fd].flags = "FD_AVAIL"

\* read_dentry_by_name: e is the first entry with that name.
read_dentry_by_name(name, e) ==
    /\ e \in DOMAIN Dentries /\ Dentries[e].fileName = name
    /\ \A d \in 1 .. e - 1 : Dentries[d].fileName # name

\* Mutant: the flag of the descriptor is not tested.
FreeFd_untested(p, fd) == fd = 2

\* The lowest free descriptor.
FreeFd(p, fd) ==
    /\ fd >= 2 /\ ~IsOpen(p, fd)
    /\ \A d \in 2 .. fd - 1 : IsOpen(p, d)

\* Mutant: the position of the descriptor's last file is kept.
OpenedFd_stale(old, entry) ==
    [flags |-> "FD_AVAIL", ops |-> entry.filetype,
     inode |-> IF entry.filetype = "file" THEN entry.inodeNumber ELSE 0,
     file_position |-> old.file_position]

OpenedFd(old, entry) ==
    [flags |-> "FD_AVAIL", ops |-> entry.filetype,
     inode |-> IF entry.filetype = "file" THEN entry.inodeNumber ELSE 0,
     file_position |-> 0]

\* sys_open of a name that exists, with a descriptor to spare; otherwise it
\* returns -1 and changes nothing.
sys_open(p, name) ==
    /\ call[p] = Idle
    /\ \E e \in DOMAIN Dentries, fd \in Fds :
          /\ read_dentry_by_name(name, e)
          /\ FreeFd(p, fd)
          /\ fds' = [fds EXCEPT ![p][fd] = OpenedFd(@, Dentries[e])]
          /\ seen' = [seen EXCEPT ![p][fd] = <<>>]
    /\ UNCHANGED <<directoryLoc, call, lister>>

MayAbandon(p, fd) == lister = <<p, fd>> => "abandoned" \in Listings

\* Whoever owned the listing has gone, and directoryLoc stays where it is.
Forget(p, fdset) ==
    lister' = IF lister \in {<<p, fd>> : fd \in fdset} THEN Nobody ELSE lister

\* sys_close of an open descriptor; only the flag is reset.
sys_close(p, fd) ==
    /\ call[p] = Idle
    /\ fd >= 2 /\ IsOpen(p, fd) /\ MayAbandon(p, fd)
    /\ fds' = [fds EXCEPT ![p][fd].flags = "FD_OCCUP"]
    /\ seen' = [seen EXCEPT ![p][fd] = <<>>]
    /\ Forget(p, {fd})
    /\ UNCHANGED <<directoryLoc, call>>

\* halt, which closes every descriptor, and the next execute that is handed
\* the same process number and so the same PCB.
halt_execute(p) ==
    /\ call[p] = Idle
    /\ \A fd \in Fds : MayAbandon(p, fd)
    /\ fds' = [fds EXCEPT ![p] = NewFds]
    /\ seen' = [seen EXCEPT ![p] = [fd \in Fds |-> <<>>]]
    /\ Forget(p, Fds)
    /\ UNCHANGED <<directoryLoc, call>>

-----------------------------------------------------------------------------
(***************************************************************************)
(* file_read: the position of the descriptor moves by what read_data        *)
(* returns, -1 included.                                                    *)
(***************************************************************************)
Return(p, fd, value, bytes) ==
    /\ fds' = [fds EXCEPT ![p][fd].file_position = @ + value]
    /\ seen' = [seen EXCEPT ![p][fd] = @ \o bytes]
    /\ call' = [call EXCEPT ![p] = Idle]

\* "If more bytes are requested than available, cut the number of bytes".
Cut(inode, offset, length) ==
    IF (length + offset) % WORD > file_size[inode] THEN file_size[inode] - offset
    ELSE length

\* read_data up to its first block.
read_data(p, fd, nbytes) ==
    LET inode  == fds[p][fd].inode
        offset == fds[p][fd].file_position % WORD
    IN
    IF inode \notin Inodes THEN Return(p, fd, -1, <<>>)
    ELSE IF offset >= file_size[inode] THEN Return(p, fd, 0, <<>>)
    ELSE /\ call' = [call EXCEPT ![p] =
                [at |-> "copy", fd |-> fd,
                 block |-> offset \div BLOCK_SIZE, from |-> offset % BLOCK_SIZE,
                 length |-> Cut(inode, offset, nbytes), buf |-> <<>>]]
         /\ UNCHANGED <<fds, seen>>

\* Mutant: the copy goes on where the last block ended.
NextFrom_end(from) == BLOCK_SIZE

NextFrom(from) == 0

\* One memcpy: the rest of the block, or the rest of the request.
copy_block(p) ==
    LET c == call[p]
        b == block_number[fds[p][c.fd].inode][c.block]
        n == IF c.from + c.length <= BLOCK_SIZE THEN c.length ELSE BLOCK_SIZE - c.from
        copied == c.buf \o [j \in 1 .. n |-> <<b, c.from + j - 1>>]
    IN
    /\ c.at = "copy"
    /\ IF b >= total_data_blocks THEN Return(p, c.fd, -1, <<>>)
       ELSE IF n = c.length THEN Return(p, c.fd, Len(copied), copied)
       ELSE /\ call' = [call EXCEPT ![p].block = @ + 1,
                                    ![p].from = NextFrom(@),
                                    ![p].length = @ - n,
                                    ![p].buf = copied]
            /\ UNCHANGED <<fds, seen>>
    /\ UNCHANGED <<directoryLoc, lister>>

-----------------------------------------------------------------------------
MayList(p, fd) == lister \in {Nobody, <<p, fd>>} \/ "shared" \in Listings

\* Mutant: the next listing begins where this one ended.
rewind_not == UNCHANGED directoryLoc

rewind == directoryLoc' = 0

\* directory_read up to its copy of the name: the entry at directoryLoc, or,
\* past the last one, 0 and a new beginning.
directory_read(p, fd) ==
    /\ MayList(p, fd)
    /\ IF directoryLoc < Len(Dentries)
       THEN /\ call' = [call EXCEPT ![p] = [at |-> "list", fd |-> fd,
                            name |-> Dentries[directoryLoc + 1].fileName]]
            /\ lister' = <<p, fd>>
            /\ UNCHANGED <<directoryLoc, seen>>
       ELSE /\ rewind
            /\ seen' = [seen EXCEPT ![p][fd] = <<>>]
            /\ lister' = Nobody
            /\ UNCHANGED call
    /\ UNCHANGED fds

\* Mutant: directoryLoc is left alone.
advance_not == UNCHANGED directoryLoc

advance == directoryLoc' = directoryLoc + 1

\* The rest of directory_read.
directory_next(p) ==
    /\ call[p].at = "list"
    /\ advance
    /\ seen' = [seen EXCEPT ![p][call[p].fd] = Append(@, call[p].name)]
    /\ call' = [call EXCEPT ![p] = Idle]
    /\ UNCHANGED <<fds, lister>>

\* sys_read of an open file or directory; all else is -1 or another module's.
sys_read(p, fd, nbytes) ==
    /\ call[p] = Idle /\ IsOpen(p, fd)
    /\ \/ /\ fds[p][fd].ops = "file"
          /\ Len(seen[p][fd]) <= MAX_SEEN /\ fds[p][fd].file_position > -MAX_SEEN
          /\ read_data(p, fd, nbytes)
          /\ UNCHANGED <<directoryLoc, lister>>
       \/ fds[p][fd].ops = "dir" /\ directory_read(p, fd)

Next ==
    \E p \in Procs :
        \/ \E e \in DOMAIN Dentries : sys_open(p, Dentries[e].fileName)
        \/ \E fd \in Fds : sys_close(p, fd)
        \/ \E fd \in Fds, n \in NBYTES : sys_read(p, fd, n)
        \/ copy_block(p)
        \/ directory_next(p)
        \/ halt_execute(p)

Spec == Init /\ [][Next]_vars

-----------------------------------------------------------------------------
Descriptors == [flags : {"FD_OCCUP", "FD_AVAIL"},
                ops : {"error", "stdin", "stdout", "rtc", "dir", "file"},
                inode : Int, file_position : Int]

Calls(p) == {Idle}
    \cup [at : {"list"}, fd : Fds, name : Names]
    \cup [at : {"copy"}, fd : Fds, block : Nat, from : 0 .. BLOCK_SIZE - 1,
          length : Nat, buf : Seq(Bytes)]

\* The types of the descriptor tables and of the reads in progress; a read in
\* progress is one of an open descriptor of the right kind.
TypeOK ==
    /\ fds \in [Procs -> [Fds -> Descriptors]]
    /\ directoryLoc \in 0 .. Len(Dentries)
    /\ \A p \in Procs :
          /\ call[p] \in Calls(p)
          /\ call[p] # Idle =>
                /\ IsOpen(p, call[p].fd)
                /\ fds[p][call[p].fd].ops = IF call[p].at = "list" THEN "dir" ELSE "file"

FileByte(n, x)  == <<block_number[n][x \div BLOCK_SIZE], x % BLOCK_SIZE>>
FileBlocks(n)   == {block_number[n][x \div BLOCK_SIZE] : x \in 0 .. file_size[n] - 1}
Consistent(n)   == n \in Inodes /\ \A b \in FileBlocks(n) : b < total_data_blocks

\* What the reads of an open file have returned, put together, is the file
\* from its beginning, each byte once and none beyond its end, and the
\* position is where that ends: for every way to cut a file into requests,
\* across blocks, and whatever the descriptor was used for before.
ReadsFollowFile ==
    \A p \in Procs, fd \in Fds :
        LET d == fds[p][fd] IN
        IsOpen(p, fd) /\ d.ops = "file" /\ Consistent(d.inode) =>
            /\ d.file_position = Len(seen[p][fd])
            /\ Len(seen[p][fd]) <= file_size[d.inode]
            /\ \A x \in 1 .. Len(seen[p][fd]) : seen[p][fd][x] = FileByte(d.inode, x - 1)

\* The descriptor that lists the directory has been given the entries before
\* directoryLoc, each once and in order, and every listing begins with the
\* first entry.
ListingInOrder ==
    /\ lister = Nobody => directoryLoc = 0
    /\ \A p \in Procs, fd \in Fds : lister = <<p, fd>> =>
          seen[p][fd] = [e \in 1 .. directoryLoc |-> Dentries[e].fileName]

\* An open descriptor goes on naming the same file until it is closed: no
\* other sys_open of its process is given the same descriptor.
OpenFilesKept ==
    [][\A p \in Procs, fd \in Fds :
           IsOpen(p, fd) /\ IsOpen(p, fd)' =>
               /\ fds'[p][fd].ops = fds[p][fd].ops
               /\ fds'[p][fd].inode = fds[p][fd].inode
               /\ Len(seen'[p][fd]) < Len(seen[p][fd]) => fds[p][fd].ops = "dir"]_vars
=============================================================================
