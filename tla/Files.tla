------------------------------- MODULE Files --------------------------------
(***************************************************************************)
(* A thread's files: the descriptor table (FileDescriptorManager.cpp), the *)
(* descriptors (FileDescriptor.cpp), the streams behind them               *)
(* (FileStream.cpp, DirectoryStream.cpp) and the calls of Thread.cpp that  *)
(* use them, over the files of one directory, the root.                    *)
(*                                                                         *)
(* Each thread has its own table; threads meet at the inodes, which every  *)
(* call locks.  The head an inode carries is set from the stream's by every*)
(* call and is not kept here.  Descriptors and streams have spinlocks of   *)
(* their own: a call that finds one taken never returns.  Assertions are   *)
(* off, as in the Release build.                                           *)
(***************************************************************************)
EXTENDS Privilege, Integers, Sequences, FiniteSets, FiniteSetsExt, SequencesExt

CONSTANTS
    BlockSize, SeekAlign,
    Threads, Cred,      \* Cred[t]: the effective [uid, gid] of its process
    Names, Modes,       \* names of files, and modes to open them with
    Acls,               \* the permissions that calls give to a file
    Counts, Offsets,    \* arguments of read, write and seek
    MaxOffset, MaxOpen, \* bounds: how far a head goes, a thread's open files
    Kept,               \* bound: standard descriptors that a thread never closes
    Word                \* bits in a byte, and bytes the bitmap grows by: 8

VARIABLES
    files,  \* name -> [size, data, owner, group, acl], for those that exist
    dir,    \* names in the order of creation
    tables, \* thread -> its descriptor table
    hung    \* threads that spin on a lock that nobody will release

vars == <<files, dir, tables, hung>>

-----------------------------------------------------------------------------
(***************************************************************************)
(* The stream operations on one file of a TempFS (TempFSInode.cpp), as     *)
(* operators on a file's value: its size, its blocks (only their sizes) and*)
(* the head that the inode carries.  A transfer lists the pieces it copies *)
(* between the caller's buffer and the blocks; what the bytes are is left  *)
(* out.  The block size and the alignment of seeks are 4096 and 8 in the   *)
(* code.                                                                   *)
(***************************************************************************)
AlignUp(n, a) == ((n + a - 1) \div a) * a

\* {0, false, nullptr, 0, 0}
NoHead == [offset |-> 0, isOpen |-> FALSE, index |-> 0, at |-> 0]

NewFile == [size |-> 0, data |-> <<>>, head |-> NoHead]

\* One more block for what the new size adds.  The subtraction is unsigned:
\* for a size that is not larger the rounded result is no page, or more than
\* there are, and the page manager refuses both.
Expand(f, new_size) ==
    IF new_size <= f.size THEN [file |-> f, status |-> "ENOMEM"]
    ELSE [file |-> [f EXCEPT !.size = new_size,
                             !.data = Append(@, AlignUp(new_size - f.size, BlockSize))],
          status |-> "ok"]

CloseFile(f) == [f EXCEPT !.head.isOpen = FALSE]

Rewind(f) ==
    IF ~f.head.isOpen THEN [file |-> f, status |-> "EBADF"]
    ELSE [file |-> [f EXCEPT !.head = [NoHead EXCEPT !.isOpen = TRUE]], status |-> "ok"]

\* A file that is open already keeps its head; otherwise it is rewound.
OpenFile(f) == IF f.head.isOpen THEN f ELSE Rewind([f EXCEPT !.head.isOpen = TRUE]).file

\* The result of a transfer: bytes counted, status and the pieces copied.
Moved(f, bytes, status, copies) ==
    [file |-> f, bytes |-> bytes, status |-> status, copies |-> copies]

\* The loop of ReadStream and WriteStream: done bytes of count are dealt with.
\* A block that is used up to its end counts one byte less than it holds.
RECURSIVE Transfer(_, _, _, _, _, _)
Transfer(writing, f, count, done, bytes, copies) ==
    LET h == f.head
        missing == h.index >= Len(f.data)
        size == f.data[h.index + 1]
        piece(n) == Append(copies, [block |-> h.index, at |-> h.at, from |-> done, n |-> n])
        after == [f EXCEPT !.head.offset = @ + count]
        \* at may lie past the end of a block: the difference is unsigned
        inside == h.at > size \/ size - h.at + done > count
        more == Expand(f, count)
    IN  IF done >= count THEN Moved(after, bytes, "ok", copies)
        ELSE IF ~writing /\ h.offset + bytes >= f.size THEN Moved(f, bytes, "EINVAL", copies)
        ELSE IF missing /\ (~writing \/ more.status # "ok")
        THEN Moved([f EXCEPT !.head.offset = @ + done], bytes,
                   IF writing THEN more.status ELSE "ENOSYS", copies)
        ELSE IF missing /\ h.index >= Len(more.file.data)
        THEN Moved(more.file, bytes, "ENOSYS", copies)
        ELSE IF missing THEN Transfer(writing, more.file, count, done, bytes, copies)
        ELSE IF inside
        THEN Moved([after EXCEPT !.head.at = @ + (count - done)],
                   bytes + count - done, "ok", piece(count - done))
        ELSE Transfer(writing, [f EXCEPT !.head.index = @ + 1, !.head.at = 0], count,
                      done + size - h.at, bytes + size - (h.at + 1), piece(size - (h.at + 1)))

ReadStream(f, count) ==
    IF ~f.head.isOpen THEN Moved(f, 0, "EBADF", <<>>)
    ELSE IF count = 0 THEN Moved(f, 0, "EINVAL", <<>>)
    ELSE Transfer(FALSE, f, count, 0, 0, <<>>)

WriteStream(f, count) ==
    IF ~f.head.isOpen THEN Moved(f, 0, "EBADF", <<>>)
    ELSE IF count = 0 THEN Moved(f, 0, "EINVAL", <<>>)
    ELSE Transfer(TRUE, f, count, 0, 0, <<>>)


\* The search for the block begins at the head's block, with offset 0.
RECURSIVE FindBlock(_, _, _)
FindBlock(f, passed, offset) ==
    LET i == f.head.index
    IN  IF i >= Len(f.data) THEN [f EXCEPT !.head.offset = passed]
        ELSE IF f.data[i + 1] + passed > offset
        THEN [f EXCEPT !.head.offset = offset, !.head.at = offset - passed]
        ELSE FindBlock([f EXCEPT !.head.index = @ + 1], passed + f.data[i + 1], offset)

Seek(f, offset) ==
    IF ~f.head.isOpen THEN [file |-> f, status |-> "EBADF"]
    ELSE IF offset >= f.size THEN [file |-> f, status |-> "EINVAL"]
    ELSE [file |-> FindBlock(f, 0, AlignUp(offset, SeekAlign)), status |-> "ok"]

\* Every piece of a transfer lies in its block.
CopiesInside(f, copies) ==
    \A i \in DOMAIN copies :
        /\ copies[i].n >= 0
        /\ copies[i].at + copies[i].n <= f.data[copies[i].block + 1]

\* The bytes that the pieces are made of.
Copied(copies) == FoldLeft(LAMBDA n, piece : n + piece.n, 0, copies)

-----------------------------------------------------------------------------
(* Descriptors and streams *)

NoStream == [name |-> "", head |-> NoHead, modes |-> {}, open |-> FALSE, locked |-> FALSE, index |-> 0]

\* A descriptor that is not yet open; only a terminal and the debug port are.
Descriptor(id, type, mode, stream) ==
    [id |-> id, type |-> type, mode |-> mode, stream |-> stream,
     open |-> type \in {"tty", "debug"}, locked |-> FALSE]

EmptyTable == [bytes |-> 0, bits |-> {}, list |-> <<>>]

ExpandBitmap(tab, bytes) == [tab EXCEPT !.bytes = Max({@, bytes})]

\* Add a descriptor and set its bit, if the bitmap has one for it.
Enlist(tab, d) ==
    [tab EXCEPT !.list = Append(@, d),
                !.bits = IF d.id < tab.bytes * Word THEN @ \cup {d.id} ELSE @]

ReserveFileDescriptor(tab, d) ==
    IF d.id \in tab.bits THEN tab
    ELSE Enlist(ExpandBitmap(tab, AlignUp(d.id + 1, Word)), d)

FreeIDs(tab) == (0..(tab.bytes * Word - 1)) \ tab.bits

\* The lowest free ID; when there is none the bitmap grows, and the ID is
\* its old size in bytes.
NewID(tab) == IF FreeIDs(tab) = {} THEN tab.bytes ELSE Min(FreeIDs(tab))

AllocateFileDescriptor(tab, id, d) ==
    Enlist(IF FreeIDs(tab) = {} THEN ExpandBitmap(tab, AlignUp(tab.bytes + 1, Word)) ELSE tab,
           [d EXCEPT !.id = id])

\* Where the first descriptor with this ID is, or 0.
GetFileDescriptor(tab, id) ==
    IF id >= tab.bytes * Word THEN 0 ELSE SelectInSeq(tab.list, LAMBDA d : d.id = id)

FreeFileDescriptor(tab, id) ==
    [tab EXCEPT !.list = RemoveAt(@, GetFileDescriptor(tab, id)), !.bits = @ \ {id}]

\* Thread::Start: standard input, output and error, and the debug port.
StartTable ==
    FoldLeft(ReserveFileDescriptor, EmptyTable,
             <<Descriptor(0, "tty", "READ", NoStream), Descriptor(1, "tty", "WRITE", NoStream),
               Descriptor(2, "tty", "WRITE", NoStream), Descriptor(3, "debug", "APPEND", NoStream)>>)

Init ==
    /\ files = <<>> /\ dir = <<>>
    /\ tables = [t \in Threads |-> StartTable]
    /\ hung = {}

-----------------------------------------------------------------------------
\* The file behind a stream, with the stream's head in the inode.
WithHead(fs, s) == [size |-> fs[s.name].size, data |-> fs[s.name].data, head |-> s.head]

\* What a call on a stream, or a descriptor, leaves: "hang" if it spins.
Result(fs, object, status) == [files |-> fs, object |-> object, status |-> status]

\* The file and the stream after f, a file with the stream's new head.
Stored(fs, s, f, status) ==
    Result([fs EXCEPT ![s.name].size = f.size, ![s.name].data = f.data],
           [s EXCEPT !.head = f.head], status)

\* FileStream::Open, from a cleared head.
StreamOpen(fs, s) ==
    IF s.open THEN s
    ELSE [s EXCEPT !.open = TRUE, !.head = OpenFile([fs[s.name] EXCEPT !.head = NoHead]).head]

StreamClose(fs, s) ==
    IF s.locked THEN Result(fs, s, "hang")
    ELSE IF ~s.open THEN Result(fs, s, "ok")
    ELSE Stored(fs, [s EXCEPT !.open = FALSE], CloseFile(WithHead(fs, s)), "ok")

StreamRead(fs, s, cred, count) ==
    LET r == ReadStream(WithHead(fs, s), count)
    IN  IF s.locked THEN Result(fs, s, "hang")
        ELSE IF "r" \notin s.modes \/ ~Granted(cred, fs[s.name], "r") THEN Result(fs, s, "EACCES")
        ELSE Stored(fs, s, r.file, r.status)

StreamWrite(fs, s, cred, count) ==
    LET r == WriteStream(WithHead(fs, s), count)
    IN  IF s.locked THEN Result(fs, s, "hang")
        ELSE IF "w" \notin s.modes \/ ~Granted(cred, fs[s.name], "w") THEN Result(fs, s, "EACCES")
        ELSE Stored(fs, s, r.file, r.status)

StreamSeek(fs, s, offset) ==
    LET r == Seek(WithHead(fs, s), offset)
    IN  IF offset < 0 THEN Result(fs, s, "EINVAL")
        ELSE IF s.locked THEN Result(fs, s, "hang")
        ELSE Stored(fs, s, r.file, r.status)

\* FileStream::GetFileSystem returns with the stream's lock taken.
GetFileSystem(fs, s) ==
    IF s.locked THEN Result(fs, s, "hang") ELSE Result(fs, [s EXCEPT !.locked = TRUE], "ok")

\* DirectoryStream::Open on the root, and the next of its entries.
DirectoryOpen(cred, s) == [s EXCEPT !.open = Listable(cred, RootDirectory)]

GetNextInode(fs, s) ==
    IF s.index >= Len(dir) THEN Result(fs, s, "EINVAL")
    ELSE Result(fs, [s EXCEPT !.index = @ + 1], "ok")

-----------------------------------------------------------------------------
\* d after a call on its stream.
OfStream(d, r) == Result(r.files, [d EXCEPT !.stream = r.object], r.status)

\* FileDescriptor::Open: an appending one seeks to the last byte; for an
\* empty file that is offset -1, and the descriptor stays closed.
DescriptorOpen(fs, d) ==
    LET opened == [d EXCEPT !.stream = StreamOpen(fs, @)]
        r == StreamSeek(fs, opened.stream, fs[d.stream.name].size - 1)
    IN  IF d.mode # "APPEND" THEN [opened EXCEPT !.open = TRUE]
        ELSE IF r.status # "ok" THEN opened
        ELSE [opened EXCEPT !.open = TRUE, !.stream = r.object]

DescriptorClose(fs, d) ==
    IF d.locked THEN Result(fs, d, "hang")
    ELSE IF d.type # "file" THEN Result(fs, [d EXCEPT !.open = FALSE], "ok")
    ELSE OfStream([d EXCEPT !.open = FALSE], StreamClose(fs, d.stream))

\* A read of a file returns with the descriptor's lock taken.
DescriptorRead(fs, d, cred, count) ==
    IF d.locked THEN Result(fs, d, "hang")
    ELSE IF d.mode \notin {"READ", "READ_WRITE"} THEN Result(fs, d, "EBADF")
    ELSE CASE d.type = "file" ->
                OfStream([d EXCEPT !.locked = TRUE], StreamRead(fs, d.stream, cred, count))
           [] d.type = "dir" -> OfStream(d, GetNextInode(fs, d.stream))
           [] OTHER -> Result(fs, d, "ok")

DescriptorWrite(fs, d, cred, count) ==
    IF d.locked THEN Result(fs, d, "hang")
    ELSE IF d.mode = "READ" THEN Result(fs, d, "EBADF")
    ELSE IF d.type = "file" THEN OfStream(d, StreamWrite(fs, d.stream, cred, count))
    ELSE Result(fs, d, "ok")

DescriptorSeek(fs, d, offset) ==
    IF offset < 0 THEN Result(fs, d, "EINVAL")
    ELSE IF d.locked THEN Result(fs, d, "hang")
    ELSE IF d.mode = "APPEND" THEN Result(fs, d, "EBADF")
    ELSE OfStream(d, StreamSeek(fs, d.stream, offset))

-----------------------------------------------------------------------------
\* The bound on a thread's open files and directories.
Room(t) == Cardinality({i \in DOMAIN tables[t].list : tables[t].list[i].type \in {"file", "dir"}}) < MaxOpen

\* t makes a call on its descriptor number i, with result r.
Call(t, i, r) ==
    /\ t \notin hung
    /\ r.object.stream.head.offset <= MaxOffset
    /\ files' = r.files
    /\ tables' = [tables EXCEPT ![t].list[i] = r.object]
    /\ hung' = IF r.status = "hang" THEN hung \cup {t} ELSE hung
    /\ UNCHANGED dir

\* A file of size 0 with the caller as owner.
CreateFile(fs, t, name, acl) ==
    [n \in DOMAIN fs \cup {name} |->
        IF n = name
        THEN NewFile @@ [owner |-> Cred[t].uid, group |-> Cred[t].gid, acl |-> acl]
        ELSE fs[n]]

StreamModes(mode) ==
    CASE mode = "READ" -> {"r"} [] mode \in {"APPEND", "WRITE"} -> {"w"}
      [] mode = "READ_WRITE" -> {"r", "w"}

sys_open(t, name, mode, create, acl) ==
    LET new == name \notin DOMAIN files
        fs == IF new THEN CreateFile(files, t, name, acl) ELSE files
        id == NewID(tables[t])
        s == StreamOpen(fs, [NoStream EXCEPT !.name = name, !.modes = StreamModes(mode)])
    IN  /\ t \notin hung /\ Room(t)
        /\ new => create /\ Granted(Cred[t], RootDirectory, "w")
        /\ files' = fs
        /\ dir' = IF new THEN Append(dir, name) ELSE dir
        /\ tables' = [tables EXCEPT ![t] = AllocateFileDescriptor(@, id,
                        DescriptorOpen(fs, Descriptor(id, "file", mode, s)))]
        /\ UNCHANGED hung

\* The root has no inode: a directory stream on the file system itself.
sys_open_root(t) ==
    LET id == NewID(tables[t])
        s == DirectoryOpen(Cred[t], [NoStream EXCEPT !.name = "/", !.modes = {"r"}])
    IN  /\ t \notin hung /\ Room(t) /\ s.open
        /\ tables' = [tables EXCEPT ![t] = AllocateFileDescriptor(@, id,
                        [Descriptor(id, "dir", "READ", s) EXCEPT !.open = TRUE])]
        /\ UNCHANGED <<files, dir, hung>>

sys_read(t, i, count) == Call(t, i, DescriptorRead(files, tables[t].list[i], Cred[t], count))

sys_write(t, i, count) == Call(t, i, DescriptorWrite(files, tables[t].list[i], Cred[t], count))

\* Offsets count from the start, the head, or the last byte; for the last
\* the stream is asked for its file system, and the seek itself then hangs.
sys_seek(t, i, offset, whence) ==
    LET d == tables[t].list[i]
        asked == OfStream(d, GetFileSystem(files, d.stream))
    IN  /\ d.type = "file"
        /\ CASE whence = "SET" -> Call(t, i, DescriptorSeek(files, d, offset))
             [] whence = "CUR" /\ d.stream.locked -> Call(t, i, Result(files, d, "hang"))
             [] whence = "CUR" -> Call(t, i, DescriptorSeek(files, d, d.stream.head.offset + offset))
             [] whence = "END" /\ asked.status = "hang" -> Call(t, i, asked)
             [] whence = "END" ->
                Call(t, i, DescriptorSeek(files, asked.object, files[d.stream.name].size - 1 + offset))

sys_fstat(t, i) ==
    LET d == tables[t].list[i]
    IN  d.type = "file" /\ Call(t, i, OfStream(d, GetFileSystem(files, d.stream)))

\* Close the descriptor, delete its stream, free the ID.
sys_close(t, i) ==
    LET d == tables[t].list[i]
        r == DescriptorClose(files, d)
    IN  /\ t \notin hung /\ d.id \notin Kept[t]
        /\ IF r.status = "hang"
           THEN hung' = hung \cup {t} /\ UNCHANGED tables
           ELSE tables' = [tables EXCEPT ![t] = FreeFileDescriptor(@, d.id)] /\ UNCHANGED hung
        /\ UNCHANGED <<files, dir>>

\* count entries from the stream's index on, if there are as many.
sys_getdirents(t, i, count) ==
    LET d == tables[t].list[i]
        next(r, n) == DescriptorRead(r.files, r.object, Cred[t], 1)
    IN  /\ d.type = "dir" /\ count + d.stream.index <= Len(dir)
        /\ Call(t, i, FoldLeft(next, Result(files, d, "ok"), [n \in 1..count |-> n]))

chown(t, name, uid, gid) ==
    /\ t \notin hung /\ Cred[t].uid = 0
    /\ files' = [files EXCEPT ![name].owner = uid, ![name].group = gid]
    /\ UNCHANGED <<dir, tables, hung>>

sys_chown(t, name, uid, gid) == name \in DOMAIN files /\ chown(t, name, uid, gid)

sys_fchown(t, i, uid, gid) ==
    tables[t].list[i].type = "file" /\ chown(t, tables[t].list[i].stream.name, uid, gid)

chmod(t, name, acl) ==
    /\ t \notin hung
    /\ Cred[t].uid \in {files[name].owner, 0} /\ Cred[t].gid \in {files[name].group, 0}
    /\ files' = [files EXCEPT ![name].acl = acl]
    /\ UNCHANGED <<dir, tables, hung>>

sys_chmod(t, name, acl) == name \in DOMAIN files /\ chmod(t, name, acl)

sys_fchmod(t, i, acl) ==
    tables[t].list[i].type = "file" /\ chmod(t, tables[t].list[i].stream.name, acl)

Next ==
    \E t \in Threads :
        \/ \E name \in Names, mode \in Modes, create \in BOOLEAN, acl \in Acls :
            sys_open(t, name, mode, create, acl)
        \/ sys_open_root(t)
        \/ \E i \in DOMAIN tables[t].list :
            \/ \E n \in Counts : sys_read(t, i, n) \/ sys_write(t, i, n) \/ sys_getdirents(t, i, n)
            \/ \E o \in Offsets, w \in {"SET", "CUR", "END"} : sys_seek(t, i, o, w)
            \/ sys_fstat(t, i) \/ sys_close(t, i)
            \/ \E u \in Threads : sys_fchown(t, i, Cred[u].uid, Cred[u].gid)
            \/ \E acl \in Acls : sys_fchmod(t, i, acl)
        \/ \E name \in Names :
            \/ \E u \in Threads : sys_chown(t, name, Cred[u].uid, Cred[u].gid)
            \/ \E acl \in Acls : sys_chmod(t, name, acl)

Spec == Init /\ [][Next]_vars

-----------------------------------------------------------------------------
Open(t) == {i \in DOMAIN tables[t].list : tables[t].list[i].type = "file"}

\* Type correctness.
TypeOK ==
    /\ DOMAIN files \subseteq Names /\ ToSet(dir) = DOMAIN files
    /\ \A n \in DOMAIN files : files[n].size \in 0..MaxOffset
    /\ \A t \in Threads : tables[t].bits \subseteq 0..(tables[t].bytes * Word - 1)
    /\ hung \subseteq Threads

\* The descriptors in a thread's list have different IDs, each marked in the
\* bitmap, and the bitmap marks no others, through any order of opens and
\* closes below the bitmap's first size.
DescriptorsMarked ==
    \A t \in Threads :
        /\ tables[t].bits = {tables[t].list[i].id : i \in DOMAIN tables[t].list}
        /\ IsInjective([i \in DOMAIN tables[t].list |-> tables[t].list[i].id])

\* Whatever a stream does next, it copies only to and from inside the file's
\* blocks: seeks, writes through other streams and blocks of unequal sizes
\* never leave a head past the end of its block.  What it reports is what it
\* copied.
TransfersInside ==
    \A t \in Threads : \A i \in Open(t), n \in Counts :
        LET f == WithHead(files, tables[t].list[i].stream)
            sound(r) == CopiesInside(r.file, r.copies) /\ r.bytes = Copied(r.copies)
        IN  sound(ReadStream(f, n)) /\ sound(WriteStream(f, n))

\* The blocks hold at least the bytes of the file, so that a reader who goes
\* on from the start meets the end of the file and not a missing block.
BlocksCoverSize ==
    \A n \in DOMAIN files : FoldLeft(+, 0, files[n].data) >= files[n].size

\* Execute opens a file and reads all of it into a buffer of its size; its
\* assertion, which is said never to fail, is that as many bytes were read as
\* the file has (exec.cpp:119).
WholeRead ==
    \A n \in DOMAIN files :
        LET f == OpenFile([files[n] EXCEPT !.head = NoHead])
        IN  f.size > 0 => ReadStream(f, f.size).bytes = f.size

\* A file that one block holds with room to spare is read whole.
SmallReadWhole ==
    \A n \in DOMAIN files :
        LET f == OpenFile([files[n] EXCEPT !.head = NoHead])
        IN  f.size > 0 /\ Len(f.data) = 1 /\ f.size < f.data[1] =>
                ReadStream(f, f.size).bytes = f.size
=============================================================================
