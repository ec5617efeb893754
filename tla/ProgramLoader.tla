---------------------------- MODULE ProgramLoader ----------------------------
(***************************************************************************)
(* sys_exec (SystemCalls/exec.cpp) and the loading of an ELF executable    *)
(* (ProgramLoader/ELF.cpp): the file is checked and read, an address space *)
(* is made and entered, each segment is given pages and filled, the        *)
(* arguments are copied, and the new process is started.                   *)
(*                                                                         *)
(* Memory is in words of eight bytes, PAGE_SIZE of them to a page; p_align *)
(* is a number of words too.  A program is a sequence of loadable segments *)
(* with flags.  The new address space begins empty, and what a fresh frame *)
(* holds is "stale".                                                       *)
(***************************************************************************)
EXTENDS Integers, Sequences, FiniteSets, FiniteSetsExt, SequencesExt

CONSTANTS
    PAGE_SIZE,      \* words in a page
    Programs,       \* what may be in the file
    Arguments,      \* what argv may be: sequences of string lengths
    Pages           \* page numbers of the new address space

VARIABLES
    file,           \* the segments of the program in the file
    header,         \* "good", "invalid", or "none" in an empty file
    mayExecute,     \* the file's ACL has the execute bit for the caller
    argv,
    pc, i,          \* where the call is and the segment it is at
    cr3,            \* the address space in use
    interrupts,
    objects,        \* first page -> [count, perms] in the new page manager
    mem,            \* address -> what the word holds, for mapped pages
    written,        \* bytes of the block of arguments that were written
    held,           \* the objects that the call made and did not free
    result

vars == <<file, header, mayExecute, argv, pc, i, cr3, interrupts, objects, mem,
          written, held, result>>

Init ==
    /\ file = <<>> /\ header = "none" /\ mayExecute = FALSE /\ argv = <<>>
    /\ pc = "exec" /\ i = 1 /\ cr3 = "caller" /\ interrupts = TRUE
    /\ objects = <<>> /\ mem = <<>> /\ written = 0 /\ held = {} /\ result = "none"

\* What is true of the call while it lasts.
Given == UNCHANGED <<file, header, mayExecute, argv>>
space == <<objects, mem, written>>

Segment == file[i]

-----------------------------------------------------------------------------
\* sys_exec copies argv and envv to the kernel.
sys_exec(program, kind, may, args) ==
    /\ pc' = "open"
    /\ file' = program /\ header' = kind /\ mayExecute' = may /\ argv' = args
    /\ held' = {"argv"}
    /\ UNCHANGED <<i, cr3, interrupts, space, result>>

\* What an early return of Execute leaves: the copies go, the stream does not.
Kept(what) == held \cup {what}

\* The caller gets the answer, and its copies of the arguments are deleted.
Answer(answer, kept) ==
    /\ pc' = "returned" /\ result' = answer
    /\ held' = kept \ {"argv"}

\* Execute opens a stream, asks for the execute permission and the size.
Open ==
    /\ pc = "open"
    /\ \/ ~mayExecute /\ Answer("EACCES", Kept("stream"))
       \/ mayExecute /\ header = "none" /\ Answer("ENOEXEC", Kept("stream"))
       \/ /\ mayExecute /\ header # "none"
          /\ pc' = "load" /\ held' = held \cup {"buffer", "exe"} /\ UNCHANGED result
    /\ Given /\ UNCHANGED <<i, cr3, interrupts, space>>

\* delete exe, with its managers, and delete[] buffer.
AfterFailure == held \ {"exe", "VPM", "PM", "buffer"}

\* Load checks the headers, and makes and enters the address space.
Load ==
    /\ pc = "load"
    /\ \/ header = "invalid" /\ Answer("ENOEXEC", AfterFailure) /\ UNCHANGED cr3
       \/ /\ header = "good"
          /\ held' = held \cup {"VPM", "PM"} /\ cr3' = "child"
          /\ pc' = "segment" /\ UNCHANGED result
    /\ Given /\ UNCHANGED <<i, interrupts, space>>

-----------------------------------------------------------------------------
Down(n, align) == (n \div align) * align
Up(n, align) == Down(n + align - 1, align)

\* mem_size, page_count and page_start of a segment.
MemSize(s) == Up(s.memsz, s.align)

\* Fault: the size of a page is not rounded up.
PageCountDown(s) == Max({1, MemSize(s) \div PAGE_SIZE})

PageCount(s) == Up(MemSize(s), PAGE_SIZE) \div PAGE_SIZE
PageStart(s) == Down(s.vaddr, Max({PAGE_SIZE, s.align})) \div PAGE_SIZE

\* The permissions; one that is written and executed is not supported and a
\* segment without any can be read.
Perms(flags) ==
    IF "X" \in flags THEN flags \ {"W"}
    ELSE IF "W" \in flags THEN flags
    ELSE {"R"}

FileWords(s) == s.vaddr..(s.vaddr + s.filesz - 1)
Block(first, count) == first..(first + count - 1)
Words(pages) == UNION {(p * PAGE_SIZE)..(p * PAGE_SIZE + PAGE_SIZE - 1) : p \in pages}
Used == UNION {Block(o, objects[o].count) : o \in DOMAIN objects}

\* AllocatePage refuses a page that begins an object, AllocatePages one whose
\* pages all lie in an object.
Refused(first, count) ==
    IF count = 1 THEN first \in DOMAIN objects
    ELSE \E o \in DOMAIN objects : Block(first, count) \subseteq Block(o, objects[o].count)

\* The region's manager has no such block; the page manager, which was made
\* to expand, then waits for its own lock.
Taken(first, count) ==
    Block(first, count) \cap Used # {} \/ ~(Block(first, count) \subseteq Pages)

\* fast_memset from page_start, then fast_memcpy to start.
Filled(s, pages) ==
    [w \in DOMAIN mem \cup Words(pages) |->
        IF w \in FileWords(s) THEN "file"
        ELSE IF w \in (PageStart(s) * PAGE_SIZE)..(PageStart(s) * PAGE_SIZE + MemSize(s) - 1)
             THEN "zero"
        ELSE IF w \in DOMAIN mem THEN mem[w] ELSE "stale"]

\* The segment's pages, filled and given the permissions of its flags.
FillSegment(pages) ==
    /\ objects' = [o \in DOMAIN objects \cup {PageStart(Segment)} |->
                    IF o = PageStart(Segment)
                    THEN [count |-> PageCount(Segment), perms |-> Perms(Segment.flags)]
                    ELSE objects[o]]
    /\ mem' = Filled(Segment, pages)

\* One turn of Load's second loop.  What the file holds beyond the pages that
\* were given is copied to where nothing is mapped, and the kernel faults.
LoadSegment ==
    LET first == PageStart(Segment)
        count == PageCount(Segment)
        pages == Block(first, count)
    IN  /\ pc = "segment" /\ i <= Len(file)
        /\ \/ /\ Refused(first, count)
              /\ Answer("ENOMEM", AfterFailure)
              /\ UNCHANGED <<i, interrupts, space>>
           \/ /\ ~Refused(first, count) /\ Taken(first, count)
              /\ pc' = "stuck" /\ interrupts' = FALSE
              /\ UNCHANGED <<i, space, held, result>>
           \/ /\ ~Refused(first, count) /\ ~Taken(first, count)
              /\ FillSegment(pages)
              /\ IF FileWords(Segment) \subseteq DOMAIN mem'
                 THEN i' = i + 1 /\ UNCHANGED <<pc, interrupts>>
                 ELSE pc' = "fault" /\ interrupts' = FALSE /\ UNCHANGED i
              /\ UNCHANGED <<written, held, result>>
        /\ Given /\ UNCHANGED cr3

-----------------------------------------------------------------------------
PAGE_BYTES == PAGE_SIZE * 8
Strings == FoldSeq(LAMBDA length, sum : length + sum, 0, argv)

\* total_size: the record, argv and envv with their ends, and the strings.
\* The caller's environment is empty here.
TotalSize == 8 * (4 + Len(argv) + 2) + (Strings + Len(argv)) + 2

Room == Up(TotalSize, PAGE_BYTES)

\* current_offset at the end: the loop over the arguments steps over one byte
\* more for each of them.
Copied == 8 * (4 + Len(argv) + 2) + (Strings + 2 * Len(argv)) + 2

\* x86_64_LoadCR3(old_CR3)
AtReturn == "caller"

\* The block is written at the page manager's choice of address; past its end
\* there may be another block or nothing.  Then the caller's address space is
\* taken up again.
CopyArguments ==
    /\ pc = "segment" /\ i > Len(file)
    /\ written' = Copied
    /\ \/ pc' = "execute" /\ cr3' = AtReturn
       \/ Copied > Room /\ pc' = "fault" /\ UNCHANGED cr3
    /\ Given /\ UNCHANGED <<i, interrupts, objects, mem, held, result>>

\* A process with a copy of the working directory is made and started.
Execute ==
    /\ pc = "execute"
    /\ Answer("pid", held \cup {"process", "wd"})
    /\ Given /\ UNCHANGED <<i, cr3, interrupts, space>>

\* do_exit deletes the process and its directory, and End_Handler the rest.
Ended == {"process", "wd", "VPM", "PM", "exe"}

End_Handler ==
    /\ pc = "returned" /\ result = "pid"
    /\ pc' = "ended" /\ held' = held \ Ended
    /\ objects' = <<>> /\ mem' = <<>>
    /\ Given /\ UNCHANGED <<i, cr3, interrupts, written, result>>

Next ==
    \/ /\ pc = "exec"
       /\ \E program \in Programs, kind \in {"good", "invalid", "none"}, may \in BOOLEAN,
             args \in Arguments : sys_exec(program, kind, may, args)
    \/ Open \/ Load \/ LoadSegment \/ CopyArguments \/ Execute \/ End_Handler

Spec == Init /\ [][Next]_vars

-----------------------------------------------------------------------------
\* Type correctness.
TypeOK ==
    /\ pc \in {"exec", "open", "load", "segment", "execute", "returned", "ended", "stuck", "fault"}
    /\ \A o \in DOMAIN objects :
        /\ o \in Pages /\ objects[o].count > 0
        /\ objects[o].perms \in (SUBSET {"R", "W", "X"}) \ {{}}
    /\ DOMAIN mem = Words(Used)
    /\ \A w \in DOMAIN mem : mem[w] \in {"file", "zero", "stale"}
    /\ cr3 \in {"caller", "child"} /\ interrupts \in BOOLEAN

Loaded == pc \in {"execute", "returned"} /\ (pc = "returned" => result = "pid")
Offset(s) == s.vaddr - PageStart(s) * PAGE_SIZE

\* When the process starts, each segment is where the file says, followed by
\* zeros up to its size in memory.  Load rounds up the size and not the end,
\* so of a segment that begins inside a page as many words at the end may be
\* missing as lie between the page's start and the segment's.
SegmentsInPlace ==
    Loaded =>
        \A k \in DOMAIN file : LET s == file[k] IN
            \A w \in s.vaddr..(s.vaddr + s.memsz - 1 - Offset(s)) :
                /\ w \in DOMAIN mem
                /\ mem[w] = IF w < s.vaddr + s.filesz THEN "file" ELSE "zero"

\* No page of a loaded program may be both written and executed, whatever the
\* flags of its segment, and none has a right that the flags do not give
\* unless they give none.
RightsFromFlags ==
    Loaded =>
        \A k \in DOMAIN file : LET o == objects[PageStart(file[k])] IN
            /\ ~({"W", "X"} \subseteq o.perms)
            /\ o.perms \subseteq file[k].flags \/ o.perms = {"R"}

\* The arguments run over their block only when its last page has fewer bytes
\* left than there are arguments.
ArgumentsInside == written > Room => Room - TotalSize < Len(argv)

\* A call that fails leaves nothing but the stream of a file that it did not
\* read, and a program that ran nothing but the buffer its file was read to.
LeftBehind ==
    /\ pc = "returned" /\ result # "pid" =>
        held = IF ~mayExecute \/ header = "none" THEN {"stream"} ELSE {}
    /\ pc = "ended" => held = {"buffer"}

\* The caller goes on in its own address space, except after ENOMEM: Load
\* then returns from inside the address space that Execute deletes.
ReturnsToCaller == pc = "returned" => (cr3 = "caller" <=> result # "ENOMEM")

=============================================================================
