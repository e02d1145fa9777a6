----------------------------- MODULE AtomicFile -----------------------------
(***************************************************************************)
(* atomic_write_text of atomic_io.py, system call by system call, with     *)
(* crashes and failing writes, and a reader that opens the file and reads  *)
(* it later.  A text has two parts, because a text longer than the buffer  *)
(* of open() reaches the file in several writes; it parses only when both  *)
(* parts are there and from the same text.                                 *)
(*                                                                         *)
(* Every writer is a process of its own: threads of one process call this  *)
(* function under the lock of the module whose file it is.                 *)
(***************************************************************************)
EXTENDS Naturals, FiniteSets

CONSTANTS
    Procs,      \* writing processes
    Texts,      \* texts they write
    Inodes,     \* files on the disk
    Hole,       \* a part that has not been written
    NoFile,     \* a name that is not there, a descriptor that is not open
    MaxCalls,   \* bound: calls of atomic_write_text
    MaxFaults   \* bound: crashes and failing writes

(* The disk has an inode for what can be in use at once: one per writer,    *)
(* one per name and one for the reader.  It does not run out of them.       *)
ASSUME AtomicAssumption ==
    /\ IsFiniteSet(Procs) /\ IsFiniteSet(Inodes)
    /\ Cardinality(Inodes) >= Cardinality(Procs) + 3
    /\ NoFile \notin Inodes
    /\ Hole \notin Texts

VARIABLES
    mounted,  \* path is a single-file bind mount
    dir,      \* dir[name]: the inode of path and of path.tmp
    data,     \* data[i]: the two parts of inode i
    pc, fd, text,  \* of each writer: position, open descriptor, argument
    last,     \* text of the last write that returned
    reader,   \* inode the reader has open
    crossed,  \* two writes have been under way at the same time
    calls, interruptions    \* spent of MaxCalls and MaxFaults

disk == <<dir, data>>
atomicVars == <<mounted, dir, data, pc, fd, text, last, reader, crossed,
                calls, interruptions>>

Names == {"path", "tmp"}
Parts == {1, 2}
Blank == [k \in Parts |-> Hole]

Whole(i) == \E v \in Texts : data[i] = [k \in Parts |-> v]

(* The file exists and is whole. *)
AtomicInit ==
    /\ mounted \in BOOLEAN
    /\ last \in Texts
    /\ LET i == CHOOSE k \in Inodes : TRUE
       IN /\ dir = [n \in Names |-> IF n = "path" THEN i ELSE NoFile]
          /\ data = [k \in Inodes |->
                        IF k = i THEN [m \in Parts |-> last] ELSE Blank]
    /\ text = [p \in Procs |-> Hole]
    /\ pc = [p \in Procs |-> "idle"]
    /\ fd = [p \in Procs |-> NoFile]
    /\ reader = NoFile
    /\ crossed = FALSE
    /\ calls = 0
    /\ interruptions = 0

InUse(i) ==
    \/ \E n \in Names : dir[n] = i
    \/ \E p \in Procs : fd[p] = i
    \/ reader = i

WriterAt(p, label) == pc[p] = label
WriterGoto(p, label) == pc' = [pc EXCEPT ![p] = label]
ReturnCall(p) == WriterGoto(p, "idle") /\ text' = [text EXCEPT ![p] = Hole]

-----------------------------------------------------------------------------

Call(p, v) ==
    /\ WriterAt(p, "idle")
    /\ calls < MaxCalls
    /\ calls' = calls + 1
    /\ text' = [text EXCEPT ![p] = v]
    /\ WriterGoto(p, "open")
    /\ crossed' = (crossed \/ \E q \in Procs \ {p} : ~WriterAt(q, "idle"))
    /\ UNCHANGED <<mounted, disk, fd, last, reader, interruptions>>

(* Mutants, here and below: what a plausible bug would make of the           *)
(* definition that follows.  No behaviour of AtomicSpec uses them.           *)

(* The file itself is opened. *)
OpenTmpInPlace(p) ==
    /\ WriterAt(p, "open")
    /\ data' = [data EXCEPT ![dir["path"]] = Blank]
    /\ fd' = [fd EXCEPT ![p] = dir["path"]]
    /\ WriterGoto(p, "tmp1")
    /\ UNCHANGED <<mounted, dir, text, last, reader, crossed, calls, interruptions>>

(* open(tmp, "w") truncates a temporary file that is there, whoever left it *)
(* or is still writing it, and creates it otherwise.                        *)
OpenTmp(p) ==
    /\ WriterAt(p, "open")
    /\ LET i == IF dir["tmp"] # NoFile THEN dir["tmp"]
                ELSE CHOOSE k \in Inodes : ~InUse(k)
       IN /\ dir' = [dir EXCEPT !["tmp"] = i]
          /\ data' = [data EXCEPT ![i] = Blank]
          /\ fd' = [fd EXCEPT ![p] = i]
    /\ WriterGoto(p, "tmp1")
    /\ UNCHANGED <<mounted, text, last, reader, crossed, calls, interruptions>>

WritePart(p, k) ==
    /\ data' = [data EXCEPT ![fd[p]][k] = text[p]]
    /\ UNCHANGED <<mounted, dir, text, last, reader, crossed, calls, interruptions>>

WriteTmp(p) ==
    \/ /\ WriterAt(p, "tmp1")
       /\ WritePart(p, 1)
       /\ WriterGoto(p, "tmp2")
       /\ UNCHANGED fd
    \/ /\ WriterAt(p, "tmp2")
       /\ WritePart(p, 2)
       /\ WriterGoto(p, "replace")
       /\ fd' = [fd EXCEPT ![p] = NoFile]

(* os.replace renames, or raises EBUSY on a bind mount and the fallback is  *)
(* taken, or raises FileNotFoundError for a temporary file that is gone,    *)
(* which the caller gets.                                                   *)
Replace(p) ==
    /\ WriterAt(p, "replace")
    /\ dir["tmp"] # NoFile
    /\ ~mounted
    /\ dir' = [dir EXCEPT !["path"] = dir["tmp"], !["tmp"] = NoFile]
    /\ last' = text[p]
    /\ ReturnCall(p)
    /\ UNCHANGED <<mounted, data, fd, reader, crossed, calls, interruptions>>

(* EBUSY is taken for success. *)
ReplaceBusyIgnored(p) ==
    /\ WriterAt(p, "replace")
    /\ dir["tmp"] # NoFile
    /\ mounted
    /\ last' = text[p]
    /\ ReturnCall(p)
    /\ UNCHANGED <<mounted, disk, fd, reader, crossed, calls, interruptions>>

ReplaceBusy(p) ==
    /\ WriterAt(p, "replace")
    /\ dir["tmp"] # NoFile
    /\ mounted
    /\ WriterGoto(p, "reopen")
    /\ UNCHANGED <<mounted, disk, fd, text, last, reader, crossed, calls,
                   interruptions>>

(* The rename is tried until it succeeds. *)
ReplaceMissingSpins(p) ==
    /\ WriterAt(p, "replace")
    /\ dir["tmp"] = NoFile
    /\ UNCHANGED atomicVars

ReplaceMissing(p) ==
    /\ WriterAt(p, "replace")
    /\ dir["tmp"] = NoFile
    /\ ReturnCall(p)
    /\ UNCHANGED <<mounted, disk, fd, last, reader, crossed, calls, interruptions>>

OpenPath(p) ==
    /\ WriterAt(p, "reopen")
    /\ data' = [data EXCEPT ![dir["path"]] = Blank]
    /\ fd' = [fd EXCEPT ![p] = dir["path"]]
    /\ WriterGoto(p, "path1")
    /\ UNCHANGED <<mounted, dir, text, last, reader, crossed, calls, interruptions>>

WritePath(p) ==
    \/ /\ WriterAt(p, "path1")
       /\ WritePart(p, 1)
       /\ WriterGoto(p, "path2")
       /\ UNCHANGED fd
    \/ /\ WriterAt(p, "path2")
       /\ WritePart(p, 2)
       /\ WriterGoto(p, "unlink")
       /\ fd' = [fd EXCEPT ![p] = NoFile]

(* A failing unlink is ignored. *)
UnlinkTmp(p) ==
    /\ WriterAt(p, "unlink")
    /\ dir' = [dir EXCEPT !["tmp"] = NoFile]
    /\ last' = text[p]
    /\ ReturnCall(p)
    /\ UNCHANGED <<mounted, data, fd, reader, crossed, calls, interruptions>>

(* The process dies, or a write raises (a full disk) and the caller gets    *)
(* the exception: either way the descriptor is closed and the files stay.   *)
Interrupt(p) ==
    /\ ~WriterAt(p, "idle")
    /\ interruptions < MaxFaults
    /\ interruptions' = interruptions + 1
    /\ fd' = [fd EXCEPT ![p] = NoFile]
    /\ ReturnCall(p)
    /\ UNCHANGED <<mounted, disk, last, reader, crossed, calls>>

(* A _load that takes no lock: worker start-up, another process.            *)
ReaderOpens ==
    /\ reader = NoFile
    /\ reader' = dir["path"]
    /\ UNCHANGED <<mounted, disk, pc, fd, text, last, crossed, calls, interruptions>>

ReaderReads ==
    /\ reader # NoFile
    /\ reader' = NoFile
    /\ UNCHANGED <<mounted, disk, pc, fd, text, last, crossed, calls, interruptions>>

-----------------------------------------------------------------------------

WriterStep(p) ==
    \/ OpenTmp(p) \/ WriteTmp(p)
    \/ Replace(p) \/ ReplaceBusy(p) \/ ReplaceMissing(p)
    \/ OpenPath(p) \/ WritePath(p) \/ UnlinkTmp(p)

AtomicNext ==
    \/ \E p \in Procs :
          \/ \E v \in Texts : Call(p, v)
          \/ WriterStep(p)
          \/ Interrupt(p)
    \/ ReaderOpens
    \/ ReaderReads

AtomicSpec ==
    /\ AtomicInit /\ [][AtomicNext]_atomicVars
    /\ \A p \in Procs : WF_atomicVars(WriterStep(p))

-----------------------------------------------------------------------------
(* Properties *)

(* Off a bind mount, whatever a reader finds in the file it has open is a    *)
(* whole text: the module docstring of backup_scheduler.py promises it of    *)
(* the job file, whose writers are the gunicorn workers.                     *)
ReadersSeeWholeFiles ==
    ~mounted => \A i \in {dir["path"], reader} \ {NoFile} : Whole(i)

(* As long as writes have not overlapped, that is so at every moment and     *)
(* after every crash, a temporary file left behind notwithstanding.          *)
SerialReadersSeeWholeFiles == ~crossed => ReadersSeeWholeFiles

(* Between writes that do not overlap the file holds the text of the last    *)
(* one that returned.  On a bind mount that takes a run without crashes and  *)
(* failing writes.                                                           *)
AcknowledgedWriteStands ==
    /\ \A p \in Procs : WriterAt(p, "idle")
    /\ ~crossed
    /\ ~mounted \/ interruptions = 0
    => data[dir["path"]] = [k \in Parts |-> last]

(* Every write returns or raises, whatever the other writers do to the       *)
(* temporary file they share.                                                *)
WriteReturns == \A p \in Procs : ~WriterAt(p, "idle") ~> WriterAt(p, "idle")
=============================================================================
