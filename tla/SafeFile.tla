------------------------------ MODULE SafeFile ------------------------------
(***************************************************************************)
(* Package safefile, system call by system call: any number of concurrent  *)
(* calls of WritePrivate and WritePublic on one path, of readers of that   *)
(* path, a kill of any caller between two calls, and a power failure.      *)
(*                                                                         *)
(* The file system is external.  A name maps to an inode; an inode's bytes *)
(* are counted in chunks (Len of them make the data complete).  dir and    *)
(* ino are what processes see, ddir and dino what is on disk: the kernel   *)
(* writes either back whenever it likes, Sync writes back one inode, and a *)
(* power failure leaves what is on disk.                                   *)
(***************************************************************************)
EXTENDS Integers

CONSTANTS Writers,         \* calls of write; also their temporary names and inodes
          PrivateWriters,  \* the calls made through WritePrivate
          Readers,         \* readers of the path
          Len,             \* chunks in every file
          Path,            \* the destination's name
          Old, Target,     \* inodes: the file that was there; where a link points
          Absent, Dir, Link \* what a name may hold other than an inode

Markers == {Absent, Dir, Link}
Inodes == Writers \cup {Old, Target}
Names == Writers \cup {Path}

ASSUME LenAssumption == Len \in Nat \ {0}
ASSUME PrivateAssumption == PrivateWriters \subseteq Writers
ASSUME NamesAssumption ==
  /\ Path \notin Writers
  /\ Old # Target
  /\ Old \notin Writers /\ Target \notin Writers
  /\ Markers \cap Inodes = {}
  /\ Absent # Dir /\ Absent # Link /\ Dir # Link

privateMode == "0600"
publicMode == "0644"
Modes == {privateMode, publicMode}

\* What a name holds when it holds no file is not mistaken for a file.
ASSUME MarkersAssumption == Markers \cap [data : Inodes, mode : Modes] = {}

\* The mode write is called with: WritePrivate and WritePublic differ in this only.
perm(w) == IF w \in PrivateWriters THEN privateMode ELSE publicMode

VARIABLES dir, ddir,  \* [Names -> Inodes \cup Markers], in memory and on disk
          ino, dino,  \* [Inodes -> file], in memory and on disk
          pc,         \* pc[w]: the next system call of write, or how it ended
          rd          \* rd[r]: a reader's progress and whose data it has seen

vars == <<dir, ddir, ino, dino, pc, rd>>

Running == {"lstat", "create", "write", "chmod", "sync", "close", "rename", "remove"}
\* err: returned an error; left: the error says that the temporary file remains.
Ended == {"ok", "err", "left", "dead"}

File == [data : Inodes, len : 0..Len, mode : Modes]
Reader == [st : {"idle", "reading", "done"}, ino : Inodes, pos : 0..Len, seen : SUBSET Inodes]
IdleReader == [st |-> "idle", ino |-> Old, pos |-> 0, seen |-> {}]

NewFile(w) == [data |-> w, len |-> 0, mode |-> privateMode]

\* Before the first call the path is free, a directory, a link to a file, or a
\* file with looser permissions than a private key should have.
InitialFile(i) == IF i \in Writers THEN NewFile(i)
                  ELSE [data |-> i, len |-> Len, mode |-> publicMode]

Init == /\ \E x \in {Absent, Dir, Link, Old} :
              dir = [n \in Names |-> IF n = Path THEN x ELSE Absent]
        /\ ddir = dir
        /\ ino = [i \in Inodes |-> InitialFile(i)]
        /\ dino = ino
        /\ pc = [w \in Writers |-> "lstat"]
        /\ rd = [r \in Readers |-> IdleReader]

-----------------------------------------------------------------------------
(* write and fill: one action per system call, all of which may fail.      *)

Goto(w, l) == pc' = [pc EXCEPT ![w] = l]

\* A directory at the path is refused; any other result of Lstat is ignored.
Lstat(w) == /\ pc[w] = "lstat"
            /\ Goto(w, IF dir[Path] = Dir THEN "err" ELSE "create")
            /\ UNCHANGED <<dir, ddir, ino, dino, rd>>

\* Faulty variants: the temporary file is made readable for all from the
\* start; the destination itself is opened and truncated.
CreateTempReadable(w) == /\ pc[w] = "create"
                         /\ dir' = [dir EXCEPT ![w] = w]
                         /\ ino' = [ino EXCEPT ![w].mode = publicMode]
                         /\ Goto(w, "write")
                         /\ UNCHANGED <<ddir, dino, rd>>
CreateInPlace(w) == /\ pc[w] = "create"
                    /\ dir' = [dir EXCEPT ![Path] = w]
                    /\ Goto(w, "write")
                    /\ UNCHANGED <<ddir, ino, dino, rd>>

\* O_EXCL and mode 0600: the name and the inode are this call's own.
CreateTemp(w) == /\ pc[w] = "create"
                 /\ dir' = [dir EXCEPT ![w] = w]
                 /\ Goto(w, "write")
                 /\ UNCHANGED <<ddir, ino, dino, rd>>

CreateTempFails(w) == /\ pc[w] = "create"
                      /\ Goto(w, "err")
                      /\ UNCHANGED <<dir, ddir, ino, dino, rd>>

\* Faulty variant: the end of the data is not noticed.
WriteWithoutEnd(w) == /\ pc[w] = "write"
                      /\ ino' = [ino EXCEPT ![w].len = @ + 1]
                      /\ Goto(w, IF ino[w].len = Len THEN "chmod" ELSE "write")
                      /\ UNCHANGED <<dir, ddir, dino, rd>>

\* One chunk of f.Write: the data of a call is not written in one piece.
Write(w) == /\ pc[w] = "write"
            /\ ino' = [ino EXCEPT ![w].len = @ + 1]
            /\ Goto(w, IF ino[w].len + 1 = Len THEN "chmod" ELSE "write")
            /\ UNCHANGED <<dir, ddir, dino, rd>>

Chmod(w) == /\ pc[w] = "chmod"
            /\ ino' = [ino EXCEPT ![w].mode = perm(w)]
            /\ Goto(w, "sync")
            /\ UNCHANGED <<dir, ddir, dino, rd>>

\* Faulty variant: no Sync before the rename.
SyncSkipped(w) == /\ pc[w] = "sync"
                  /\ Goto(w, "close")
                  /\ UNCHANGED <<dir, ddir, ino, dino, rd>>

Sync(w) == /\ pc[w] = "sync"
           /\ dino' = [dino EXCEPT ![w] = ino[w]]
           /\ Goto(w, "close")
           /\ UNCHANGED <<dir, ddir, ino, rd>>

Close(w) == /\ pc[w] = "close"
            /\ Goto(w, "rename")
            /\ UNCHANGED <<dir, ddir, ino, dino, rd>>

\* Faulty variant: a link is followed, as os.WriteFile would.
RenameThroughLink(w) ==
  /\ pc[w] = "rename"
  /\ dir[Path] # Dir
  /\ dir' = [dir EXCEPT ![Path] = IF dir[Path] = Link THEN Link ELSE w, ![w] = Absent]
  /\ ino' = IF dir[Path] = Link THEN [ino EXCEPT ![Target] = ino[w]] ELSE ino
  /\ Goto(w, "ok")
  /\ UNCHANGED <<ddir, dino, rd>>

\* Rename replaces what the name holds, a link included, but not a directory.
Rename(w) == /\ pc[w] = "rename"
             /\ dir[Path] # Dir
             /\ dir' = [dir EXCEPT ![Path] = w, ![w] = Absent]
             /\ Goto(w, "ok")
             /\ UNCHANGED <<ddir, ino, dino, rd>>

\* Faulty variant: the error is returned without removeTemp.
StepFailsKeepsTemp(w) == /\ pc[w] \in {"write", "chmod", "sync", "close", "rename"}
                         /\ Goto(w, "err")
                         /\ UNCHANGED <<dir, ddir, ino, dino, rd>>

\* A step of fill, or Rename, returns an error; the file is closed and removed.
StepFails(w) == /\ pc[w] \in {"write", "chmod", "sync", "close", "rename"}
                /\ Goto(w, "remove")
                /\ UNCHANGED <<dir, ddir, ino, dino, rd>>

removeTemp(w) == /\ pc[w] = "remove"
                 /\ dir' = [dir EXCEPT ![w] = Absent]
                 /\ Goto(w, "err")
                 /\ UNCHANGED <<ddir, ino, dino, rd>>

removeTempFails(w) == /\ pc[w] = "remove"
                      /\ Goto(w, "left")
                      /\ UNCHANGED <<dir, ddir, ino, dino, rd>>

\* The process is killed between two system calls.
Kill(w) == /\ pc[w] \in Running
           /\ Goto(w, "dead")
           /\ UNCHANGED <<dir, ddir, ino, dino, rd>>

-----------------------------------------------------------------------------
(* Readers, other programs, the kernel.                                    *)

\* A reader opens what the path leads to, following a link.
Open(r) == /\ rd[r].st = "idle"
           /\ dir[Path] \notin {Absent, Dir}
           /\ rd' = [rd EXCEPT ![r].st = "reading",
                               ![r].ino = IF dir[Path] = Link THEN Target ELSE dir[Path]]
           /\ UNCHANGED <<dir, ddir, ino, dino, pc>>

\* It reads a chunk at a time until the end of the file.
Read(r) ==
  LET f == ino[rd[r].ino]
  IN /\ rd[r].st = "reading"
     /\ rd' = IF rd[r].pos < f.len
              THEN [rd EXCEPT ![r].pos = @ + 1, ![r].seen = @ \cup {f.data}]
              ELSE [rd EXCEPT ![r].st = "done"]
     /\ UNCHANGED <<dir, ddir, ino, dino, pc>>

MakeDir == /\ dir[Path] = Absent
           /\ dir' = [dir EXCEPT ![Path] = Dir]
           /\ UNCHANGED <<ddir, ino, dino, pc, rd>>

FlushDir == /\ ddir # dir
            /\ ddir' = dir
            /\ UNCHANGED <<dir, ino, dino, pc, rd>>

FlushInode(w) == /\ dino[w] # ino[w]
                 /\ dino' = [dino EXCEPT ![w] = ino[w]]
                 /\ UNCHANGED <<dir, ddir, ino, pc, rd>>

PowerLoss == /\ dir' = ddir
             /\ ino' = dino
             /\ pc' = [w \in Writers |-> "dead"]
             /\ rd' = [r \in Readers |-> IF rd[r].st = "done" THEN rd[r] ELSE IdleReader]
             /\ UNCHANGED <<ddir, dino>>

Call(w) == \/ Lstat(w) \/ CreateTemp(w) \/ CreateTempFails(w) \/ Write(w)
           \/ Chmod(w) \/ Sync(w) \/ Close(w) \/ Rename(w) \/ StepFails(w)
           \/ removeTemp(w) \/ removeTempFails(w)

Next == \/ \E w \in Writers : Call(w) \/ Kill(w) \/ FlushInode(w)
        \/ \E r \in Readers : Open(r) \/ Read(r)
        \/ MakeDir \/ FlushDir \/ PowerLoss

Spec == Init /\ [][Next]_vars

-----------------------------------------------------------------------------
(* Properties.                                                             *)

\* Type correctness of every variable.
TypeOK == /\ dir \in [Names -> Inodes \cup Markers]
          /\ ddir \in [Names -> Inodes \cup Markers]
          /\ ino \in [Inodes -> File]
          /\ dino \in [Inodes -> File]
          /\ pc \in [Writers -> Running \cup Ended]
          /\ rd \in [Readers -> Reader]

\* A reader of the path gets one file, and all of it, whatever calls replace
\* the path while it reads, and after a kill or a power failure too: the
\* package's "readers see either the old file or the complete new one".
ReadsAreWhole ==
  \A r \in Readers : rd[r].st = "done" =>
     rd[r].pos = Len /\ \E i \in Inodes : rd[r].seen = {i}

\* No byte given to WritePrivate is ever, in memory or on disk, in an inode
\* that others may read, whatever the old file's mode was and whatever fails.
PrivateStaysPrivate ==
  \A i \in Inodes : \A f \in {ino[i], dino[i]} :
     f.len > 0 /\ f.data \in PrivateWriters => f.mode = privateMode

\* The file a symbolic link at the path points to is never written.
LinkTargetKept == ino[Target] = InitialFile(Target)

\* A call that returned has no temporary file left, except when its error
\* says that it could not remove it; only a kill or a power failure leaves one.
TempsAccountedFor == \A w \in Writers : pc[w] \in {"ok", "err"} => dir[w] = Absent

(***************************************************************************)
(* safefile implements AtomicFile: the path's file is what its inode holds *)
(* when that is complete (a partial file maps to nothing AtomicFile knows).*)
(***************************************************************************)
Whole(f) == [data |-> f.data, mode |-> f.mode]
View(d, io) == IF d[Path] \in Markers THEN d[Path]
               ELSE IF io[d[Path]].len = Len THEN Whole(io[d[Path]])
               ELSE io[d[Path]]
OldFile == Whole(InitialFile(Old))
Outcome(w) == IF pc[w] \in Running THEN "pending"
              ELSE IF pc[w] = "left" THEN "err" ELSE pc[w]

Atomic == INSTANCE AtomicFile WITH
            Content <- [w \in Writers |-> [data |-> w, mode |-> perm(w)]],
            Initials <- {Absent, Dir, Link, OldFile},
            file <- View(dir, ino),
            durable <- View(ddir, dino),
            outcome <- [w \in Writers |-> Outcome(w)]

\* Every step of write, with every failure, kill and power failure, is a step
\* of the atomic replacement that the package comment promises, or no step.
ImplementsAtomicFile == Atomic!Spec
=============================================================================
