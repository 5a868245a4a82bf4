--------------------------- MODULE SafeFileProofs ---------------------------
(***************************************************************************)
(* For any number of callers and readers and any file length: package      *)
(* safefile keeps its types, hands every reader one whole file, never      *)
(* exposes private data, never writes through a link, accounts for its     *)
(* temporary files, and implements AtomicFile.                             *)
(*                                                                         *)
(* The argument: an inode reaches the path's name only after fill has      *)
(* completed and synced it, and nothing touches an inode after that.  Such *)
(* an inode is called Settled; IInv says that whatever the path's name     *)
(* holds, in memory or on disk, and whatever a reader has open, is Settled.*)
(***************************************************************************)
EXTENDS SafeFile, TLAPS

\* Complete, on disk as in memory, and never touched again.
Settled(i) == /\ ino[i].len = Len /\ ino[i].data = i
              /\ dino[i] = ino[i]
              /\ i \in Writers => ino[i].mode = perm(i) /\ pc[i] \in {"ok", "dead"}

CallInv(w) ==
  /\ ino[w].data = w /\ dino[w].data = w
  /\ w \in PrivateWriters => ino[w].mode = privateMode /\ dino[w].mode = privateMode
  /\ pc[w] \in {"lstat", "create"} => ino[w].len = 0
  /\ pc[w] = "write" => ino[w].len < Len
  /\ pc[w] \in {"chmod", "sync", "close", "rename", "ok"} => ino[w].len = Len
  /\ pc[w] \in {"sync", "close", "rename", "ok"} => ino[w].mode = perm(w)
  /\ pc[w] \in {"close", "rename", "ok"} => dino[w] = ino[w]
  /\ pc[w] \in {"lstat", "create", "ok", "err"} => dir[w] = Absent

ReaderInv(r) ==
  /\ rd[r].st = "idle" => rd[r].pos = 0 /\ rd[r].seen = {}
  /\ rd[r].st = "reading" => /\ Settled(rd[r].ino)
                             /\ rd[r].seen = IF rd[r].pos = 0 THEN {} ELSE {rd[r].ino}
  /\ rd[r].st = "done" => rd[r].pos = Len /\ rd[r].seen = {rd[r].ino}

PathInv(x) == x \in Markers \/ (x # Target /\ Settled(x))

FixedInv == \A i \in {Old, Target} : ino[i] = InitialFile(i) /\ dino[i] = InitialFile(i)

IInv == /\ TypeOK
        /\ \A w \in Writers : CallInv(w)
        /\ \A r \in Readers : ReaderInv(r)
        /\ PathInv(dir[Path]) /\ PathInv(ddir[Path])
        /\ FixedInv

-----------------------------------------------------------------------------
(* The inductive invariant.                                                *)

LEMMA InitIInv == Init => IInv
<1> SUFFICES ASSUME Init PROVE IInv
  OBVIOUS
<1> USE LenAssumption, PrivateAssumption, NamesAssumption
<1>1. TypeOK
  BY DEF Init, TypeOK, Names, Inodes, Markers, InitialFile, NewFile, File, Modes,
         privateMode, publicMode, Running, Ended, Reader, IdleReader
<1>2. \A w \in Writers : CallInv(w)
  BY DEF Init, CallInv, Inodes, Names, InitialFile, NewFile, privateMode
<1>3. \A r \in Readers : ReaderInv(r)
  BY DEF Init, ReaderInv, IdleReader
<1>4. FixedInv
  BY DEF Init, FixedInv, Inodes
<1>5. PathInv(dir[Path]) /\ PathInv(ddir[Path])
  BY DEF Init, PathInv, Settled, Names, Inodes, Markers, InitialFile
<1> QED
  BY <1>1, <1>2, <1>3, <1>4, <1>5 DEF IInv

\* A step that keeps both copies of an inode, and does not restart a call that
\* ended, keeps what is Settled.
LEMMA SettledStable ==
  ASSUME NEW i \in Inodes, Settled(i),
         ino'[i] = ino[i] /\ dino'[i] = dino[i],
         i \in Writers => pc'[i] \in {pc[i], "dead"}
  PROVE  Settled(i)'
BY DEF Settled, perm

\* Steps of a call that has not ended disturb nothing that is Settled.
LEMMA CallKeepsSettled ==
  ASSUME IInv, NEW w \in Writers, pc[w] \in Running,
         NEW i \in Inodes, Settled(i),
         \A j \in Inodes : j # w => ino'[j] = ino[j] /\ dino'[j] = dino[j],
         \A v \in Writers : v # w => pc'[v] = pc[v]
  PROVE  Settled(i)'
<1>1. i # w
  BY DEF Settled, Running
<1> QED
  BY <1>1, SettledStable DEF Inodes

\* What every step of one call leaves alone, and what it establishes.
Frame(w) ==
  /\ pc[w] \in Running
  /\ \A j \in Inodes : j # w => ino'[j] = ino[j] /\ dino'[j] = dino[j]
  /\ \A v \in Writers : v # w => pc'[v] = pc[v] /\ dir'[v] = dir[v]
  /\ ddir' = ddir /\ rd' = rd
  /\ dir'[Path] = dir[Path] \/ (dir'[Path] = w /\ Settled(w)')

LEMMA CallStep ==
  ASSUME IInv, NEW w \in Writers, Call(w) \/ Kill(w)
  PROVE  TypeOK' /\ CallInv(w)' /\ Frame(w)
<1> USE LenAssumption, PrivateAssumption, NamesAssumption
<1> USE DEF IInv, TypeOK, CallInv, Frame, Settled, Goto, Names, Inodes, Markers, File, Modes,
        Running, Ended, perm, privateMode, publicMode
<1>1. CASE Lstat(w)
  BY <1>1 DEF Lstat
<1>2. CASE CreateTemp(w)
  BY <1>2 DEF CreateTemp
<1>3. CASE CreateTempFails(w)
  BY <1>3 DEF CreateTempFails
<1>4. CASE Write(w)
  BY <1>4 DEF Write
<1>5. CASE Chmod(w)
  BY <1>5 DEF Chmod
<1>6. CASE Sync(w)
  BY <1>6 DEF Sync
<1>7. CASE Close(w)
  BY <1>7 DEF Close
<1>8. CASE Rename(w)
  BY <1>8 DEF Rename
<1>9. CASE StepFails(w)
  BY <1>9 DEF StepFails
<1>10. CASE removeTemp(w)
  BY <1>10 DEF removeTemp
<1>11. CASE removeTempFails(w)
  BY <1>11 DEF removeTempFails
<1>12. CASE Kill(w)
  BY <1>12 DEF Kill
<1> QED
  BY <1>1, <1>2, <1>3, <1>4, <1>5, <1>6, <1>7, <1>8, <1>9, <1>10, <1>11, <1>12 DEF Call

LEMMA CallIInv ==
  ASSUME IInv, NEW w \in Writers, Call(w) \/ Kill(w)
  PROVE  IInv'
<1> USE NamesAssumption
<1>1. TypeOK' /\ CallInv(w)' /\ Frame(w)
  BY CallStep
<1>2. ASSUME NEW i \in Inodes, Settled(i) PROVE Settled(i)'
  BY <1>1, <1>2, CallKeepsSettled DEF Frame
<1>3. ASSUME NEW v \in Writers PROVE CallInv(v)'
  BY <1>1, <1>3 DEF IInv, CallInv, Frame, Inodes, perm
<1>4. ASSUME NEW r \in Readers PROVE ReaderInv(r)'
  <2>1. rd'[r] = rd[r] /\ rd[r].ino \in Inodes
    BY <1>1 DEF Frame, IInv, TypeOK, Reader
  <2> QED
    BY <1>2, <2>1 DEF IInv, ReaderInv
<1>5. PathInv(dir[Path])' /\ PathInv(ddir[Path])'
  <2>1. dir[Path] \in Inodes \cup Markers /\ ddir[Path] \in Inodes \cup Markers
    BY DEF IInv, TypeOK, Names
  <2> QED
    BY <1>1, <1>2, <2>1 DEF IInv, PathInv, Frame, Markers, Inodes
<1>6. FixedInv'
  BY <1>1 DEF IInv, FixedInv, Frame, Inodes, InitialFile, NewFile
<1> QED
  BY <1>1, <1>3, <1>4, <1>5, <1>6 DEF IInv

LEMMA ReaderUpdate ==
  ASSUME NEW x \in Reader, NEW k \in 0..Len, NEW S \in SUBSET Inodes
  PROVE  [x EXCEPT !.pos = k, !.seen = S] \in Reader
BY DEF Reader

\* A reader's steps change only what the reader itself knows.
LEMMA ReaderIInv ==
  ASSUME IInv, NEW r \in Readers, Open(r) \/ Read(r)
  PROVE  IInv'
<1> USE LenAssumption, NamesAssumption
<1>1. UNCHANGED <<dir, ddir, ino, dino, pc>>
  BY DEF Open, Read
<1>2. ASSUME NEW i \in Inodes PROVE Settled(i)' <=> Settled(i)
  BY <1>1 DEF Settled, perm
<1>3. rd' \in [Readers -> Reader] /\ ReaderInv(r)' /\ \A q \in Readers : q # r => rd'[q] = rd[q]
  <2> USE DEF IInv, TypeOK, Reader, File, Names, Inodes, Markers
  <2>1. CASE Open(r)
    <3> DEFINE j == IF dir[Path] = Link THEN Target ELSE dir[Path]
    <3>1. j \in Inodes /\ Settled(j)
      BY <2>1 DEF Open, PathInv, FixedInv, Settled, InitialFile
    <3>2. /\ rd' = [rd EXCEPT ![r].st = "reading", ![r].ino = j]
          /\ rd[r].pos = 0 /\ rd[r].seen = {}
      BY <2>1 DEF Open, ReaderInv
    <3>3. rd'[r] = [rd[r] EXCEPT !.st = "reading", !.ino = j] /\ rd[r] \in Reader
      BY <3>2
    <3> HIDE DEF j
    <3>4. rd'[r].st = "reading" /\ rd'[r].ino = j /\ rd'[r].pos = 0 /\ rd'[r].seen = {}
      BY <3>2, <3>3
    <3>5. rd'[r] \in Reader
      BY <3>1, <3>3
    <3>6. rd' \in [Readers -> Reader] /\ \A q \in Readers : q # r => rd'[q] = rd[q]
      BY <3>2, <3>5
    <3> QED
      BY <1>2, <3>1, <3>4, <3>6 DEF ReaderInv
  <2>2. CASE Read(r)
    <3>1. /\ rd[r] \in Reader /\ rd[r].ino \in Inodes /\ Settled(rd[r].ino)
          /\ rd[r].seen = IF rd[r].pos = 0 THEN {} ELSE {rd[r].ino}
      BY <2>2 DEF Read, ReaderInv
    <3>2. ino[rd[r].ino].len = Len /\ ino[rd[r].ino].data = rd[r].ino
      BY <3>1 DEF Settled
    <3>3. CASE rd[r].pos < Len
      <4>1. rd' = [rd EXCEPT ![r].pos = @ + 1, ![r].seen = @ \cup {rd[r].ino}]
        BY <2>2, <3>2, <3>3 DEF Read
      <4>2. /\ rd'[r].st = "reading" /\ rd'[r].ino = rd[r].ino /\ rd'[r].pos = rd[r].pos + 1
            /\ rd'[r].seen = {rd[r].ino}
            /\ rd' \in [Readers -> Reader] /\ \A q \in Readers : q # r => rd'[q] = rd[q]
        <5>1. rd'[r] = [rd[r] EXCEPT !.pos = @ + 1, !.seen = @ \cup {rd[r].ino}]
          BY <4>1
        <5>2. rd[r].seen \cup {rd[r].ino} = {rd[r].ino} /\ rd[r].pos + 1 \in 0..Len /\ rd[r].st = "reading"
          BY <2>2, <3>1, <3>3 DEF Read
        <5>3. rd'[r] \in Reader
          <6> HIDE DEF Reader, Inodes
          <6>1. {rd[r].ino} \in SUBSET Inodes
            BY <3>1
          <6>2. rd'[r] = [rd[r] EXCEPT !.pos = rd[r].pos + 1, !.seen = {rd[r].ino}]
            BY <5>1, <5>2
          <6>3. rd[r] \in Reader /\ rd[r].pos + 1 \in 0..Len
            BY <3>1, <5>2
          <6>4. [rd[r] EXCEPT !.pos = rd[r].pos + 1, !.seen = {rd[r].ino}] \in Reader
            BY <6>1, <6>3, ReaderUpdate
          <6> QED
            BY <6>2, <6>4
        <5>4. rd'[r].st = "reading" /\ rd'[r].ino = rd[r].ino /\ rd'[r].pos = rd[r].pos + 1
          BY <3>1, <5>1, <5>2
        <5>5. rd'[r].seen = {rd[r].ino}
          BY <3>1, <5>1, <5>2
        <5>6. rd' \in [Readers -> Reader] /\ \A q \in Readers : q # r => rd'[q] = rd[q]
          BY <4>1, <5>3
        <5> QED
          BY <5>4, <5>5, <5>6
      <4>3. rd'[r].pos # 0
        BY <3>1, <4>2
      <4> QED
        BY <1>2, <3>1, <4>2, <4>3 DEF ReaderInv
    <3>4. CASE ~(rd[r].pos < Len)
      <4>1. rd' = [rd EXCEPT ![r].st = "done"]
        BY <2>2, <3>2, <3>4 DEF Read
      <4> QED
        BY <3>1, <3>4, <4>1 DEF ReaderInv
    <3> QED
      BY <3>3, <3>4
  <2> QED
    BY <2>1, <2>2
<1>4. \A q \in Readers : ReaderInv(q)'
  BY <1>2, <1>3 DEF IInv, TypeOK, Reader, ReaderInv
<1>5. TypeOK' /\ FixedInv' /\ \A w \in Writers : CallInv(w)'
  BY <1>1, <1>3 DEF IInv, TypeOK, FixedInv, CallInv, InitialFile, NewFile, perm
<1>6. PathInv(dir[Path])' /\ PathInv(ddir[Path])'
  BY <1>1, <1>2 DEF IInv, TypeOK, Names, PathInv, Inodes, Markers
<1> QED
  BY <1>4, <1>5, <1>6 DEF IInv

\* Another program and the kernel.
LEMMA EnvironmentIInv ==
  ASSUME IInv, MakeDir \/ FlushDir \/ PowerLoss \/ \E w \in Writers : FlushInode(w)
  PROVE  IInv'
<1> USE LenAssumption, PrivateAssumption, NamesAssumption
<1> USE DEF IInv, TypeOK, Names, Inodes, Markers
<1>1. CASE MakeDir
  <2>1. ASSUME NEW i \in Inodes, Settled(i) PROVE Settled(i)'
    BY <1>1, <2>1 DEF MakeDir, Settled, perm
  <2>2. TypeOK' /\ FixedInv' /\ \A v \in Writers : CallInv(v)'
    BY <1>1 DEF MakeDir, CallInv, FixedInv, InitialFile, NewFile, perm
  <2>3. \A r \in Readers : ReaderInv(r)'
    BY <1>1, <2>1 DEF MakeDir, ReaderInv, Reader
  <2>4. PathInv(dir[Path])' /\ PathInv(ddir[Path])'
    BY <1>1, <2>1 DEF MakeDir, PathInv
  <2> QED
    BY <2>2, <2>3, <2>4
<1>2. CASE FlushDir
  <2>1. ASSUME NEW i \in Inodes, Settled(i) PROVE Settled(i)'
    BY <1>2, <2>1 DEF FlushDir, Settled, perm
  <2>2. TypeOK' /\ FixedInv' /\ \A v \in Writers : CallInv(v)'
    BY <1>2 DEF FlushDir, CallInv, FixedInv, InitialFile, NewFile, perm
  <2>3. \A r \in Readers : ReaderInv(r)'
    BY <1>2, <2>1 DEF FlushDir, ReaderInv, Reader
  <2>4. PathInv(dir[Path])' /\ PathInv(ddir[Path])'
    BY <1>2, <2>1 DEF FlushDir, PathInv
  <2> QED
    BY <2>2, <2>3, <2>4
<1>3. ASSUME NEW w \in Writers, FlushInode(w) PROVE IInv'
  <2>1. ASSUME NEW i \in Inodes, Settled(i) PROVE Settled(i)'
    BY <1>3, <2>1 DEF FlushInode, Settled, perm
  <2>2. TypeOK' /\ FixedInv' /\ \A v \in Writers : CallInv(v)'
    BY <1>3 DEF FlushInode, CallInv, FixedInv, InitialFile, NewFile, perm
  <2>3. \A r \in Readers : ReaderInv(r)'
    BY <1>3, <2>1 DEF FlushInode, ReaderInv, Reader
  <2>4. PathInv(dir[Path])' /\ PathInv(ddir[Path])'
    BY <1>3, <2>1 DEF FlushInode, PathInv
  <2> QED
    BY <2>2, <2>3, <2>4
<1>4. CASE PowerLoss
  <2>1. ASSUME NEW i \in Inodes, Settled(i) PROVE Settled(i)'
    BY <1>4, <2>1 DEF PowerLoss, Settled, perm
  <2>2. TypeOK' /\ FixedInv'
    BY <1>4 DEF PowerLoss, FixedInv, InitialFile, NewFile, Running, Ended, Reader, IdleReader
  <2>3. \A v \in Writers : CallInv(v)'
    BY <1>4 DEF PowerLoss, CallInv
  <2>4. \A r \in Readers : ReaderInv(r)'
    BY <1>4 DEF PowerLoss, ReaderInv, IdleReader
  <2>5. PathInv(dir[Path])' /\ PathInv(ddir[Path])'
    BY <1>4, <2>1 DEF PowerLoss, PathInv
  <2> QED
    BY <2>2, <2>3, <2>4, <2>5
<1> QED
  BY <1>1, <1>2, <1>3, <1>4

LEMMA NextIInv == IInv /\ [Next]_vars => IInv'
<1> SUFFICES ASSUME IInv, [Next]_vars PROVE IInv'
  OBVIOUS
<1>1. CASE UNCHANGED vars
  BY <1>1 DEF vars, IInv, TypeOK, CallInv, ReaderInv, PathInv, FixedInv, Settled, perm,
              InitialFile, NewFile
<1>2. CASE Next
  BY <1>2, CallIInv, ReaderIInv, EnvironmentIInv DEF Next
<1> QED
  BY <1>1, <1>2

LEMMA IInvAlways == Spec => []IInv
BY InitIInv, NextIInv, PTL DEF Spec

-----------------------------------------------------------------------------
(* The theorems.                                                           *)

\* Every variable keeps its type in all behaviours of write, its readers and
\* the file system.
THEOREM TypeCorrect == Spec => []TypeOK
BY IInvAlways, PTL DEF IInv

\* Readers see the old file or a complete new one, never a partial write
\* (package comment of safefile.go), for any number of racing calls.
THEOREM WholeReads == Spec => []ReadsAreWhole
<1>1. IInv => ReadsAreWhole
  BY DEF IInv, TypeOK, Reader, ReaderInv, ReadsAreWhole
<1> QED
  BY <1>1, IInvAlways, PTL

\* Data given to WritePrivate is never readable by other users.
THEOREM PrivateData == Spec => []PrivateStaysPrivate
<1>1. IInv => PrivateStaysPrivate
  <2> SUFFICES ASSUME IInv, NEW i \in Inodes, NEW f \in {ino[i], dino[i]}, f.data \in PrivateWriters
               PROVE  f.mode = privateMode
    BY DEF PrivateStaysPrivate
  <2>1. CASE i \in Writers
    BY <2>1 DEF IInv, CallInv
  <2>2. CASE i \in {Old, Target}
    BY <2>2, PrivateAssumption, NamesAssumption DEF IInv, FixedInv, InitialFile
  <2> QED
    BY <2>1, <2>2 DEF Inodes
<1> QED
  BY <1>1, IInvAlways, PTL

\* A symbolic link at the destination is replaced, not followed.
THEOREM LinkNotFollowed == Spec => []LinkTargetKept
<1>1. IInv => LinkTargetKept
  BY DEF IInv, FixedInv, LinkTargetKept
<1> QED
  BY <1>1, IInvAlways, PTL

\* write removes its temporary file on every path that does not say otherwise.
THEOREM NoForgottenTemps == Spec => []TempsAccountedFor
<1>1. IInv => TempsAccountedFor
  BY DEF IInv, CallInv, TempsAccountedFor
<1> QED
  BY <1>1, IInvAlways, PTL

-----------------------------------------------------------------------------
(* The refinement.                                                         *)

LEMMA InitRefines == Init => Atomic!Init
<1> SUFFICES ASSUME Init PROVE Atomic!Init
  OBVIOUS
<1> USE LenAssumption, NamesAssumption
<1>1. View(dir, ino) \in {Absent, Dir, Link, OldFile}
  BY DEF Init, View, OldFile, InitialFile, Names, Inodes, Markers
<1>2. View(ddir, dino) = View(dir, ino)
  BY DEF Init
<1>3. [w \in Writers |-> Outcome(w)] = [w \in Writers |-> "pending"]
  BY DEF Init, Outcome, Running
<1> QED
  BY <1>1, <1>2, <1>3 DEF Atomic!Init

\* What the path holds looks the same while its name and the inodes that are
\* Settled stay as they are.
LEMMA SameView ==
  ASSUME IInv, dir'[Path] = dir[Path], \A i \in Inodes : Settled(i) => ino'[i] = ino[i]
  PROVE  View(dir, ino)' = View(dir, ino)
<1>1. dir[Path] \in Inodes \cup Markers /\ PathInv(dir[Path])
  BY DEF IInv, TypeOK, Names
<1> QED
  BY <1>1 DEF PathInv, View, Whole, Markers, Inodes

LEMMA SameDurableView ==
  ASSUME IInv, ddir'[Path] = ddir[Path], \A i \in Inodes : Settled(i) => dino'[i] = dino[i]
  PROVE  View(ddir, dino)' = View(ddir, dino)
<1>1. ddir[Path] \in Inodes \cup Markers /\ PathInv(ddir[Path])
  BY DEF IInv, TypeOK, Names
<1> QED
  BY <1>1 DEF PathInv, View, Whole, Markers, Inodes

\* What a Settled name shows does not depend on the copy one looks at.
LEMMA DiskView ==
  ASSUME IInv, NEW d, d[Path] \in Inodes \cup Markers, PathInv(d[Path])
  PROVE  View(d, dino) = View(d, ino)
BY DEF PathInv, View, Whole, Settled

LEMMA CallRefines ==
  ASSUME IInv, NEW w \in Writers, Call(w) \/ Kill(w)
  PROVE  [Atomic!Next]_(Atomic!vars)
<1> USE NamesAssumption
<1>1. Frame(w) /\ TypeOK' /\ pc[w] \in Running
  BY CallStep DEF Frame
<1>2. ASSUME NEW i \in Inodes, Settled(i) PROVE ino'[i] = ino[i] /\ dino'[i] = dino[i]
  BY <1>1, <1>2 DEF Frame, Settled, Running
<1>3. View(ddir, dino)' = View(ddir, dino)
  BY <1>1, <1>2, SameDurableView DEF Frame
<1>4. \A v \in Writers : v # w => Outcome(v)' = Outcome(v)
  BY <1>1 DEF Frame, Outcome
<1>5. Outcome(w) = "pending"
  BY <1>1 DEF Outcome
<1>6. CASE Rename(w)
  <2>1. View(dir, ino) # Dir
    <3>1. dir[Path] # Dir /\ dir[Path] \in Inodes \cup Markers /\ PathInv(dir[Path])
      BY <1>6 DEF Rename, IInv, TypeOK, Names
    <3>2. CASE dir[Path] \in Markers
      BY <3>1, <3>2 DEF View
    <3>3. CASE dir[Path] \notin Markers
      <4>1. View(dir, ino) = Whole(ino[dir[Path]])
        BY <3>1, <3>3 DEF View, PathInv, Settled
      <4>2. ino[dir[Path]] \in File
        BY <3>1, <3>3 DEF IInv, TypeOK
      <4>3. Whole(ino[dir[Path]]) \in [data : Inodes, mode : Modes]
        BY <4>2 DEF Whole, File
      <4> QED
        BY <4>1, <4>3, MarkersAssumption DEF Markers
    <3> QED
      BY <3>2, <3>3
  <2>2. View(dir, ino)' = [data |-> w, mode |-> perm(w)]
    <3>1. dir'[Path] = w /\ ino' = ino /\ ino[w].len = Len /\ ino[w].data = w /\ ino[w].mode = perm(w)
      BY <1>6 DEF Rename, IInv, CallInv, TypeOK, Names
    <3> QED
      BY <3>1 DEF View, Whole, Inodes, Markers
  <2>3. Outcome(w)' = "ok"
    BY <1>6 DEF Rename, Goto, Outcome, Running, IInv, TypeOK
  <2>4. [v \in Writers |-> Outcome(v)]' = [[v \in Writers |-> Outcome(v)] EXCEPT ![w] = "ok"]
    BY <1>4, <2>3
  <2>5. Atomic!Replace(w)
    BY <1>3, <1>5, <2>1, <2>2, <2>4 DEF Atomic!Replace
  <2> QED
    BY <2>5 DEF Atomic!Next
<1>7. CASE ~Rename(w)
  <2>1. dir'[Path] = dir[Path] /\ pc'[w] \in Running \cup {"err", "left", "dead"}
    BY <1>7 DEF Call, Kill, Lstat, CreateTemp, CreateTempFails, Write, Chmod, Sync, Close, StepFails,
                removeTemp, removeTempFails, Goto, Running, IInv, TypeOK, Names
  <2>2. View(dir, ino)' = View(dir, ino)
    BY <1>2, <2>1, SameView
  <2>3. CASE Outcome(w)' = "pending"
    <3>1. [v \in Writers |-> Outcome(v)]' = [v \in Writers |-> Outcome(v)]
      BY <1>4, <1>5, <2>3
    <3> QED
      BY <1>3, <2>2, <3>1 DEF Atomic!vars
  <2>4. CASE Outcome(w)' = "err"
    <3>1. [v \in Writers |-> Outcome(v)]' = [[v \in Writers |-> Outcome(v)] EXCEPT ![w] = "err"]
      BY <1>4, <2>4
    <3> QED
      BY <1>3, <1>5, <2>2, <3>1 DEF Atomic!Next, Atomic!Refuse
  <2>5. CASE Outcome(w)' = "dead"
    <3>1. [v \in Writers |-> Outcome(v)]' = [[v \in Writers |-> Outcome(v)] EXCEPT ![w] = "dead"]
      BY <1>4, <2>5
    <3> QED
      BY <1>3, <1>5, <2>2, <3>1 DEF Atomic!Next, Atomic!Die
  <2> QED
    BY <2>1, <2>3, <2>4, <2>5 DEF Outcome, Running
<1> QED
  BY <1>6, <1>7

LEMMA OtherRefines ==
  ASSUME IInv, Next, ~ \E w \in Writers : Call(w) \/ Kill(w)
  PROVE  [Atomic!Next]_(Atomic!vars)
<1> USE NamesAssumption
<1>1. ASSUME pc' = pc PROVE [w \in Writers |-> Outcome(w)]' = [w \in Writers |-> Outcome(w)]
  BY <1>1 DEF Outcome
<1>2. CASE \E w \in Writers : FlushInode(w)
  <2>1. /\ dir' = dir /\ ddir' = ddir /\ ino' = ino /\ pc' = pc
        /\ \A i \in Inodes : Settled(i) => dino'[i] = dino[i]
    BY <1>2 DEF FlushInode, Settled, IInv, TypeOK
  <2> QED
    BY <1>1, <2>1, SameView, SameDurableView DEF Atomic!vars
<1>3. CASE \E r \in Readers : Open(r) \/ Read(r)
  BY <1>1, <1>3 DEF Open, Read, Atomic!vars
<1>4. CASE MakeDir
  <2>1. View(dir, ino) = Absent /\ View(dir, ino)' = Dir
    BY <1>4 DEF MakeDir, View, Markers, IInv, TypeOK, Names
  <2>2. View(ddir, dino)' = View(ddir, dino) /\ pc' = pc
    BY <1>4 DEF MakeDir
  <2> QED
    BY <1>1, <2>1, <2>2 DEF Atomic!Next, Atomic!MakeDir
<1>5. CASE FlushDir
  <2>1. View(ddir, dino)' = View(dir, dino) /\ View(dir, ino)' = View(dir, ino) /\ pc' = pc
    BY <1>5 DEF FlushDir
  <2>2. View(dir, dino) = View(dir, ino)
    BY DiskView DEF IInv, TypeOK, Names
  <2> QED
    BY <1>1, <2>1, <2>2 DEF Atomic!Next, Atomic!Flush
<1>6. CASE PowerLoss
  <2>1. View(dir, ino)' = View(ddir, dino) /\ View(ddir, dino)' = View(ddir, dino)
    BY <1>6 DEF PowerLoss
  <2>2. [w \in Writers |-> Outcome(w)]' = [w \in Writers |-> "dead"]
    BY <1>6 DEF PowerLoss, Outcome, Running
  <2> QED
    BY <2>1, <2>2 DEF Atomic!Next, Atomic!PowerLoss
<1> QED
  BY <1>2, <1>3, <1>4, <1>5, <1>6 DEF Next

LEMMA NextRefines == IInv /\ [Next]_vars => [Atomic!Next]_(Atomic!vars)
<1> SUFFICES ASSUME IInv, [Next]_vars PROVE [Atomic!Next]_(Atomic!vars)
  OBVIOUS
<1>1. CASE UNCHANGED vars
  BY <1>1 DEF vars, Atomic!vars, Outcome
<1>2. CASE Next
  BY <1>2, CallRefines, OtherRefines
<1> QED
  BY <1>1, <1>2

\* write, system call by system call, with every failure, kill and power
\* failure, is an atomic replacement of the file.
THEOREM Refinement == Spec => ImplementsAtomicFile
BY InitRefines, NextRefines, IInvAlways, PTL DEF Spec, ImplementsAtomicFile, Atomic!Spec

=============================================================================
