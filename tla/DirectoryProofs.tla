-------------------------- MODULE DirectoryProofs --------------------------
(***************************************************************************)
(* For any specs, options, processes and bounds: what runs of --spec leave *)
(* in the output directory.                                                *)
(*                                                                         *)
(* A run that nothing overlaps knows its entry's files at each of its      *)
(* steps (EntryFiles): without --overwrite it generates only where there   *)
(* is neither certificate nor key, with --overwrite it has removed the     *)
(* other form of the key and of the .pfx before it writes its own.  What   *)
(* it has finished stays as it is (FinishedFiles), because a run uses a    *)
(* base name once.                                                         *)
(*                                                                         *)
(* What such a run leaves is what the same run reuses (ReuseInv), as long  *)
(* as nobody has deleted a file: deleting a certificate and its key leaves *)
(* the .pfx, which the next run in the other form does not remove.         *)
(***************************************************************************)
EXTENDS SpecRunProofs

\* The steps of an entry after its name is taken, and those that reuse its pair.
Named == Working \ {"enter"}
Reusing == {"statKey", "statCert", "readCert", "readKey", "check", "statReusedPFX", "readPFX"}

\* The base names of the entries before the one that a run is at.
Taken(p) == {CertSpec(p).filename[n] : n \in Before(p)}

\* An entry's name is new in its run.
NamesInv(p) ==
  /\ pc[p] = "idle" => filenames[p] = {}
  /\ pc[p] = "enter" => filenames[p] = Taken(p)
  /\ pc[p] \in Named => filenames[p] = Taken(p) \cup {Basename(p)} /\ Basename(p) \notin Taken(p)
  /\ pc[p] \in Reusing => ~Opt(p).overwrite
  /\ pc[p] \in {"rmKey", "rmPFX"} => Opt(p).overwrite

OneKeyFile(d, x) == x \in KeyForms /\ d[x] # Absent /\ \A y \in KeyForms \ {x} : d[y] = Absent
NoKeyFile(d) == \A x \in KeyForms : d[x] = Absent
\* The certificate and the key in d are those of pair k, the key in file x.
Written(d, k, x) == OneKeyFile(d, x) /\ d["crt"] = k.cert /\ d[x].key = k.key
\* With --overwrite, the form that the options do not write is gone.
Cleared(d, o, k) == o.overwrite => d[otherForm(o, k)] = Absent

\* The files d of the entry, when its run alone is at step l with pair k and
\* has found or written key file x.
EntryFiles(p, l, d, k, x) ==
  /\ l = "statCert" => IF x = "none" THEN NoKeyFile(d) ELSE OneKeyFile(d, x)
  /\ l = "readCert" => OneKeyFile(d, x) /\ d["crt"] # Absent
  /\ l = "readKey" => OneKeyFile(d, x) /\ d["crt"] = k.cert
  /\ l \in {"check", "statReusedPFX", "readPFX", "statPFX", "writePFX", "writeSSH", "next"} =>
       Written(d, k, x)
  /\ l \in {"generate", "writeCert"} /\ ~Opt(p).overwrite => d["crt"] = Absent /\ NoKeyFile(d)
  /\ l = "writeKey" => d["crt"] = k.cert /\ (~Opt(p).overwrite => NoKeyFile(d))
  /\ l \in {"rmPFX", "writeCert", "writeKey", "statPFX", "writePFX", "writeSSH", "next"} =>
       Cleared(d, Opt(p), "key")
  /\ l \in {"writeCert", "writeKey", "statPFX", "writePFX", "writeSSH", "next"} =>
       Cleared(d, Opt(p), "pfx")
  /\ l \in {"writeSSH", "next"} /\ MakesPFX(p) => \E y \in PFXForms : d[y] # Absent
  /\ l = "next" /\ Entry(p) \in CertSpec(p).sshPublicKey => \E y \in Pubs : d[y] = d["crt"].key

\* The files of an entry that a run alone has finished.
FinishedFiles(p, n) ==
  LET d == fs[CertSpec(p).filename[n]] IN
    /\ d["crt"] = mem[p][n].cert
    /\ \E x \in KeyForms : OneKeyFile(d, x) /\ d[x].key = d["crt"].key
    /\ n \in CertSpec(p).pfx => \E x \in PFXForms : d[x] # Absent
    /\ n \in CertSpec(p).sshPublicKey => \E x \in Pubs : d[x] = d["crt"].key
    /\ Cleared(d, Opt(p), "key") /\ Cleared(d, Opt(p), "pfx")

EntryDisk(p) == EntryFiles(p, pc[p], Dir(p), kp[p], keyPath[p])
Blocked(p) == pc[p] = "failed" /\ Opt(p).overwrite /\ why[p] = "existing"

\* What a run that nothing overlaps knows.
AloneInv(p) == alone[p] =>
  /\ pc[p] # "idle" /\ \A q \in Procs \ {p} : pc[q] = "idle"
  /\ pc[p] \in Working => EntryDisk(p)
  /\ pc[p] \in Working \cup {"done"} => \A n \in Finished(p) : FinishedFiles(p, n)
  /\ ~Blocked(p)

DirInv == \A p \in Procs : NamesInv(p) /\ AloneInv(p)

-----------------------------------------------------------------------------
(* What a step leaves alone.                                               *)

\* Nothing said of an entry changes with the others.
LEMMA NamesKept ==
  ASSUME NEW p \in Procs, SameEntry(p)
  PROVE  /\ Basename(p)' = Basename(p) /\ Taken(p)' = Taken(p) /\ MakesPFX(p)' = MakesPFX(p)
         /\ EntryDisk(p)' = EntryFiles(p, pc'[p], fs'[Basename(p)], kp'[p], keyPath'[p])
<1>1. CertSpec(p)' = CertSpec(p) /\ Opt(p)' = Opt(p) /\ Entry(p)' = Entry(p) /\ Before(p)' = Before(p)
  BY EntryKept
<1>2. Basename(p)' = Basename(p) /\ Taken(p)' = Taken(p) /\ MakesPFX(p)' = MakesPFX(p)
  BY <1>1 DEF Basename, Taken, MakesPFX
<1>3. EntryDisk(p)' = EntryFiles(p, pc'[p], fs'[Basename(p)], kp'[p], keyPath'[p])
  BY <1>1, <1>2 DEF EntryDisk, EntryFiles, Dir
<1> QED BY <1>2, <1>3

\* A step of a run within its entry: it changes the entry's files only.
Inside(p) ==
  /\ pc[p] \in Named /\ pc'[p] \in Named \cup {"failed"}
  /\ UNCHANGED <<world, local, pos, mem, filenames>>
  /\ \A q \in Procs \ {p} : Same(q) /\ why'[q] = why[q]
  /\ \A b \in Basenames : b # Basename(p) => fs'[b] = fs[b]
  /\ pc'[p] \in Reusing => ~Opt(p).overwrite
  /\ pc'[p] \in {"rmKey", "rmPFX"} => Opt(p).overwrite
\* What such a step has to show of the entry.
Leaves(p) ==
  /\ pc'[p] \in Working => EntryFiles(p, pc'[p], fs'[Basename(p)], kp'[p], keyPath'[p])
  /\ pc'[p] = "failed" => ~Opt(p).overwrite \/ why'[p] # "existing"

\* A step of one run is a step of one run: the others keep what they know.
LEMMA OthersKept ==
  ASSUME DirInv, NEW p \in Procs, NEW q \in Procs \ {p}, Same(q), filenames'[q] = filenames[q],
         alone'[q] => alone[q] /\ pc[p] # "idle"
  PROVE  NamesInv(q)' /\ AloneInv(q)'
<1>1. SameEntry(q) /\ pc'[q] = pc[q]
  BY DEF Same, SameEntry
<1>2. CertSpec(q)' = CertSpec(q) /\ Opt(q)' = Opt(q) /\ Finished(q)' = Finished(q)
  BY <1>1, EntryKept
<1>3. NamesInv(q)'
  BY <1>1, <1>2, NamesKept DEF DirInv, NamesInv, Entries
<1>4. ~alone'[q]
  BY DEF DirInv, AloneInv
<1> QED BY <1>3, <1>4 DEF AloneInv

\* What a run has finished stays when it works on another entry,
LEMMA FinishedStays ==
  ASSUME NEW p \in Procs, SameEntry(p), NEW n, FinishedFiles(p, n),
         fs'[CertSpec(p).filename[n]] = fs[CertSpec(p).filename[n]]
  PROVE  FinishedFiles(p, n)'
<1>1. CertSpec(p)' = CertSpec(p) /\ Opt(p)' = Opt(p) /\ mem'[p] = mem[p]
  BY EntryKept DEF SameEntry
<1> QED BY <1>1 DEF FinishedFiles

\* so such a step keeps the invariant.
LEMMA InsideKeeps ==
  ASSUME IInv, DirInv, NEW p \in Procs, Inside(p), alone[p] => Leaves(p)
  PROVE  DirInv'
<1>1. SameEntry(p) /\ alone' = alone /\ filenames' = filenames
  BY DEF Inside, SameEntry, local
<1>2. ASSUME NEW q \in Procs \ {p} PROVE NamesInv(q)' /\ AloneInv(q)'
  <2>1. pc[p] # "idle" /\ Same(q)
    BY DEF Inside, Named, Working
  <2> QED BY <1>1, <2>1, OthersKept
<1>3. NamesInv(p)'
  <2>1. pc'[p] \notin {"idle", "enter", "done"}
    BY DEF Inside, Named, Working
  <2>2. /\ CertSpec(p)' = CertSpec(p) /\ Opt(p)' = Opt(p)
        /\ Basename(p)' = Basename(p) /\ Taken(p)' = Taken(p)
    BY <1>1, EntryKept, NamesKept
  <2> QED BY <1>1, <2>1, <2>2 DEF DirInv, NamesInv, Inside, Named
<1>4. ASSUME alone[p] PROVE AloneInv(p)'
  <2>1. pc'[p] # "idle" /\ \A q \in Procs \ {p} : pc'[q] = "idle"
    BY <1>4 DEF DirInv, AloneInv, Inside, Named, Working, Same
  <2>2. pc'[p] \in Working => EntryDisk(p)'
    BY <1>1, <1>4, NamesKept DEF Leaves
  <2>3. ASSUME NEW n \in Finished(p) PROVE FinishedFiles(p, n)'
    <3>1. pc[p] \in Working /\ Finished(p) = Before(p)
      BY DEF Inside, Named, IInv, MemInv
    <3>2. FinishedFiles(p, n)
      BY <1>4, <3>1 DEF DirInv, AloneInv
    <3>3. CertSpec(p).filename[n] \in Basenames /\ CertSpec(p).filename[n] # Basename(p)
      <4>1. n \in Nodes /\ CertSpec(p).filename \in [Nodes -> Basenames]
        BY EntryTyped DEF Finished, IInv, CertificateSpec
      <4>2. CertSpec(p).filename[n] \in Taken(p)
        BY <3>1 DEF Taken
      <4> QED BY <4>1, <4>2 DEF DirInv, NamesInv, Inside
    <3> QED BY <1>1, <3>2, <3>3, FinishedStays DEF Inside
  <2>4. Finished(p)' = Finished(p) /\ Opt(p)' = Opt(p)
    BY <1>1, EntryKept
  <2>5. ~Blocked(p)'
    BY <1>4, <2>4 DEF Leaves, Blocked
  <2> QED BY <2>1, <2>2, <2>3, <2>4, <2>5 DEF AloneInv
<1>5. AloneInv(p)'
  BY <1>1, <1>4 DEF AloneInv
<1> QED BY <1>2, <1>3, <1>5 DEF DirInv

-----------------------------------------------------------------------------
(* The steps within an entry.                                              *)

\* What the run knows of the entry's files before such a step.
LEMMA AtHand ==
  ASSUME IInv, DirInv, NEW p \in Procs, pc[p] \in Named
  PROVE  /\ pc \in [Procs -> Idle \cup Ended \cup Working] /\ Basename(p) \in Basenames
         /\ kp[p] \in KeyPair \cup {NoPair} /\ keyPath[p] \in KeyForms \cup {"none"}
         /\ kp \in [Procs -> KeyPair \cup {NoPair}]
         /\ DOMAIN keyPath = Procs /\ DOMAIN pfxPath = Procs /\ DOMAIN why = Procs
         /\ fs[Basename(p)] = Dir(p)
         /\ pc[p] \in Reusing => ~Opt(p).overwrite
         /\ pc[p] \in {"rmKey", "rmPFX"} => Opt(p).overwrite
         /\ alone[p] => EntryFiles(p, pc[p], Dir(p), kp[p], keyPath[p])
<1>1. TypeOK
  BY DEF IInv
<1> QED BY <1>1, EntryTyped DEF TypeOK, DirInv, NamesInv, AloneInv, Named, EntryDisk, Dir

\* Which form of the key is there, if any.
LEMMA StatKeyInside ==
  ASSUME IInv, DirInv, NEW p \in Procs, StatKey(p)
  PROVE  Inside(p) /\ (alone[p] => Leaves(p))
<1>1. pc[p] \in Named
  BY DEF StatKey, Named, Working
<1>2. Inside(p)
  BY <1>1, AtHand DEF StatKey, Inside, Goto, Fail, Same, local, entry, Named, Working, Reusing
<1>3. ASSUME alone[p] PROVE Leaves(p)
  BY <1>1, <1>3, AtHand
  DEF StatKey, Leaves, Goto, Fail, EntryFiles, existingPrivateFile, Encrypted, OneKeyFile, NoKeyFile,
      KeyForms, Named, Working, Reusing
<1> QED BY <1>2, <1>3

\* With both halves the pair is reused, with neither it is generated.
LEMMA StatCertInside ==
  ASSUME IInv, DirInv, NEW p \in Procs, StatCert(p)
  PROVE  Inside(p) /\ (alone[p] => Leaves(p))
<1>1. pc[p] \in Named
  BY DEF StatCert, Named, Working
<1>2. Inside(p)
  BY <1>1, AtHand DEF StatCert, Inside, Goto, Fail, Same, local, entry, Named, Working, Reusing
<1>3. ASSUME alone[p] PROVE Leaves(p)
  BY <1>1, <1>3, AtHand
  DEF StatCert, Leaves, Goto, Fail, entry, EntryFiles, Working, Reusing
<1> QED BY <1>2, <1>3

\* The pair at hand has the certificate of the file,
LEMMA ReadCertInside ==
  ASSUME IInv, DirInv, NEW p \in Procs, ReadCert(p)
  PROVE  Inside(p) /\ (alone[p] => Leaves(p))
<1>1. pc[p] \in Named
  BY DEF ReadCert, Named, Working
<1>2. Inside(p)
  BY <1>1, AtHand DEF ReadCert, Inside, Goto, Fail, Same, local, entry, Named, Working, Reusing
<1>3. ASSUME alone[p] PROVE Leaves(p)
  BY <1>1, <1>3, AtHand
  DEF ReadCert, Leaves, Goto, Fail, EntryFiles, Working, Reusing
<1> QED BY <1>2, <1>3

\* and then the key of the key file.
LEMMA ReadKeyInside ==
  ASSUME IInv, DirInv, NEW p \in Procs, ReadKey(p)
  PROVE  Inside(p) /\ (alone[p] => Leaves(p))
<1>1. pc[p] \in Named /\ kp[p] \in KeyPair
  BY DEF ReadKey, Named, Working, IInv, EntryInv, Holding
<1>2. Inside(p)
  BY <1>1, AtHand DEF ReadKey, Inside, Goto, Fail, Same, local, entry, Named, Working, Reusing
<1>3. ASSUME alone[p] PROVE Leaves(p)
  <2>1. pc'[p] = "failed" \/ pc'[p] = "check"
    BY <1>1, AtHand DEF ReadKey, Goto, Fail
  <2>2. ASSUME pc'[p] = "check"
        PROVE  kp'[p].cert = kp[p].cert /\ kp'[p].key = Dir(p)[keyPath[p]].key
               /\ keyPath' = keyPath /\ fs' = fs
    BY <1>1, <2>2, AtHand DEF ReadKey, Goto, Fail, KeyPair
  <2> QED BY <1>1, <1>3, <2>1, <2>2, AtHand
    DEF ReadKey, Leaves, EntryFiles, Written, Working, Reusing
<1> QED BY <1>2, <1>3

\* The pair passes or the run fails.
LEMMA CheckReusedInside ==
  ASSUME IInv, DirInv, NEW p \in Procs, CheckReused(p)
  PROVE  Inside(p) /\ (alone[p] => Leaves(p))
<1>1. pc[p] \in Named
  BY DEF CheckReused, Named, Working
<1>2. Inside(p)
  BY <1>1, AtHand
  DEF CheckReused, Inside, Goto, Fail, Same, local, entry, Named, Working, Reusing, AfterPFX
<1>3. ASSUME alone[p] PROVE Leaves(p)
  <2>1. pc'[p] \in {"failed", "statReusedPFX", "writeSSH", "next"}
    BY <1>1, AtHand DEF CheckReused, Goto, Fail, AfterPFX
  <2>2. /\ pc'[p] \in {"writeSSH", "next"} => ~MakesPFX(p)
        /\ pc'[p] = "next" => Entry(p) \notin CertSpec(p).sshPublicKey
    BY <1>1, AtHand DEF CheckReused, Goto, Fail, AfterPFX
  <2> QED BY <1>1, <1>3, <2>1, <2>2, AtHand
    DEF CheckReused, Leaves, EntryFiles, Cleared, Working, Reusing
<1> QED BY <1>2, <1>3

\* A reused pair's .pfx is looked for.
LEMMA StatReusedPFXInside ==
  ASSUME IInv, DirInv, NEW p \in Procs, StatReusedPFX(p)
  PROVE  Inside(p) /\ (alone[p] => Leaves(p))
<1>1. pc[p] \in Named /\ kp[p] \in KeyPair
  BY DEF StatReusedPFX, Named, Working, IInv, EntryInv, Holding, Passed
<1>2. Inside(p)
  BY <1>1, AtHand DEF StatReusedPFX, Inside, Goto, Fail, Same, local, entry, Named, Working, Reusing
<1>3. ASSUME alone[p] PROVE Leaves(p)
  <2>1. pc'[p] \in {"failed", "statPFX", "readPFX"}
    BY <1>1, AtHand DEF StatReusedPFX, Goto, Fail
  <2>2. kp'[p].cert = kp[p].cert /\ kp'[p].key = kp[p].key /\ keyPath' = keyPath /\ fs' = fs
    BY <1>1, AtHand DEF StatReusedPFX, KeyPair
  <2>3. Written(Dir(p), kp[p], keyPath[p]) /\ ~Opt(p).overwrite
    BY <1>1, <1>3, AtHand DEF StatReusedPFX, EntryFiles, Reusing
  <2> QED BY <1>1, <2>1, <2>2, <2>3, AtHand DEF Leaves, EntryFiles, Written, Cleared
<1> QED BY <1>2, <1>3

\* Reading it changes neither key nor certificate.
LEMMA ReadPFXInside ==
  ASSUME IInv, DirInv, NEW p \in Procs, ReadPFX(p)
  PROVE  Inside(p) /\ (alone[p] => Leaves(p))
<1>1. pc[p] \in Named /\ kp[p] \in KeyPair
  BY DEF ReadPFX, Named, Working, IInv, EntryInv, Holding, Passed
<1>2. Inside(p)
  BY <1>1, AtHand DEF ReadPFX, Inside, Goto, Fail, Same, local, entry, Named, Working, Reusing
<1>3. ASSUME alone[p] PROVE Leaves(p)
  <2>1. pc'[p] \in {"failed", "statPFX"}
    BY <1>1, AtHand DEF ReadPFX, Goto, Fail
  <2>2. kp'[p].cert = kp[p].cert /\ kp'[p].key = kp[p].key /\ keyPath' = keyPath /\ fs' = fs
    BY <1>1, AtHand DEF ReadPFX, KeyPair
  <2>3. Written(Dir(p), kp[p], keyPath[p]) /\ ~Opt(p).overwrite
    BY <1>1, <1>3, AtHand DEF ReadPFX, EntryFiles, Reusing
  <2> QED BY <1>1, <2>1, <2>2, <2>3, AtHand DEF Leaves, EntryFiles, Written, Cleared
<1> QED BY <1>2, <1>3

\* A new pair: nothing is written yet.
LEMMA GenerateInside ==
  ASSUME IInv, DirInv, NEW p \in Procs, Generate(p)
  PROVE  Inside(p) /\ (alone[p] => Leaves(p))
<1>1. pc[p] \in Named
  BY DEF Generate, Named, Working
<1>2. Inside(p)
  BY <1>1, AtHand DEF Generate, Inside, Goto, Same, local, Named, Working, Reusing
<1>3. ASSUME alone[p] PROVE Leaves(p)
  <2>1. pc'[p] = IF Opt(p).overwrite THEN "rmKey" ELSE "writeCert"
    BY <1>1, AtHand DEF Generate, Goto
  <2>2. fs' = fs /\ (~Opt(p).overwrite => Dir(p)["crt"] = Absent /\ NoKeyFile(Dir(p)))
    BY <1>1, <1>3, AtHand DEF Generate, EntryFiles
  <2>3. CASE Opt(p).overwrite
    BY <2>1, <2>3 DEF Leaves, EntryFiles
  <2>4. CASE ~Opt(p).overwrite
    <3>1. Cleared(Dir(p), Opt(p), "key") /\ Cleared(Dir(p), Opt(p), "pfx")
      BY <2>4 DEF Cleared
    <3> QED BY <1>1, <2>1, <2>2, <2>4, <3>1, AtHand DEF Leaves, EntryFiles
  <2> QED BY <2>3, <2>4
<1> QED BY <1>2, <1>3

\* Or none.
LEMMA GenerateFailsInside ==
  ASSUME IInv, DirInv, NEW p \in Procs, GenerateFails(p)
  PROVE  Inside(p) /\ (alone[p] => Leaves(p))
<1>1. pc[p] \in Named
  BY DEF GenerateFails, Named, Working
<1>2. Inside(p)
  BY <1>1, AtHand DEF GenerateFails, Inside, Goto, Fail, Same, local, entry, Named, Working, Reusing
<1>3. Leaves(p)
  BY <1>1, AtHand DEF GenerateFails, Leaves, Goto, Fail, Working
<1> QED BY <1>2, <1>3

\* The other form of the key goes,
LEMMA RemoveKeyInside ==
  ASSUME IInv, DirInv, NEW p \in Procs, RemoveKey(p)
  PROVE  Inside(p) /\ (alone[p] => Leaves(p))
<1> DEFINE x == otherForm(Opt(p), "key")
<1>1. pc[p] \in Named /\ x \in Extensions
  BY DEF RemoveKey, Named, Working, otherForm, Encrypted, Extensions, KeyForms
<1>2. /\ \A b \in Basenames : b # Basename(p) => fs'[b] = fs[b]
      /\ fs'[Basename(p)][x] = Absent
  BY <1>1, PutAt DEF RemoveKey, IInv
<1>3. Inside(p)
  BY <1>1, <1>2, AtHand DEF RemoveKey, Inside, Goto, Same, local, entry, Named, Working, Reusing
<1>4. Leaves(p)
  <2>1. pc'[p] = "rmPFX"
    BY <1>1, AtHand DEF RemoveKey, Goto
  <2> QED BY <1>2, <2>1 DEF Leaves, EntryFiles, Cleared
<1> QED BY <1>3, <1>4

\* and that of the .pfx.
LEMMA RemovePFXInside ==
  ASSUME IInv, DirInv, NEW p \in Procs, RemovePFX(p)
  PROVE  Inside(p) /\ (alone[p] => Leaves(p))
<1> DEFINE x == otherForm(Opt(p), "pfx")
           y == otherForm(Opt(p), "key")
<1>1. pc[p] \in Named /\ x \in Extensions /\ y \in Extensions /\ x # y
  BY DEF RemovePFX, Named, Working, otherForm, Encrypted, Extensions, KeyForms, PFXForms
<1>2. /\ \A b \in Basenames : b # Basename(p) => fs'[b] = fs[b]
      /\ fs'[Basename(p)][x] = Absent /\ fs'[Basename(p)][y] = Dir(p)[y]
  BY <1>1, PutAt DEF RemovePFX, IInv
<1>3. Inside(p)
  BY <1>1, <1>2, AtHand DEF RemovePFX, Inside, Goto, Same, local, entry, Named, Working, Reusing
<1>4. ASSUME alone[p] PROVE Leaves(p)
  <2>1. pc'[p] = "writeCert" /\ Opt(p).overwrite
    BY <1>1, AtHand DEF RemovePFX, Goto
  <2>2. Cleared(Dir(p), Opt(p), "key")
    BY <1>1, <1>4, AtHand DEF RemovePFX, EntryFiles
  <2> QED BY <1>2, <2>1, <2>2 DEF Leaves, EntryFiles, Cleared
<1> QED BY <1>3, <1>4

\* The certificate is written; the keys are as they were.
LEMMA WriteCertInside ==
  ASSUME IInv, DirInv, NEW p \in Procs, WriteCert(p)
  PROVE  Inside(p) /\ (alone[p] => Leaves(p))
<1>1. pc[p] \in Named /\ "crt" \in Extensions /\ Opt(p) \in SpecOptions
  BY EntryTyped DEF WriteCert, Named, Working, Extensions, IInv
<1>2. /\ \A b \in Basenames : b # Basename(p) => fs'[b] = fs[b]
      /\ \A y \in Extensions : fs'[Basename(p)][y] = IF y = "crt" THEN kp[p].cert ELSE Dir(p)[y]
  BY <1>1, PutAt DEF WriteCert, IInv
<1>3. Inside(p)
  BY <1>1, <1>2, AtHand DEF WriteCert, Inside, Goto, Same, local, entry, Named, Working, Reusing
<1>4. ASSUME alone[p] PROVE Leaves(p)
  <2>1. pc'[p] = "writeKey" /\ kp' = kp /\ keyPath' = keyPath
    BY <1>1, AtHand DEF WriteCert, Goto, entry
  <2>2. /\ ~Opt(p).overwrite => NoKeyFile(Dir(p))
        /\ Cleared(Dir(p), Opt(p), "key") /\ Cleared(Dir(p), Opt(p), "pfx")
    BY <1>1, <1>4, AtHand DEF WriteCert, EntryFiles
  <2>3. /\ fs'[Basename(p)]["crt"] = kp'[p].cert
        /\ ~Opt(p).overwrite => NoKeyFile(fs'[Basename(p)])
        /\ Cleared(fs'[Basename(p)], Opt(p), "key") /\ Cleared(fs'[Basename(p)], Opt(p), "pfx")
    BY <1>1, <1>2, <2>1, <2>2, Names DEF NoKeyFile, Cleared
  <2> QED BY <2>1, <2>3 DEF Leaves, EntryFiles
<1> QED BY <1>3, <1>4

\* The key is written, in the only form there is.
LEMMA WriteKeyInside ==
  ASSUME IInv, DirInv, NEW p \in Procs, WriteKey(p)
  PROVE  Inside(p) /\ (alone[p] => Leaves(p))
<1> DEFINE x == path(Opt(p), "key")
           f == [key |-> kp[p].key, to |-> Opt(p).to]
<1>1. /\ pc[p] \in Named /\ x \in KeyForms /\ x \in Extensions /\ Opt(p) \in SpecOptions
      /\ kp[p] \in KeyPair
  BY EntryTyped, Names DEF WriteKey, Named, Working, IInv, EntryInv, Holding, Passed
<1>2. Put(p, x, f)
  BY DEF WriteKey
<1>3. /\ \A b \in Basenames : b # Basename(p) => fs'[b] = fs[b]
      /\ \A y \in Extensions : fs'[Basename(p)][y] = IF y = x THEN f ELSE Dir(p)[y]
  BY <1>1, <1>2, PutAt DEF IInv
<1>4. pc'[p] \in {"statPFX", "writeSSH", "next"} /\ kp' = kp /\ keyPath'[p] = x
  BY <1>1, AtHand DEF WriteKey, Goto, AfterPFX
<1>5. Inside(p)
  BY <1>1, <1>3, <1>4, AtHand
  DEF WriteKey, Inside, Goto, Same, local, entry, Named, Working, Reusing
<1>6. ASSUME alone[p] PROVE Leaves(p)
  <2>1. /\ Dir(p)["crt"] = kp[p].cert
        /\ ~Opt(p).overwrite => NoKeyFile(Dir(p))
        /\ Cleared(Dir(p), Opt(p), "key") /\ Cleared(Dir(p), Opt(p), "pfx")
    BY <1>1, <1>6, AtHand DEF WriteKey, EntryFiles
  <2>2. Dir(p)[otherForm(Opt(p), "key")] = Absent
    BY <1>1, <2>1, Names DEF NoKeyFile, Cleared
  <2>3. f # Absent
    <3>1. f \in PrivateFile
      BY <1>1 DEF PrivateFile, KeyPair, SpecOptions
    <3> QED BY <3>1, SentinelAssumption
  <2> DEFINE d == fs'[Basename(p)]
  <2>4. d["crt"] = kp[p].cert /\ d[x] = f /\ d[otherForm(Opt(p), "key")] = Absent
    BY <1>1, <1>3, <2>1, <2>2, Names
  <2>5. Cleared(d, Opt(p), "key") /\ Cleared(d, Opt(p), "pfx")
    BY <1>1, <1>3, <2>1, <2>4, Names DEF Cleared
  <2>6. Written(d, kp'[p], keyPath'[p])
    <3> HIDE DEF d
    <3>1. OneKeyFile(d, x)
      BY <1>1, <2>3, <2>4, Names DEF OneKeyFile
    <3> QED BY <1>4, <2>4, <3>1 DEF Written
  <2>7. /\ pc'[p] \in {"writeSSH", "next"} => ~MakesPFX(p)
        /\ pc'[p] = "next" => Entry(p) \notin CertSpec(p).sshPublicKey
    BY <1>1, AtHand DEF WriteKey, Goto, AfterPFX
  <2> HIDE DEF d
  <2>8. EntryFiles(p, pc'[p], d, kp'[p], keyPath'[p])
    BY <1>4, <2>5, <2>6, <2>7 DEF EntryFiles
  <2> QED BY <1>4, <2>8 DEF Leaves, d
<1> QED BY <1>5, <1>6

\* With --overwrite the .pfx is never there in both forms.
LEMMA StatPFXInside ==
  ASSUME IInv, DirInv, NEW p \in Procs, StatPFX(p)
  PROVE  Inside(p) /\ (alone[p] => Leaves(p))
<1> DEFINE x == existingPrivateFile(Dir(p), "pfx")
<1>1. pc[p] \in Named /\ Opt(p) \in SpecOptions
  BY EntryTyped DEF StatPFX, Named, Working, IInv
<1>2. pc'[p] \in {"failed", "writePFX", "writeSSH", "next"} /\ UNCHANGED <<fs, kp, keyPath>>
  BY <1>1, AtHand DEF StatPFX, Goto, Fail, AfterPFX, entry
<1>3. Inside(p)
  BY <1>1, <1>2, AtHand DEF StatPFX, Inside, Goto, Fail, Same, local, entry, Named, Working, Reusing
<1>4. ASSUME alone[p] PROVE Leaves(p)
  <2>1. /\ Written(Dir(p), kp[p], keyPath[p])
        /\ Cleared(Dir(p), Opt(p), "key") /\ Cleared(Dir(p), Opt(p), "pfx")
    BY <1>1, <1>4, AtHand DEF StatPFX, EntryFiles
  <2>2. /\ pc'[p] \in {"writeSSH", "next"} => x \in {"pfx", "pfx.age"} /\ Dir(p)[x] # Absent
        /\ pc'[p] = "next" => Entry(p) \notin CertSpec(p).sshPublicKey
    BY <1>1, AtHand DEF StatPFX, Goto, Fail, AfterPFX, existingPrivateFile, Encrypted
  <2>3. pc'[p] \in {"writeSSH", "next"} => \E y \in PFXForms : Dir(p)[y] # Absent
    BY <2>2 DEF PFXForms
  <2>4. pc'[p] = "failed" => ~Opt(p).overwrite
    <3>1. pc'[p] = "failed" => Dir(p)["pfx"] # Absent /\ Dir(p)["pfx.age"] # Absent
      BY <1>1, AtHand DEF StatPFX, Goto, Fail, AfterPFX, existingPrivateFile, Encrypted
    <3> QED BY <2>1, <3>1 DEF Cleared, otherForm, Encrypted
  <2>5. pc'[p] # "failed" => EntryFiles(p, pc'[p], Dir(p), kp[p], keyPath[p])
    BY <1>2, <2>1, <2>2, <2>3 DEF EntryFiles
  <2> QED BY <1>1, <1>2, <2>4, <2>5, AtHand DEF Leaves, Working
<1> QED BY <1>3, <1>4

\* Neither the .pfx
LEMMA WritePFXInside ==
  ASSUME IInv, DirInv, NEW p \in Procs, WritePFX(p)
  PROVE  Inside(p) /\ (alone[p] => Leaves(p))
<1> DEFINE x == path(Opt(p), "pfx")
           f == [key |-> kp[p].pfx, to |-> Opt(p).to]
<1>1. /\ pc[p] \in Named /\ x \in PFXForms /\ x \in Extensions /\ Opt(p) \in SpecOptions
      /\ kp[p] \in KeyPair
  BY EntryTyped, Names DEF WritePFX, Named, Working, IInv, EntryInv, Holding, Passed
<1>2. Put(p, x, f)
  BY DEF WritePFX
<1>3. /\ \A b \in Basenames : b # Basename(p) => fs'[b] = fs[b]
      /\ \A y \in Extensions : fs'[Basename(p)][y] = IF y = x THEN f ELSE Dir(p)[y]
  BY <1>1, <1>2, PutAt DEF IInv
<1>4. pc'[p] \in {"writeSSH", "next"} /\ kp' = kp /\ keyPath' = keyPath
  BY <1>1, AtHand DEF WritePFX, Goto, AfterPFX, entry
<1>5. Inside(p)
  BY <1>1, <1>3, <1>4, AtHand
  DEF WritePFX, Inside, Goto, Same, local, entry, Named, Working, Reusing
<1>6. ASSUME alone[p] PROVE Leaves(p)
  <2>1. /\ Written(Dir(p), kp[p], keyPath[p])
        /\ Cleared(Dir(p), Opt(p), "key") /\ Cleared(Dir(p), Opt(p), "pfx")
    BY <1>1, <1>6, AtHand DEF WritePFX, EntryFiles
  <2>2. f # Absent
    <3>1. f \in PrivateFile
      BY <1>1 DEF PrivateFile, KeyPair, SpecOptions
    <3> QED BY <3>1, SentinelAssumption
  <2> DEFINE d == fs'[Basename(p)]
  <2>3. d[x] = f /\ \A y \in KeyForms \cup {"crt"} : d[y] = Dir(p)[y]
    BY <1>1, <1>3, Names
  <2>4. Cleared(d, Opt(p), "key") /\ Cleared(d, Opt(p), "pfx")
    BY <1>1, <1>3, <2>1, <2>3, Names DEF Cleared
  <2>5. Written(d, kp'[p], keyPath'[p])
    BY <1>4, <2>1, <2>3 DEF Written, OneKeyFile
  <2>6. pc'[p] = "next" => Entry(p) \notin CertSpec(p).sshPublicKey
    BY <1>1, AtHand DEF WritePFX, Goto, AfterPFX
  <2> HIDE DEF d
  <2>7. EntryFiles(p, pc'[p], d, kp'[p], keyPath'[p])
    BY <1>1, <1>4, <2>2, <2>3, <2>4, <2>5, <2>6 DEF EntryFiles
  <2> QED BY <1>4, <2>7 DEF Leaves, d
<1> QED BY <1>5, <1>6

\* nor the public key changes them.
LEMMA WriteSSHInside ==
  ASSUME IInv, DirInv, NEW p \in Procs, WriteSSH(p)
  PROVE  Inside(p) /\ (alone[p] => Leaves(p))
<1> DEFINE x == PublicHalf(keyPath[p])
<1>1. /\ pc[p] \in Named /\ x \in Pubs /\ x \in Extensions /\ Opt(p) \in SpecOptions
  BY EntryTyped DEF WriteSSH, Named, Working, IInv, PublicHalf, Pubs, Extensions
<1>2. Put(p, x, kp[p].cert.key)
  BY DEF WriteSSH
<1>3. /\ \A b \in Basenames : b # Basename(p) => fs'[b] = fs[b]
      /\ \A y \in Extensions : fs'[Basename(p)][y] = IF y = x THEN kp[p].cert.key ELSE Dir(p)[y]
  BY <1>1, <1>2, PutAt DEF IInv
<1>4. pc'[p] = "next" /\ kp' = kp /\ keyPath' = keyPath
  BY <1>1, AtHand DEF WriteSSH, Goto, entry
<1>5. Inside(p)
  BY <1>1, <1>3, <1>4, AtHand
  DEF WriteSSH, Inside, Goto, Same, local, entry, Named, Working, Reusing
<1>6. ASSUME alone[p] PROVE Leaves(p)
  <2>1. /\ Written(Dir(p), kp[p], keyPath[p])
        /\ Cleared(Dir(p), Opt(p), "key") /\ Cleared(Dir(p), Opt(p), "pfx")
        /\ MakesPFX(p) => \E y \in PFXForms : Dir(p)[y] # Absent
    BY <1>1, <1>6, AtHand DEF WriteSSH, EntryFiles
  <2> DEFINE d == fs'[Basename(p)]
  <2>2. /\ d[x] = kp[p].cert.key
        /\ \A y \in KeyForms \cup PFXForms \cup {"crt"} : d[y] = Dir(p)[y]
    BY <1>1, <1>3, Names
  <2>3. Cleared(d, Opt(p), "key") /\ Cleared(d, Opt(p), "pfx")
    BY <1>1, <2>1, <2>2, Names DEF Cleared
  <2>4. Written(d, kp'[p], keyPath'[p])
    BY <1>4, <2>1, <2>2 DEF Written, OneKeyFile
  <2>5. \E y \in Pubs : d[y] = d["crt"].key
    BY <1>1, <2>1, <2>2 DEF Written
  <2>6. MakesPFX(p) => \E y \in PFXForms : d[y] # Absent
    BY <2>1, <2>2
  <2> HIDE DEF d
  <2>7. EntryFiles(p, pc'[p], d, kp'[p], keyPath'[p])
    BY <1>4, <2>3, <2>4, <2>5, <2>6 DEF EntryFiles
  <2> QED BY <1>4, <2>7 DEF Leaves, d
<1> QED BY <1>5, <1>6

\* A failed file operation changes no file.
LEMMA IOFailsInside ==
  ASSUME IInv, DirInv, NEW p \in Procs, IOFails(p)
  PROVE  Inside(p) /\ (alone[p] => Leaves(p))
<1>1. pc[p] \in Named
  BY DEF IOFails, Named, Working
<1>2. Inside(p)
  BY <1>1, AtHand DEF IOFails, Inside, Goto, Fail, Same, local, entry, Named, Working, Reusing
<1>3. Leaves(p)
  BY <1>1, AtHand DEF IOFails, Leaves, Goto, Fail, Working
<1> QED BY <1>2, <1>3

-----------------------------------------------------------------------------
(* The steps between entries, and the beginning and the end of a run.      *)

\* A run takes the name of its next entry, which it has not used.
LEMMA EnterDir ==
  ASSUME IInv, DirInv, NEW p \in Procs, Enter(p)
  PROVE  DirInv'
<1>1. TypeOK /\ SameEntry(p) /\ alone' = alone /\ pc[p] \in Working /\ fs' = fs
  BY DEF IInv, Enter, SameEntry, local, Working
<1>2. ASSUME NEW q \in Procs \ {p} PROVE NamesInv(q)' /\ AloneInv(q)'
  <2>1. pc[p] # "idle" /\ Same(q) /\ filenames'[q] = filenames[q]
    BY <1>1 DEF Enter, Same, local, entry, Goto, Fail, Working, TypeOK
  <2> QED BY <1>1, <2>1, OthersKept
<1>3. /\ CertSpec(p)' = CertSpec(p) /\ Opt(p)' = Opt(p) /\ Finished(p)' = Finished(p)
      /\ Basename(p)' = Basename(p) /\ Taken(p)' = Taken(p)
  BY <1>1, EntryKept, NamesKept
<1>4. /\ pc'[p] \in {"failed", "generate", "statKey"}
      /\ pc'[p] = "generate" => Opt(p).overwrite
      /\ pc'[p] = "statKey" => ~Opt(p).overwrite
      /\ pc'[p] # "failed" => /\ Basename(p) \notin filenames[p]
                              /\ filenames'[p] = filenames[p] \cup {Basename(p)}
      /\ pc'[p] = "failed" => why'[p] # "existing"
  BY <1>1 DEF Enter, Goto, Fail, TypeOK
<1>5. NamesInv(p)'
  <2>1. filenames[p] = Taken(p)
    BY DEF DirInv, NamesInv, Enter
  <2> QED BY <1>3, <1>4, <2>1 DEF NamesInv, Named, Working, Reusing
<1>6. ASSUME alone[p] PROVE AloneInv(p)'
  <2>1. pc'[p] # "idle" /\ \A q \in Procs \ {p} : pc'[q] = "idle"
    BY <1>1, <1>4, <1>6 DEF DirInv, AloneInv, Enter, Goto, Fail, TypeOK
  <2>2. pc'[p] \in Working => EntryDisk(p)'
    <3>1. pc'[p] \in Working => EntryFiles(p, pc'[p], fs'[Basename(p)], kp'[p], keyPath'[p])
      BY <1>4 DEF EntryFiles, Working
    <3> QED BY <1>1, <3>1, NamesKept
  <2>3. ASSUME NEW n \in Finished(p) PROVE FinishedFiles(p, n)'
    <3>1. FinishedFiles(p, n)
      BY <1>1, <1>6 DEF DirInv, AloneInv
    <3> QED BY <1>1, <3>1, FinishedStays
  <2> QED BY <1>3, <1>4, <2>1, <2>2, <2>3 DEF AloneInv, Blocked
<1>7. AloneInv(p)'
  BY <1>1, <1>6 DEF AloneInv
<1> QED BY <1>2, <1>5, <1>7 DEF DirInv

\* A finished entry has its files, and its name is taken.
LEMMA NextEntryDir ==
  ASSUME IInv, DirInv, NEW p \in Procs, NextEntry(p)
  PROVE  DirInv'
<1>0. PICK e \in Nodes : e = Entry(p)
  BY EntryTyped DEF IInv
<1>1. /\ TypeOK /\ pc[p] = "next" /\ Finished(p) = Before(p) /\ kp[p] \in KeyPair
      /\ UNCHANGED <<fs, task, alone, filenames, why>>
      /\ \A q \in Procs \ {p} : Same(q)
  <2>1. Others(p)
    BY NextEntryKeeps DEF Keeps
  <2> QED BY <2>1 DEF NextEntry, IInv, MemInv, EntryInv, Holding, Passed, Working, local, Others
<1>2. /\ CertSpec(p)' = CertSpec(p) /\ Opt(p)' = Opt(p)
      /\ pos[p] \in 1..Len(CertSpec(p).order) /\ Len(CertSpec(p).order) \in Nat
      /\ CertSpec(p).filename \in [Nodes -> Basenames] /\ e = CertSpec(p).order[pos[p]]
  <2>1. CertSpec(p).order \in Seq(Nodes)
    BY <1>1, EntryTyped DEF CertificateSpec
  <2> QED BY <1>0, <1>1, <2>1, EntryTyped DEF CertSpec, Opt, CertificateSpec, Entry
<1>3. mem'[p][e] = kp[p] /\ \A n \in Nodes \ {e} : mem'[p][n] = mem[p][n]
  BY <1>0, <1>1 DEF NextEntry, TypeOK
<1>4. Finished(p)' = Finished(p) \cup {e} /\ e \notin Finished(p)
  <2>1. kp[p] # NoPair
    BY <1>1, SentinelAssumption
  <2> QED BY <1>0, <1>1, <1>3, <2>1, ParentBefore DEF Finished
<1>5. \/ pc'[p] = "enter" /\ pos'[p] = pos[p] + 1
      \/ pc'[p] = "done" /\ pos[p] = Len(CertSpec(p).order) /\ pos'[p] = pos[p]
  BY <1>1 DEF NextEntry, Goto, TypeOK
<1>6. ASSUME NEW q \in Procs \ {p} PROVE NamesInv(q)' /\ AloneInv(q)'
  <2>1. Same(q)
    BY <1>1
  <2> QED BY <1>1, <2>1, OthersKept
<1>7. NamesInv(p)'
  <2>1. filenames[p] = Taken(p) \cup {Basename(p)} /\ Basename(p) = CertSpec(p).filename[e]
    BY <1>0, <1>1 DEF DirInv, NamesInv, Named, Working, Basename
  <2>2. CASE pc'[p] = "enter"
    <3>1. 1..(pos'[p] - 1) = (1..(pos[p] - 1)) \cup {pos[p]}
      BY <1>2, <1>5, <2>2
    <3>2. Before(p)' = Before(p) \cup {e}
      BY <1>2, <3>1 DEF Before
    <3>3. Taken(p)' = Taken(p) \cup {CertSpec(p).filename[e]}
      BY <1>2, <3>2 DEF Taken
    <3> QED BY <1>1, <2>1, <2>2, <3>3 DEF NamesInv, Named, Reusing
  <2>3. CASE pc'[p] = "done"
    BY <2>3 DEF NamesInv, Named, Reusing, Working
  <2> QED BY <1>5, <2>2, <2>3
<1>8. ASSUME alone[p] PROVE AloneInv(p)'
  <2>1. pc'[p] # "idle" /\ \A q \in Procs \ {p} : pc'[q] = "idle"
    BY <1>1, <1>5, <1>8 DEF DirInv, AloneInv, Same
  <2>2. pc'[p] \in Working => EntryDisk(p)'
    BY <1>5 DEF EntryDisk, EntryFiles, Working
  <2>3. ASSUME NEW n \in Finished(p) PROVE FinishedFiles(p, n)'
    <3>1. FinishedFiles(p, n)
      BY <1>1, <1>8 DEF DirInv, AloneInv, Working
    <3>2. mem'[p][n] = mem[p][n]
      BY <1>3, <1>4 DEF Finished
    <3> QED BY <1>1, <1>2, <3>1, <3>2 DEF FinishedFiles
  <2>4. FinishedFiles(p, e)'
    <3>1. Dir(p) = fs[CertSpec(p).filename[e]]
      BY <1>0 DEF Dir, Basename
    <3>2. EntryFiles(p, "next", Dir(p), kp[p], keyPath[p])
      BY <1>1, <1>8, AtHand DEF Named, Working
    <3>3. Written(Dir(p), kp[p], keyPath[p])
      BY <3>2 DEF EntryFiles
    <3>4. kp[p].cert.key = kp[p].key
      BY <1>1 DEF IInv, EntryInv, Passed, Sound
    <3>5. \E x \in KeyForms : OneKeyFile(Dir(p), x) /\ Dir(p)[x].key = Dir(p)["crt"].key
      BY <3>3, <3>4 DEF Written, OneKeyFile
    <3>6. /\ e \in CertSpec(p).pfx => \E y \in PFXForms : Dir(p)[y] # Absent
          /\ e \in CertSpec(p).sshPublicKey => \E y \in Pubs : Dir(p)[y] = Dir(p)["crt"].key
          /\ Cleared(Dir(p), Opt(p), "key") /\ Cleared(Dir(p), Opt(p), "pfx")
      BY <1>0, <3>2 DEF EntryFiles, MakesPFX
    <3>7. Dir(p)["crt"] = mem'[p][e].cert
      BY <1>3, <3>3 DEF Written
    <3> QED BY <1>1, <1>2, <3>1, <3>5, <3>6, <3>7 DEF FinishedFiles
  <2>5. ~Blocked(p)'
    BY <1>5 DEF Blocked
  <2> QED BY <1>4, <2>1, <2>2, <2>3, <2>4, <2>5 DEF AloneInv
<1>9. AloneInv(p)'
  BY <1>1, <1>8 DEF AloneInv
<1> QED BY <1>6, <1>7, <1>9 DEF DirInv

\* A run begins with no name taken; it is alone when all others are idle.
LEMMA StartDir ==
  ASSUME IInv, DirInv, NEW p \in Procs, Start(p)
  PROVE  DirInv'
<1>1. /\ TypeOK /\ pc[p] = "idle" /\ pc'[p] = "enter" /\ pos'[p] = 1 /\ filenames' = filenames
      /\ alone' = [q \in Procs |-> q = p /\ \A r \in Procs : pc[r] = "idle"]
      /\ \A q \in Procs \ {p} : Same(q)
  <2>1. Others(p)
    BY StartKeeps DEF Keeps
  <2>2. TypeOK /\ pos[p] = 1
    BY DEF IInv, Start, MemInv
  <2> QED BY <2>1, <2>2 DEF Start, Goto, Others, TypeOK
<1>2. ASSUME NEW q \in Procs \ {p} PROVE NamesInv(q)' /\ AloneInv(q)'
  <2>1. Same(q) /\ ~alone'[q]
    BY <1>1
  <2> QED BY <1>1, <2>1, OthersKept
<1>3. Before(p)' = {} /\ Taken(p)' = {}
  BY <1>1 DEF Before, Taken
<1>4. NamesInv(p)'
  <2>1. filenames[p] = {}
    BY <1>1 DEF DirInv, NamesInv
  <2> QED BY <1>1, <1>3, <2>1 DEF NamesInv, Named, Reusing
<1>5. AloneInv(p)'
  <2>1. Finished(p)' = {}
    BY <1>1, <1>3, StartKeeps DEF Keeps, MemInv, Working
  <2>2. alone'[p] => \A q \in Procs \ {p} : pc'[q] = "idle"
    BY <1>1 DEF Same
  <2>3. EntryDisk(p)'
    BY <1>1 DEF EntryDisk, EntryFiles
  <2> QED BY <1>1, <2>1, <2>2, <2>3 DEF AloneInv, Blocked
<1> QED BY <1>2, <1>4, <1>5 DEF DirInv

\* A run that has ended or was killed has taken no name.
LEMMA ForgetDir ==
  ASSUME IInv, DirInv, NEW p \in Procs, Forget(p), Others(p), pc[p] # "idle"
  PROVE  DirInv'
<1>1. /\ TypeOK /\ pc'[p] = "idle" /\ filenames'[p] = {} /\ ~alone'[p]
      /\ \A q \in Procs \ {p} : filenames'[q] = filenames[q] /\ alone'[q] = alone[q]
  BY DEF IInv, Forget, Goto, TypeOK
<1>2. NamesInv(p)' /\ AloneInv(p)'
  BY <1>1 DEF NamesInv, AloneInv, Named, Working, Reusing
<1>3. ASSUME NEW q \in Procs \ {p} PROVE NamesInv(q)' /\ AloneInv(q)'
  <2>1. Same(q)
    BY DEF Others
  <2> QED BY <1>1, <2>1, OthersKept
<1> QED BY <1>2, <1>3 DEF DirInv

-----------------------------------------------------------------------------
(* The inductive invariant.                                                *)

\* No run has begun.
LEMMA InitDir == Init => DirInv
BY DEF Init, DirInv, NamesInv, AloneInv, Named, Working, Reusing

\* A step that leaves the runs alone keeps what they know of their entries,
\* when it leaves the files alone or comes between runs.
LEMMA BetweenRuns ==
  ASSUME IInv, DirInv, AllIdle \/ fs' = fs,
         UNCHANGED <<pc, task, alone, pos, filenames, mem, entry, why>>
  PROVE  DirInv'
<1>1. ASSUME NEW p \in Procs PROVE NamesInv(p)' /\ AloneInv(p)'
  <2>1. SameEntry(p) /\ pc' = pc /\ filenames' = filenames
    BY DEF SameEntry
  <2>2. /\ CertSpec(p)' = CertSpec(p) /\ Opt(p)' = Opt(p) /\ Finished(p)' = Finished(p)
        /\ Basename(p)' = Basename(p) /\ Taken(p)' = Taken(p)
        /\ EntryDisk(p)' = EntryFiles(p, pc'[p], fs'[Basename(p)], kp'[p], keyPath'[p])
    BY <2>1, EntryKept, NamesKept
  <2>3. NamesInv(p)'
    BY <2>1, <2>2 DEF DirInv, NamesInv, Entries
  <2>4. CASE AllIdle
    <3>1. ~alone[p]
      BY <2>4 DEF AllIdle, DirInv, AloneInv
    <3> QED BY <2>3, <3>1 DEF AloneInv
  <2>5. CASE fs' = fs
    <3>1. EntryDisk(p)' = EntryDisk(p)
      BY <2>2, <2>5 DEF EntryDisk, Dir, entry
    <3>2. \A n : FinishedFiles(p, n) => FinishedFiles(p, n)'
      BY <2>1, <2>5, FinishedStays
    <3>3. AloneInv(p)'
      BY <2>1, <2>2, <3>1, <3>2 DEF DirInv, AloneInv, Blocked
    <3> QED BY <2>3, <3>3
  <2> QED BY <2>4, <2>5
<1> QED BY <1>1 DEF DirInv

\* Every step keeps the invariant,
LEMMA StepDir == IInv /\ DirInv /\ [Next]_vars => DirInv'
<1> SUFFICES ASSUME IInv, DirInv, [Next]_vars PROVE DirInv'
  OBVIOUS
<1>1. ASSUME NEW p \in Procs, Step(p) PROVE DirInv'
  <2>1. CASE Enter(p) \/ NextEntry(p)
    BY <2>1, EnterDir, NextEntryDir
  <2>2. CASE ~(Enter(p) \/ NextEntry(p))
    <3>1. Inside(p) /\ (alone[p] => Leaves(p))
      BY <1>1, <2>2, StatKeyInside, StatCertInside, ReadCertInside, ReadKeyInside, CheckReusedInside,
         StatReusedPFXInside, ReadPFXInside, GenerateInside, GenerateFailsInside, RemoveKeyInside,
         RemovePFXInside, WriteCertInside, WriteKeyInside, StatPFXInside, WritePFXInside,
         WriteSSHInside, IOFailsInside DEF Step
    <3> QED BY <3>1, InsideKeeps
  <2> QED BY <2>1, <2>2
<1>2. ASSUME NEW p \in Procs, Start(p) PROVE DirInv'
  BY <1>2, StartDir
<1>3. ASSUME NEW p \in Procs, Exit(p) \/ Crash(p) PROVE DirInv'
  <2>1. Forget(p) /\ pc[p] # "idle"
    BY <1>3 DEF Exit, Crash, Working, Ended
  <2>2. Others(p)
    BY <1>3, ExitKeeps, CrashKeeps DEF Keeps
  <2> QED BY <2>1, <2>2, ForgetDir
<1>4. ASSUME NEW b \in Basenames, DeletePair(b) PROVE DirInv'
  BY <1>4, BetweenRuns DEF DeletePair, local
<1>5. ASSUME NEW b \in Basenames, NEW x \in Extensions, DeleteFile(b, x) PROVE DirInv'
  BY <1>5, BetweenRuns DEF DeleteFile, local
<1>6. CASE Tick
  BY <1>6, BetweenRuns DEF Tick, local
<1>7. CASE UNCHANGED vars
  BY <1>7, BetweenRuns DEF vars, local
<1> QED BY <1>1, <1>2, <1>3, <1>4, <1>5, <1>6, <1>7 DEF Next

\* so both always hold.
LEMMA DirInvariance == Spec => [](IInv /\ DirInv)
<1> QED BY InitDir, StepDir, InitIInv, StepIInv, PTL DEF Spec

-----------------------------------------------------------------------------
(* What a run that nothing overlaps leaves.                                *)

\* A run without --overwrite that nothing overlaps writes a certificate or a
\* key only where there is none.
LEMMA StepKeepsExisting ==
  ASSUME IInv, DirInv, NEW p \in Procs, Step(p), alone[p], ~Opt(p).overwrite,
         NEW b \in Basenames, NEW x \in {"crt"} \cup KeyForms, fs[b][x] # Absent
  PROVE  fs'[b][x] = fs[b][x]
<1>1. TypeOK /\ Opt(p) \in SpecOptions /\ x \in Extensions
  BY EntryTyped DEF IInv, Extensions
<1>2. CASE fs' = fs
  BY <1>2
<1>3. CASE WriteCert(p)
  <2>1. pc[p] = "writeCert" /\ pc[p] \in Named
    BY <1>3 DEF WriteCert, Named, Working
  <2>2. Dir(p)["crt"] = Absent
    BY <2>1, AtHand DEF EntryFiles
  <2>3. /\ b # Basename(p) => fs'[b] = fs[b]
        /\ fs'[Basename(p)][x] = IF x = "crt" THEN kp[p].cert ELSE Dir(p)[x]
    BY <1>1, <1>3, PutAt DEF WriteCert, Extensions
  <2> QED BY <2>2, <2>3 DEF Dir
<1>4. CASE WriteKey(p)
  <2>1. pc[p] = "writeKey" /\ pc[p] \in Named
    BY <1>4 DEF WriteKey, Named, Working
  <2>2. NoKeyFile(Dir(p)) /\ path(Opt(p), "key") \in KeyForms /\ path(Opt(p), "key") \in Extensions
    BY <1>1, <2>1, AtHand, Names DEF EntryFiles
  <2>3. /\ b # Basename(p) => fs'[b] = fs[b]
        /\ x # path(Opt(p), "key") => fs'[Basename(p)][x] = Dir(p)[x]
    BY <1>1, <1>4, <2>2, PutAt DEF WriteKey
  <2> QED BY <2>2, <2>3 DEF Dir, NoKeyFile
<1>5. CASE WritePFX(p)
  <2>1. path(Opt(p), "pfx") \in Extensions /\ x # path(Opt(p), "pfx")
    BY <1>1, Names
  <2> QED BY <1>1, <1>5, <2>1, PutAt DEF WritePFX, Dir
<1>6. CASE WriteSSH(p)
  <2>1. PublicHalf(keyPath[p]) \in Extensions /\ x # PublicHalf(keyPath[p])
    BY <1>1, Names DEF PublicHalf, Pubs
  <2>2. Put(p, PublicHalf(keyPath[p]), kp[p].cert.key)
    BY <1>6 DEF WriteSSH
  <2>3. /\ b # Basename(p) => fs'[b] = fs[b]
        /\ fs'[Basename(p)][x] = Dir(p)[x]
    BY <1>1, <2>1, <2>2, PutAt
  <2> QED BY <2>3 DEF Dir
<1>7. pc[p] \notin {"rmKey", "rmPFX"}
  BY DEF DirInv, NamesInv
<1> QED BY <1>2, <1>3, <1>4, <1>5, <1>6, <1>7
    DEF Step, Enter, StatKey, StatCert, ReadCert, ReadKey, CheckReused, StatReusedPFX, ReadPFX,
        Generate, GenerateFails, RemoveKey, RemovePFX, StatPFX, NextEntry, IOFails

\* docs/spec.md:329: without --overwrite, a certificate and key that exist are
\* kept, for as long as the run has the directory to itself.
THEOREM KeepsExisting == Spec => ExistingKept
<1> DEFINE Kept == \A p \in Procs : pc[p] \in Working /\ alone[p] /\ ~Opt(p).overwrite =>
                     \A b \in Basenames, x \in {"crt"} \cup KeyForms :
                       fs[b][x] # Absent => fs'[b][x] = fs[b][x]
<1>1. IInv /\ DirInv /\ [Next]_vars => Kept
  <2> SUFFICES ASSUME IInv, DirInv, [Next]_vars,
                      NEW p \in Procs, pc[p] \in Working, alone[p], ~Opt(p).overwrite,
                      NEW b \in Basenames, NEW x \in {"crt"} \cup KeyForms, fs[b][x] # Absent
               PROVE  fs'[b][x] = fs[b][x]
    OBVIOUS
  <2>1. CASE fs' = fs
    BY <2>1
  <2>2. ASSUME NEW q \in Procs, Step(q) PROVE fs'[b][x] = fs[b][x]
    <3>1. pc[q] # "idle"
      BY <2>2 DEF Step, Enter, StatKey, StatCert, ReadCert, ReadKey, CheckReused, StatReusedPFX, ReadPFX,
         Generate, GenerateFails, RemoveKey, RemovePFX, WriteCert, WriteKey, StatPFX, WritePFX,
         WriteSSH, NextEntry, IOFails
    <3>2. q = p
      BY <3>1 DEF DirInv, AloneInv
    <3> QED BY <2>2, <3>2, StepKeepsExisting
  <2>3. ~AllIdle
    BY DEF AllIdle, DirInv, AloneInv
  <2> QED BY <2>1, <2>2, <2>3
      DEF Next, Start, Exit, Crash, DeletePair, DeleteFile, Tick, vars
<1>2. IInv /\ DirInv /\ [Next]_vars => [Kept]_vars
  BY <1>1
<1> HIDE DEF Kept
<1>3. Spec => [][Kept]_vars
  BY <1>2, DirInvariance, PTL DEF Spec
<1> QED BY <1>3 DEF ExistingKept, Kept

\* A run that succeeds with no other run beside it leaves the hierarchy of the
\* spec on disk, whatever happened to the directory before: for each entry the
\* certificate it holds, one key file with that certificate's key, and the .pfx
\* and the public key that the spec asks for.
THEOREM LeavesHierarchy == Spec => []DoneConsistent
<1>1. IInv /\ DirInv => DoneConsistent
  <2> SUFFICES ASSUME IInv, DirInv, NEW p \in Procs, pc[p] = "done", alone[p],
                      NEW n \in Entries(CertSpec(p))
               PROVE  LET d == fs[CertSpec(p).filename[n]] IN
                        /\ n \in Finished(p) /\ d["crt"] = mem[p][n].cert
                        /\ \E x \in KeyForms : KeyFiles(p, n) = {x} /\ d[x].key = d["crt"].key
                        /\ n \in CertSpec(p).pfx => \E x \in PFXForms : d[x] # Absent
                        /\ n \in CertSpec(p).sshPublicKey => \E x \in Pubs : d[x] = d["crt"].key
    BY DEF DoneConsistent
  <2> DEFINE d == fs[CertSpec(p).filename[n]]
  <2>1. n \in Finished(p) /\ FinishedFiles(p, n)
    BY DEF IInv, MemInv, DirInv, AloneInv
  <2>2. PICK x \in KeyForms : OneKeyFile(d, x) /\ d[x].key = d["crt"].key
    BY <2>1 DEF FinishedFiles
  <2>3. KeyFiles(p, n) = {x}
    BY <2>2 DEF KeyFiles, OneKeyFile
  <2> QED BY <2>1, <2>2, <2>3 DEF FinishedFiles
<1> QED BY <1>1, DirInvariance, PTL

\* A run with --overwrite --encrypt-to that succeeds leaves no plain private key
\* or .pfx of its entries behind.
THEOREM LeavesNoPlaintext == Spec => []NoPlaintextLeft
<1>1. IInv /\ DirInv => NoPlaintextLeft
  BY DEF IInv, MemInv, DirInv, AloneInv, FinishedFiles, Cleared, otherForm, NoPlaintextLeft
<1> QED BY <1>1, DirInvariance, PTL

\* With --overwrite no run fails because of the files that are there, which is
\* what the error about files that cannot be reused advises.
THEOREM OverwriteAlwaysWorks == Spec => []OverwriteNeverBlocked
<1>1. DirInv => OverwriteNeverBlocked
  BY DEF DirInv, AloneInv, Blocked, OverwriteNeverBlocked
<1> QED BY <1>1, DirInvariance, PTL

-----------------------------------------------------------------------------
(* One form of each key.                                                   *)

\* No run overlaps another.
Solo == \A p \in Procs : pc[p] # "idle" => alone[p]

\* A run writes a key after the other form is gone, or where there is none.
LEMMA StepKeepsOneForm ==
  ASSUME IInv, DirInv, NEW p \in Procs, Step(p), alone[p], NEW b \in Basenames,
         NEW x \in KeyForms, fs[b][x] = Absent
  PROVE  \E y \in KeyForms : fs'[b][y] = Absent
<1>1. /\ TypeOK /\ Opt(p) \in SpecOptions /\ KeyForms \subseteq Extensions
      /\ PFXForms \subseteq Extensions /\ Pubs \subseteq Extensions /\ "crt" \in Extensions
      /\ KeyForms \cap PFXForms = {} /\ KeyForms \cap Pubs = {} /\ "crt" \notin KeyForms
  BY EntryTyped DEF IInv, Extensions, KeyForms, PFXForms, Pubs
<1>2. CASE fs' = fs
  BY <1>2
<1>3. ASSUME NEW y \in Extensions \ KeyForms, NEW f, Put(p, y, f) PROVE fs'[b][x] = Absent
  <2>1. /\ b # Basename(p) => fs'[b] = fs[b]
        /\ fs'[Basename(p)][x] = Dir(p)[x]
    BY <1>1, <1>3, PutAt
  <2> QED BY <2>1 DEF Dir
<1>4. CASE WriteKey(p)
  <2> DEFINE z == otherForm(Opt(p), "key")
  <2>1. pc[p] = "writeKey" /\ pc[p] \in Named
    BY <1>4 DEF WriteKey, Named, Working
  <2>2. path(Opt(p), "key") \in KeyForms /\ z \in KeyForms /\ z # path(Opt(p), "key")
    BY <1>1, Names
  <2>3. Dir(p)[z] = Absent
    <3>1. Cleared(Dir(p), Opt(p), "key") /\ (~Opt(p).overwrite => NoKeyFile(Dir(p)))
      BY <2>1, AtHand DEF EntryFiles
    <3> QED BY <2>2, <3>1 DEF Cleared, NoKeyFile
  <2>4. /\ b # Basename(p) => fs'[b] = fs[b]
        /\ fs'[Basename(p)][z] = Dir(p)[z]
    BY <1>1, <1>4, <2>2, PutAt DEF WriteKey
  <2> QED BY <2>2, <2>3, <2>4
<1>5. CASE RemoveKey(p)
  <2> DEFINE z == otherForm(Opt(p), "key")
  <2>1. z \in KeyForms /\ z \in Extensions
    BY <1>1, Names
  <2>2. /\ b # Basename(p) => fs'[b] = fs[b]
        /\ fs'[Basename(p)][z] = Absent
    BY <1>1, <1>5, <2>1, PutAt DEF RemoveKey
  <2> QED BY <2>1, <2>2
<1>6. CASE WriteCert(p)
  BY <1>1, <1>3, <1>6 DEF WriteCert
<1>7. CASE WritePFX(p) \/ RemovePFX(p)
  <2>1. path(Opt(p), "pfx") \in Extensions \ KeyForms /\ otherForm(Opt(p), "pfx") \in Extensions \ KeyForms
    BY <1>1, Names
  <2> QED BY <1>3, <1>7, <2>1 DEF WritePFX, RemovePFX
<1>8. CASE WriteSSH(p)
  <2>1. PublicHalf(keyPath[p]) \in Extensions \ KeyForms
    BY <1>1 DEF PublicHalf, Pubs
  <2>2. Put(p, PublicHalf(keyPath[p]), kp[p].cert.key)
    BY <1>8 DEF WriteSSH
  <2> QED BY <1>3, <2>1, <2>2
<1> QED BY <1>2, <1>4, <1>5, <1>6, <1>7, <1>8
    DEF Step, Enter, StatKey, StatCert, ReadCert, ReadKey, CheckReused, StatReusedPFX, ReadPFX,
        Generate, GenerateFails, StatPFX, NextEntry, IOFails

\* The user's deletions leave no more forms than there were.
LEMMA StepOneForm == IInv /\ DirInv /\ Solo /\ KeyOneForm /\ [Next]_vars => KeyOneForm'
<1> SUFFICES ASSUME IInv, DirInv, Solo, KeyOneForm, [Next]_vars, NEW b \in Basenames PROVE \E y \in KeyForms : fs'[b][y] = Absent
  BY DEF KeyOneForm
<1>1. PICK x \in KeyForms : fs[b][x] = Absent
  BY DEF KeyOneForm
<1>2. CASE fs' = fs
  BY <1>1, <1>2
<1>3. ASSUME NEW p \in Procs, Step(p) PROVE \E y \in KeyForms : fs'[b][y] = Absent
  <2>1. pc[p] # "idle"
    BY <1>3 DEF Step, Enter, StatKey, StatCert, ReadCert, ReadKey, CheckReused, StatReusedPFX, ReadPFX,
       Generate, GenerateFails, RemoveKey, RemovePFX, WriteCert, WriteKey, StatPFX, WritePFX,
       WriteSSH, NextEntry, IOFails
  <2>2. alone[p]
    BY <2>1 DEF Solo
  <2> QED BY <1>1, <1>3, <2>2, StepKeepsOneForm
<1>4. ASSUME NEW c \in Basenames, DeletePair(c) PROVE fs'[b][x] = Absent
  <2>1. x \in Extensions /\ DOMAIN fs = Basenames
    BY DEF IInv, TypeOK, Extensions
  <2> QED BY <1>1, <1>4, <2>1 DEF DeletePair
<1>5. ASSUME NEW c \in Basenames, NEW y \in Extensions, DeleteFile(c, y) PROVE fs'[b][x] = Absent
  <2>1. x \in Extensions /\ DOMAIN fs = Basenames /\ DOMAIN fs[c] = Extensions
    BY DEF IInv, TypeOK, Extensions
  <2> QED BY <1>1, <1>5, <2>1 DEF DeleteFile
<1> QED BY <1>1, <1>2, <1>3, <1>4, <1>5 DEF Next, Start, Exit, Crash, Tick, vars

\* docs/use-cases/encrypted-keys.md:53: as long as no run overlaps another, a
\* directory never holds both forms of a key, whatever the order of plain and
\* encrypting runs, with and without --overwrite, and wherever they are killed.
THEOREM KeepsOneForm == Spec /\ []Solo => []KeyOneForm
<1>1. Init => KeyOneForm
  BY DEF Init, KeyOneForm, KeyForms, Extensions
<1> QED BY <1>1, StepOneForm, DirInvariance, PTL DEF Spec

\* Runs of one process do not overlap, so that there is one form of each key.
THEOREM OneProcessOneForm ==
  ASSUME \A p, q \in Procs : p = q
  PROVE  Spec => []KeyOneForm
<1>1. Init => Solo
  BY DEF Init, Solo
<1>2. IInv /\ Solo /\ [Next]_vars => Solo'
  <2> SUFFICES ASSUME IInv, Solo, [Next]_vars, NEW p \in Procs, pc'[p] # "idle" PROVE alone'[p]
    BY DEF Solo
  <2>1. Procs = {p} /\ DOMAIN alone = Procs /\ DOMAIN pc = Procs
    BY DEF IInv, TypeOK
  <2>2. CASE Start(p)
    BY <2>1, <2>2 DEF Start
  <2>3. CASE Exit(p) \/ Crash(p)
    BY <2>1, <2>3 DEF Exit, Crash, Forget, Goto
  <2>4. CASE Step(p)
    <3>1. pc[p] # "idle" /\ alone' = alone
      BY <2>4 DEF Step, Enter, StatKey, StatCert, ReadCert, ReadKey, CheckReused, StatReusedPFX,
         ReadPFX, Generate, GenerateFails, RemoveKey, RemovePFX, WriteCert, WriteKey, StatPFX,
         WritePFX, WriteSSH, NextEntry, IOFails, local
    <3> QED BY <3>1 DEF Solo
  <2>5. CASE UNCHANGED <<pc, alone>>
    BY <2>5 DEF Solo
  <2> QED BY <2>1, <2>2, <2>3, <2>4, <2>5 DEF Next, DeletePair, DeleteFile, Tick, vars, local
<1>3. Spec => []Solo
  BY <1>1, <1>2, Invariance, PTL DEF Spec
<1> QED BY <1>3, KeepsOneForm, PTL

-----------------------------------------------------------------------------
(* Repeating a run.  While no file has been deleted, an entry's .pfx comes *)
(* after its certificate, so that a run that nothing overlaps and that     *)
(* succeeds leaves what a repetition of it reuses: one form of the key and *)
(* of the .pfx, which its identities open, below certificates that fit.    *)

\* What a run encrypts it can read.
CanRead(o) == o.to \in o.ids \cup {Plain}

NoPFXFile(d) == \A y \in PFXForms : d[y] = Absent
OnePFXFile(d, y) == y \in PFXForms /\ d[y] # Absent /\ \A z \in PFXForms \ {y} : d[z] = Absent
ReadablePFX(d, o) == \E y \in PFXForms : OnePFXFile(d, y) /\ Readable(o, d[y])

\* The steps of an entry that has a certificate in the directory.
AfterCert == {"readCert", "readKey", "check", "statReusedPFX", "readPFX", "writeKey", "statPFX",
              "writePFX", "writeSSH"}
CertFirst ==
  /\ \A b \in Basenames : fs[b]["crt"] = Absent => NoPFXFile(fs[b])
  /\ \A p \in Procs : pc[p] \in AfterCert => Dir(p)["crt"] # Absent

\* The steps after those that find or generate a pair.
Settled == {"statReusedPFX", "readPFX", "statPFX", "writePFX", "writeSSH", "next"}

\* The files d of the entry, for a later run: at step l, with key file x and
\* .pfx file y, the pair being reused or not.
EntryReuse(p, l, d, x, y, r) ==
  /\ l \in Settled \cup {"check"} => Readable(Opt(p), d[x])
  /\ l \in {"generate", "writeCert", "writeKey"} /\ ~Opt(p).overwrite => NoPFXFile(d)
  /\ l \notin Settled => ~r
  /\ l \in {"statReusedPFX", "readPFX"} => r
  /\ l = "readPFX" => OnePFXFile(d, y)
  /\ l = "statPFX" => IF r THEN NoPFXFile(d) \/ ReadablePFX(d, Opt(p))
                      ELSE d[otherForm(Opt(p), "pfx")] = Absent
  /\ l = "writePFX" => d[otherForm(Opt(p), "pfx")] = Absent
  /\ l \in {"writeSSH", "next"} /\ MakesPFX(p) => ReadablePFX(d, Opt(p))
  /\ l # "enter" /\ Entry(p) \in CertSpec(p).pfxPasswordEnv => Opt(p).env

\* The files of entry n in directory f can be reused by a run with spec s and options o.
ReusableFiles(f, s, o, n) ==
  LET d == f[s.filename[n]] IN
    /\ \E x \in KeyForms : OneKeyFile(d, x) /\ Readable(o, d[x]) /\ d[x].key = d["crt"].key
    /\ n \in s.pfx => ReadablePFX(d, o)
    /\ n \in s.pfxPasswordEnv => o.env
DistinctNames(s, N) == \A m, n \in N : s.filename[m] = s.filename[n] => m = n

\* What a run that nothing overlaps has made reusable.
ReuseInv(p) ==
  /\ pc[p] = "idle" => ~reused[p]
  /\ alone[p] /\ CanRead(Opt(p)) =>
       /\ pc[p] \in Working => EntryReuse(p, pc[p], Dir(p), keyPath[p], pfxPath[p], reused[p])
       /\ pc[p] \in Working \cup {"done"} =>
            \A n \in Finished(p) : ReusableFiles(fs, CertSpec(p), Opt(p), n)
  /\ pc[p] \in Working \cup {"done"} => DistinctNames(CertSpec(p), Finished(p))

\* Directory f holds a hierarchy that a run with this task can reuse.
Reuses(f, t) ==
  LET s == t.spec
      crt(n) == f[s.filename[n]]["crt"]
  IN /\ DistinctNames(s, Entries(s))
     /\ \A n \in Entries(s) :
          /\ crt(n) \in Certificate /\ ReusableFiles(f, s, t.opt, n)
          /\ FitsBelow(s, t.opt, n, crt(n),
                       IF s.parent[n] = TopLevel THEN IssuerCertificate ELSE crt(s.parent[n]))

LastInv == last # <<>> => AllIdle /\ (CanRead(last[1].opt) => Reuses(fs, last[1]))

\* What a repetition does not do.
RepeatInv(p) == repeat[p] =>
  /\ alone[p] /\ ~Opt(p).overwrite
  /\ CanRead(Opt(p)) =>
       /\ Reuses(fs, task[p])
       /\ pc[p] \notin {"generate", "rmKey", "rmPFX", "writeCert", "writeKey", "writePFX"}
       /\ pc[p] \in Settled => reused[p]
       /\ pc[p] \in {"statReusedPFX", "readPFX", "statPFX"} => MakesPFX(p)
       /\ pc[p] = "failed" /\ NoneExpired(p) => why[p] = "io"

RerunInv == edits = 0 => CertFirst /\ LastInv /\ \A p \in Procs : ReuseInv(p) /\ RepeatInv(p)

\* No run removes a certificate, and a run writes a .pfx where there is one.
LEMMA StepCert ==
  ASSUME IInv, CertFirst, NEW p \in Procs, Step(p), NEW b \in Basenames
  PROVE  /\ fs[b]["crt"] # Absent => fs'[b]["crt"] # Absent
         /\ fs'[b]["crt"] = Absent => NoPFXFile(fs'[b])
<1>1. /\ TypeOK /\ Opt(p) \in SpecOptions /\ "crt" \in Extensions /\ PFXForms \subseteq Extensions
      /\ KeyForms \subseteq Extensions /\ Pubs \subseteq Extensions /\ "crt" \notin PFXForms
      /\ KeyForms \cap PFXForms = {} /\ Pubs \cap PFXForms = {}
      /\ "crt" \notin KeyForms /\ "crt" \notin Pubs
  BY EntryTyped DEF IInv, Extensions, KeyForms, PFXForms, Pubs
<1>2. fs[b]["crt"] = Absent => NoPFXFile(fs[b])
  BY DEF CertFirst
<1>3. CASE fs' = fs
  BY <1>2, <1>3
<1>4. ASSUME NEW x \in KeyForms \cup Pubs, NEW f, Put(p, x, f)
      PROVE  fs'[b]["crt"] = fs[b]["crt"] /\ \A y \in PFXForms : fs'[b][y] = fs[b][y]
  BY <1>1, <1>4, PutAt DEF Dir
<1>5. CASE WriteCert(p)
  <2>1. kp[p].cert # Absent
    BY <1>5, SentinelAssumption DEF WriteCert, IInv, EntryInv, Holding, Passed, KeyPair
  <2>2. /\ b # Basename(p) => fs'[b] = fs[b]
        /\ fs'[Basename(p)]["crt"] = kp[p].cert
    BY <1>1, <1>5, PutAt DEF WriteCert
  <2> QED BY <1>2, <2>1, <2>2
<1>6. CASE WriteKey(p) \/ RemoveKey(p)
  <2>1. path(Opt(p), "key") \in KeyForms /\ otherForm(Opt(p), "key") \in KeyForms
    BY <1>1, Names
  <2>2. fs'[b]["crt"] = fs[b]["crt"] /\ \A y \in PFXForms : fs'[b][y] = fs[b][y]
    BY <1>4, <1>6, <2>1 DEF WriteKey, RemoveKey
  <2> QED BY <1>2, <2>2 DEF NoPFXFile
<1>7. CASE RemovePFX(p)
  <2> DEFINE z == otherForm(Opt(p), "pfx")
  <2>1. z \in PFXForms
    BY <1>1, Names
  <2>2. /\ fs'[b]["crt"] = fs[b]["crt"]
        /\ \A y \in PFXForms : fs'[b][y] = fs[b][y] \/ fs'[b][y] = Absent
    BY <1>1, <1>7, <2>1, PutAt DEF RemovePFX, Dir
  <2> QED BY <1>2, <2>2 DEF NoPFXFile
<1>8. CASE WritePFX(p)
  <2>1. path(Opt(p), "pfx") \in PFXForms
    BY <1>1, Names
  <2>2. /\ fs'[b]["crt"] = fs[b]["crt"]
        /\ b # Basename(p) => fs'[b] = fs[b]
    BY <1>1, <1>8, <2>1, PutAt DEF WritePFX, Dir
  <2>3. fs[Basename(p)]["crt"] # Absent
    BY <1>8 DEF CertFirst, AfterCert, WritePFX, Dir
  <2> QED BY <1>2, <2>2, <2>3
<1>9. CASE WriteSSH(p)
  <2>1. PublicHalf(keyPath[p]) \in Pubs /\ Put(p, PublicHalf(keyPath[p]), kp[p].cert.key)
    BY <1>9 DEF WriteSSH, PublicHalf, Pubs
  <2>2. fs'[b]["crt"] = fs[b]["crt"] /\ \A y \in PFXForms : fs'[b][y] = fs[b][y]
    BY <1>4, <2>1
  <2> QED BY <1>2, <2>2 DEF NoPFXFile
<1> QED BY <1>3, <1>5, <1>6, <1>7, <1>8, <1>9
    DEF Step, Enter, StatKey, StatCert, ReadCert, ReadKey, CheckReused, StatReusedPFX, ReadPFX,
        Generate, GenerateFails, StatPFX, NextEntry, IOFails

\* A run that needs a certificate has found it or written it.
LEMMA StepCertAtHand ==
  ASSUME IInv, CertFirst, NEW p \in Procs, Step(p), pc'[p] \in AfterCert
  PROVE  fs'[Basename(p)]["crt"] # Absent
<1>1. TypeOK /\ Basename(p) \in Basenames /\ Dir(p) = fs[Basename(p)]
  BY EntryTyped DEF IInv, Dir
<1>2. CASE pc[p] \in AfterCert
  BY <1>1, <1>2, StepCert DEF CertFirst
<1>3. CASE StatCert(p)
  <2>1. Dir(p)["crt"] # Absent /\ fs' = fs
    BY <1>1, <1>3 DEF StatCert, Goto, Fail, AfterCert, TypeOK
  <2> QED BY <1>1, <2>1
<1>4. CASE WriteCert(p)
  <2>1. kp[p].cert # Absent
    BY <1>4, SentinelAssumption DEF WriteCert, IInv, EntryInv, Holding, Passed, KeyPair
  <2>2. fs'[Basename(p)]["crt"] = kp[p].cert
    BY <1>1, <1>4, PutAt DEF WriteCert, Extensions
  <2> QED BY <2>1, <2>2
<1>5. ASSUME pc[p] \notin AfterCert, ~StatCert(p), ~WriteCert(p) PROVE FALSE
  BY <1>1, <1>5 DEF Step, Enter, StatKey, ReadCert, ReadKey, CheckReused, StatReusedPFX, ReadPFX,
     Generate, GenerateFails, RemoveKey, RemovePFX, WriteKey, StatPFX, WritePFX, WriteSSH, NextEntry,
     IOFails, Goto, Fail, AfterCert, TypeOK
<1> QED BY <1>2, <1>3, <1>4, <1>5

\* So a step of a run keeps the order.
LEMMA StepCertFirst ==
  ASSUME IInv, CertFirst, NEW p \in Procs, Step(p), Others(p), SameEntry(p) \/ NextEntry(p)
  PROVE  CertFirst'
<1>1. \A b \in Basenames : fs'[b]["crt"] = Absent => NoPFXFile(fs'[b])
  BY StepCert
<1>2. ASSUME NEW q \in Procs, pc'[q] \in AfterCert PROVE (Dir(q)["crt"] # Absent)'
  <2>1. CASE q = p
    <3>1. ~NextEntry(p)
      BY <1>2, <2>1 DEF NextEntry, Goto, AfterCert, IInv, TypeOK
    <3>2. Basename(p)' = Basename(p)
      BY <3>1, NamesKept
    <3> QED BY <1>2, <2>1, <3>2, StepCertAtHand DEF Dir
  <2>2. CASE q # p
    <3>1. SameEntry(q) /\ pc'[q] = pc[q]
      BY <2>2 DEF Others, Same, SameEntry
    <3>2. Basename(q)' = Basename(q) /\ Basename(q) \in Basenames
      BY <3>1, NamesKept, EntryTyped DEF IInv
    <3> QED BY <1>2, <3>1, <3>2, StepCert DEF CertFirst, Dir
  <2> QED BY <2>1, <2>2
<1> QED BY <1>1, <1>2 DEF CertFirst, NoPFXFile

-----------------------------------------------------------------------------
(* What a run makes reusable.                                              *)

\* What a step within an entry has to show of its files, for a later run.
LeavesReuse(p) ==
  pc'[p] \in Working => EntryReuse(p, pc'[p], fs'[Basename(p)], keyPath'[p], pfxPath'[p], reused'[p])

\* What the run knows of the entry's files, for a later run.
LEMMA ReuseAtHand ==
  ASSUME IInv, DirInv, CertFirst, NEW p \in Procs, ReuseInv(p), pc[p] \in Named, alone[p], CanRead(Opt(p))
  PROVE  /\ DOMAIN pc = Procs /\ DOMAIN keyPath = Procs /\ DOMAIN pfxPath = Procs /\ DOMAIN reused = Procs
         /\ reused[p] \in BOOLEAN /\ pfxPath[p] \in PFXForms \cup {"none"}
         /\ Basename(p) \in Basenames /\ fs[Basename(p)] = Dir(p) /\ Opt(p) \in SpecOptions
         /\ EntryFiles(p, pc[p], Dir(p), kp[p], keyPath[p])
         /\ EntryReuse(p, pc[p], Dir(p), keyPath[p], pfxPath[p], reused[p])
         /\ Entry(p) \in CertSpec(p).pfxPasswordEnv => Opt(p).env
         /\ Dir(p)["crt"] = Absent => NoPFXFile(Dir(p))
<1>1. pc[p] \in Working /\ pc[p] # "enter"
  BY DEF Named
<1>2. TypeOK /\ Basename(p) \in Basenames /\ Opt(p) \in SpecOptions
  BY EntryTyped DEF IInv
<1>3. EntryReuse(p, pc[p], Dir(p), keyPath[p], pfxPath[p], reused[p])
  BY <1>1 DEF ReuseInv
<1>4. Entry(p) \in CertSpec(p).pfxPasswordEnv => Opt(p).env
  BY <1>1, <1>3 DEF EntryReuse
<1> QED BY <1>1, <1>2, <1>3, <1>4, AtHand DEF TypeOK, CertFirst, Dir

\* A step within an entry that only looks at its files.
LEMMA LookReuse ==
  ASSUME IInv, DirInv, CertFirst, NEW p \in Procs, ReuseInv(p), alone[p], CanRead(Opt(p)),
         \/ StatKey(p) \/ StatCert(p) \/ ReadCert(p) \/ ReadKey(p) \/ CheckReused(p)
         \/ StatReusedPFX(p) \/ ReadPFX(p) \/ StatPFX(p)
  PROVE  LeavesReuse(p)
<1>1. pc[p] \in Named /\ fs' = fs
  BY DEF StatKey, StatCert, ReadCert, ReadKey, CheckReused, StatReusedPFX, ReadPFX, StatPFX, Named, Working
<1> DEFINE d == Dir(p)
<1>2. CASE StatKey(p) \/ ReadCert(p)
  BY <1>1, <1>2, ReuseAtHand DEF StatKey, ReadCert, Goto, Fail, LeavesReuse, EntryReuse, Settled, Working
<1>3. CASE StatCert(p)
  <2>1. pc'[p] = "generate" /\ ~Opt(p).overwrite => NoPFXFile(d)
    BY <1>1, <1>3, ReuseAtHand DEF StatCert, EntryFiles, NoKeyFile, Goto, Fail
  <2>2. pc'[p] \in {"failed", "readCert", "generate"} /\ reused' = reused /\ pc[p] = "statCert"
    BY <1>1, <1>3, ReuseAtHand DEF StatCert, Goto, Fail, entry
  <2> QED BY <1>1, <2>1, <2>2, ReuseAtHand DEF LeavesReuse, EntryReuse, Settled, Working
<1>4. CASE ReadKey(p)
  BY <1>1, <1>4, ReuseAtHand DEF ReadKey, Goto, Fail, LeavesReuse, EntryReuse, Settled, Working
<1>5. CASE CheckReused(p)
  <2>1. /\ pc[p] = "check" /\ pc'[p] \in {"failed", "statReusedPFX", "writeSSH", "next"}
        /\ pc'[p] # "failed" => reused'[p] = TRUE
        /\ pc'[p] \in {"writeSSH", "next"} => ~MakesPFX(p)
        /\ keyPath' = keyPath
    BY <1>1, <1>5, ReuseAtHand DEF CheckReused, AfterPFX, Goto, Fail
  <2>2. Readable(Opt(p), d[keyPath[p]])
    BY <1>1, <2>1, ReuseAtHand DEF EntryReuse
  <2> QED BY <1>1, <2>1, <2>2, ReuseAtHand DEF LeavesReuse, EntryReuse, Settled, Working
<1>6. CASE StatReusedPFX(p)
  <2> DEFINE x == existingPrivateFile(d, "pfx")
  <2>1. /\ pc[p] = "statReusedPFX" /\ reused' = reused /\ keyPath' = keyPath
        /\ pc'[p] \in {"failed", "statPFX", "readPFX"}
        /\ pc'[p] # "failed" => x # "both"
        /\ pc'[p] = "statPFX" => x = "none"
        /\ pc'[p] = "readPFX" => x # "none" /\ pfxPath'[p] = x
    BY <1>1, <1>6, ReuseAtHand DEF StatReusedPFX, Goto, Fail
  <2>2. reused[p] /\ Readable(Opt(p), d[keyPath[p]])
    BY <1>1, <2>1, ReuseAtHand DEF EntryReuse, Settled
  <2>3. /\ x = "none" => NoPFXFile(d)
        /\ x \notin {"none", "both"} => OnePFXFile(d, x)
    BY DEF existingPrivateFile, Encrypted, NoPFXFile, OnePFXFile, PFXForms
  <2> QED BY <1>1, <2>1, <2>2, <2>3, ReuseAtHand DEF LeavesReuse, EntryReuse, Settled, Working
<1>7. CASE ReadPFX(p)
  <2>1. /\ pc[p] = "readPFX" /\ reused' = reused /\ keyPath' = keyPath
        /\ pc'[p] \in {"failed", "statPFX"}
        /\ pc'[p] # "failed" => Readable(Opt(p), d[pfxPath[p]])
    BY <1>1, <1>7, ReuseAtHand DEF ReadPFX, Goto, Fail
  <2>2. reused[p] /\ Readable(Opt(p), d[keyPath[p]]) /\ OnePFXFile(d, pfxPath[p])
    BY <1>1, <2>1, ReuseAtHand DEF EntryReuse, Settled
  <2>3. pc'[p] # "failed" => ReadablePFX(d, Opt(p))
    BY <2>1, <2>2 DEF ReadablePFX, OnePFXFile
  <2> QED BY <1>1, <2>1, <2>2, <2>3, ReuseAtHand DEF LeavesReuse, EntryReuse, Settled, Working
<1>8. CASE StatPFX(p)
  <2> DEFINE x == existingPrivateFile(d, "pfx")
             o == Opt(p)
  <2>1. /\ pc[p] = "statPFX" /\ reused' = reused /\ keyPath' = keyPath
        /\ pc'[p] \in {"failed", "writePFX", "writeSSH", "next"}
        /\ pc'[p] = "writePFX" => ~reused[p] \/ x = "none"
        /\ pc'[p] \in {"writeSSH", "next"} => reused[p] /\ x # "none"
    BY <1>1, <1>8, ReuseAtHand DEF StatPFX, AfterPFX, Goto, Fail, entry
  <2>2. /\ Readable(o, d[keyPath[p]])
        /\ IF reused[p] THEN NoPFXFile(d) \/ ReadablePFX(d, o) ELSE d[otherForm(o, "pfx")] = Absent
    BY <1>1, <2>1, ReuseAtHand DEF EntryReuse, Settled
  <2>3. /\ x = "none" => NoPFXFile(d)
        /\ NoPFXFile(d) => x = "none" /\ d[otherForm(o, "pfx")] = Absent
    BY DEF existingPrivateFile, Encrypted, NoPFXFile, PFXForms, otherForm
  <2> QED BY <1>1, <2>1, <2>2, <2>3, ReuseAtHand DEF LeavesReuse, EntryReuse, Settled, Working
<1> QED BY <1>2, <1>3, <1>4, <1>5, <1>6, <1>7, <1>8

\* A step that generates, or removes or writes a file.
LEMMA WriteReuse ==
  ASSUME IInv, DirInv, CertFirst, NEW p \in Procs, ReuseInv(p), alone[p], CanRead(Opt(p)),
         \/ Generate(p) \/ GenerateFails(p) \/ IOFails(p) \/ RemoveKey(p) \/ RemovePFX(p)
         \/ WriteCert(p) \/ WriteKey(p) \/ WritePFX(p) \/ WriteSSH(p)
  PROVE  LeavesReuse(p)
<1> DEFINE d == Dir(p)
           o == Opt(p)
           b == Basename(p)
<1>1. TypeOK /\ pc[p] \in Named /\ o \in SpecOptions
  BY EntryTyped DEF IInv, Generate, GenerateFails, IOFails, RemoveKey, RemovePFX, WriteCert, WriteKey,
     WritePFX, WriteSSH, Named, Working
<1>2. CASE GenerateFails(p) \/ IOFails(p)
  BY <1>1, <1>2, ReuseAtHand DEF GenerateFails, IOFails, Goto, Fail, LeavesReuse, Working
<1>3. CASE Generate(p)
  <2>1. /\ pc[p] = "generate" /\ reused' = reused /\ fs' = fs
        /\ pc'[p] \in {"rmKey", "writeCert"} /\ (pc'[p] = "writeCert" => ~o.overwrite)
    BY <1>1, <1>3, ReuseAtHand DEF Generate, Goto
  <2>2. ~reused[p] /\ (~o.overwrite => NoPFXFile(d))
    BY <1>1, <2>1, ReuseAtHand DEF EntryReuse, Settled
  <2> QED BY <1>1, <2>1, <2>2, ReuseAtHand DEF LeavesReuse, EntryReuse, Settled, Working
<1>4. CASE RemoveKey(p) \/ RemovePFX(p)
  <2>1. pc[p] \in {"rmKey", "rmPFX"} /\ pc'[p] \in {"rmPFX", "writeCert"} /\ reused' = reused
    BY <1>1, <1>4, ReuseAtHand DEF RemoveKey, RemovePFX, Goto, entry
  <2>2. ~reused[p] /\ o.overwrite
    BY <1>1, <2>1, ReuseAtHand, AtHand DEF EntryReuse, Settled
  <2> QED BY <1>1, <2>1, <2>2, ReuseAtHand DEF LeavesReuse, EntryReuse, Settled, Working
<1>5. CASE WriteCert(p)
  <2>1. pc[p] = "writeCert" /\ pc'[p] = "writeKey" /\ reused' = reused
    BY <1>1, <1>5, ReuseAtHand DEF WriteCert, Goto, entry
  <2>2. ~reused[p] /\ (~o.overwrite => NoPFXFile(d))
    BY <1>1, <2>1, ReuseAtHand DEF EntryReuse, Settled
  <2>3. \A y \in PFXForms : fs'[b][y] = d[y]
    BY <1>1, <1>5, PutAt DEF WriteCert, Extensions, PFXForms
  <2>4. ~o.overwrite => NoPFXFile(fs'[b])
    BY <2>2, <2>3 DEF NoPFXFile
  <2> QED BY <1>1, <2>1, <2>2, <2>4, ReuseAtHand DEF LeavesReuse, EntryReuse, Settled, Working
<1>6. CASE WriteKey(p)
  <2> DEFINE x == path(o, "key")
             z == otherForm(o, "pfx")
             f == [key |-> kp[p].key, to |-> o.to]
  <2>1. /\ pc[p] = "writeKey" /\ reused' = reused /\ keyPath'[p] = x
        /\ pc'[p] \in {"statPFX", "writeSSH", "next"} /\ (pc'[p] # "statPFX" => ~MakesPFX(p))
    BY <1>1, <1>6, ReuseAtHand DEF WriteKey, AfterPFX, Goto
  <2>2. ~reused[p] /\ (~o.overwrite => NoPFXFile(d))
    BY <1>1, <2>1, ReuseAtHand DEF EntryReuse, Settled
  <2>3. x \in Extensions /\ z \in PFXForms /\ z # x /\ z \in Extensions
    BY <1>1, Names
  <2>4. fs'[b][x] = f /\ fs'[b][z] = d[z]
    BY <1>1, <1>6, <2>3, PutAt DEF WriteKey
  <2>5. f # Absent
    <3>1. kp[p] \in KeyPair
      BY <2>1 DEF IInv, EntryInv, Holding, Passed
    <3>2. f \in PrivateFile
      BY <1>1, <3>1 DEF KeyPair, PrivateFile, SpecOptions
    <3> QED BY <3>2, SentinelAssumption
  <2>6. Readable(o, f)
    BY <2>5 DEF Readable, CanRead
  <2>7. d[z] = Absent
    <3>1. Cleared(d, o, "pfx")
      BY <1>1, <2>1, ReuseAtHand, AtHand DEF EntryFiles, Cleared, WriteKey
    <3> QED BY <2>2, <2>3, <3>1 DEF Cleared, NoPFXFile
  <2> QED BY <1>1, <2>1, <2>2, <2>4, <2>6, <2>7, ReuseAtHand DEF LeavesReuse, EntryReuse, Settled, Working
<1>7. CASE WritePFX(p)
  <2> DEFINE y == path(o, "pfx")
             z == otherForm(o, "pfx")
             f == [key |-> kp[p].pfx, to |-> o.to]
  <2>1. /\ pc[p] = "writePFX" /\ reused' = reused /\ keyPath' = keyPath
        /\ pc'[p] \in {"writeSSH", "next"}
    BY <1>1, <1>7, ReuseAtHand DEF WritePFX, AfterPFX, Goto, entry
  <2>2. Readable(o, d[keyPath[p]]) /\ d[z] = Absent /\ keyPath[p] \in KeyForms
    BY <1>1, <2>1, ReuseAtHand DEF EntryReuse, Settled, EntryFiles, Written, OneKeyFile
  <2>3. /\ y \in PFXForms /\ z \in PFXForms /\ z # y /\ y \in Extensions /\ z \in Extensions
        /\ keyPath[p] # y /\ keyPath[p] \in Extensions
    BY <1>1, <2>2, Names
  <2>4. fs'[b][y] = f /\ fs'[b][z] = d[z] /\ fs'[b][keyPath[p]] = d[keyPath[p]]
    BY <1>1, <1>7, <2>3, PutAt DEF WritePFX
  <2>5. f # Absent
    <3>1. kp[p] \in KeyPair
      BY <2>1 DEF IInv, EntryInv, Holding, Passed
    <3>2. f \in PrivateFile
      BY <1>1, <3>1 DEF KeyPair, PrivateFile, SpecOptions
    <3> QED BY <3>2, SentinelAssumption
  <2>6. Readable(o, f)
    BY <2>5 DEF Readable, CanRead
  <2>7. OnePFXFile(fs'[b], y)
    <3>1. PFXForms = {y, z}
      BY <2>3 DEF PFXForms
    <3> QED BY <2>2, <2>3, <2>4, <2>5, <3>1 DEF OnePFXFile
  <2>8. ReadablePFX(fs'[b], o)
    BY <2>3, <2>4, <2>6, <2>7 DEF ReadablePFX
  <2> QED BY <1>1, <2>1, <2>2, <2>4, <2>8, ReuseAtHand DEF LeavesReuse, EntryReuse, Settled, Working
<1>8. CASE WriteSSH(p)
  <2> DEFINE x == PublicHalf(keyPath[p])
  <2>1. /\ pc[p] = "writeSSH" /\ reused' = reused /\ keyPath' = keyPath /\ pc'[p] = "next"
        /\ Put(p, x, kp[p].cert.key)
    BY <1>1, <1>8, ReuseAtHand DEF WriteSSH, Goto, entry
  <2>2. /\ Readable(o, d[keyPath[p]]) /\ keyPath[p] \in KeyForms
        /\ MakesPFX(p) => ReadablePFX(d, o)
    BY <1>1, <2>1, ReuseAtHand DEF EntryReuse, Settled, EntryFiles, Written, OneKeyFile
  <2>3. \A y \in KeyForms \cup PFXForms : fs'[b][y] = d[y]
    <3>1. x \in Pubs /\ x \in Extensions /\ \A y \in KeyForms \cup PFXForms : y \in Extensions /\ y # x
      BY <1>1, Names DEF PublicHalf, Pubs
    <3> QED BY <1>1, <2>1, <3>1, PutAt
  <2>4. ReadablePFX(d, o) => ReadablePFX(fs'[b], o)
    BY <2>3 DEF ReadablePFX, OnePFXFile
  <2> QED BY <1>1, <2>1, <2>2, <2>3, <2>4, ReuseAtHand DEF LeavesReuse, EntryReuse, Settled, Working
<1> QED BY <1>2, <1>3, <1>4, <1>5, <1>6, <1>7, <1>8

\* A run that is where it was has made nothing unreusable: it does not have the
\* directory to itself when another takes a step.
LEMMA OthersReuse ==
  ASSUME DirInv, NEW p \in Procs, NEW q \in Procs \ {p}, Same(q), reused'[q] = reused[q],
         alone'[q] => alone[q] /\ pc[p] # "idle", ReuseInv(q)
  PROVE  ReuseInv(q)'
<1>1. SameEntry(q) /\ pc'[q] = pc[q]
  BY DEF Same, SameEntry
<1>2. CertSpec(q)' = CertSpec(q) /\ Finished(q)' = Finished(q)
  BY <1>1, EntryKept
<1>3. ~alone'[q]
  BY DEF DirInv, AloneInv
<1> QED BY <1>1, <1>2, <1>3 DEF ReuseInv, DistinctNames

\* The files of an entry stay reusable as long as no step touches them.
LEMMA ReusableStays ==
  ASSUME NEW f, NEW g, NEW s, NEW o, NEW n, ReusableFiles(f, s, o, n),
         \A x \in {"crt"} \cup KeyForms \cup PFXForms : g[s.filename[n]][x] = f[s.filename[n]][x]
  PROVE  ReusableFiles(g, s, o, n)
<1> DEFINE d == f[s.filename[n]]
           e == g[s.filename[n]]
<1>1. \E x \in KeyForms : OneKeyFile(e, x) /\ Readable(o, e[x]) /\ e[x].key = e["crt"].key
  <2>1. PICK x \in KeyForms : OneKeyFile(d, x) /\ Readable(o, d[x]) /\ d[x].key = d["crt"].key
    BY DEF ReusableFiles
  <2>2. OneKeyFile(e, x) /\ e[x] = d[x] /\ e["crt"] = d["crt"]
    BY <2>1 DEF OneKeyFile
  <2> QED BY <2>1, <2>2
<1>2. ReadablePFX(d, o) => ReadablePFX(e, o)
  BY DEF ReadablePFX, OnePFXFile
<1> QED BY <1>1, <1>2 DEF ReusableFiles

\* A step within an entry keeps what was made reusable.
LEMMA InsideReuse ==
  ASSUME IInv, DirInv, NEW p \in Procs, Inside(p), ReuseInv(p),
         alone[p] /\ CanRead(Opt(p)) => LeavesReuse(p)
  PROVE  ReuseInv(p)'
<1>1. SameEntry(p) /\ alone' = alone /\ pc[p] \in Working /\ pc'[p] # "idle"
  BY DEF Inside, SameEntry, local, Named, Working
<1>2. /\ CertSpec(p)' = CertSpec(p) /\ Opt(p)' = Opt(p) /\ Finished(p)' = Finished(p)
      /\ Basename(p)' = Basename(p) /\ Entry(p)' = Entry(p) /\ MakesPFX(p)' = MakesPFX(p)
  BY <1>1, EntryKept, NamesKept
<1>3. DistinctNames(CertSpec(p), Finished(p))'
  BY <1>1, <1>2 DEF ReuseInv, DistinctNames
<1>4. ASSUME alone[p], CanRead(Opt(p)), pc'[p] \in Working
      PROVE  EntryReuse(p, pc[p], Dir(p), keyPath[p], pfxPath[p], reused[p])'
  BY <1>2, <1>4 DEF LeavesReuse, EntryReuse, Dir, ReadablePFX
<1>5. ASSUME alone[p], CanRead(Opt(p)), NEW n \in Finished(p)
      PROVE  ReusableFiles(fs, CertSpec(p), Opt(p), n)'
  <2>1. ReusableFiles(fs, CertSpec(p), Opt(p), n)
    BY <1>1, <1>5 DEF ReuseInv
  <2>2. Finished(p) = Before(p)
    BY <1>1 DEF IInv, MemInv
  <2>3. CertSpec(p).filename[n] \in Basenames /\ CertSpec(p).filename[n] # Basename(p)
    <3>1. n \in Nodes /\ CertSpec(p).filename \in [Nodes -> Basenames]
      BY EntryTyped DEF Finished, IInv, CertificateSpec
    <3>2. CertSpec(p).filename[n] \in Taken(p)
      BY <2>2 DEF Taken
    <3> QED BY <3>1, <3>2 DEF DirInv, NamesInv, Inside
  <2>4. fs'[CertSpec(p).filename[n]] = fs[CertSpec(p).filename[n]]
    BY <2>3 DEF Inside
  <2> QED BY <1>2, <2>1, <2>4 DEF ReusableFiles
<1> QED BY <1>1, <1>2, <1>3, <1>4, <1>5 DEF ReuseInv, CanRead

\* A run begins an entry.
LEMMA EnterReuse ==
  ASSUME IInv, DirInv, NEW p \in Procs, Enter(p), ReuseInv(p)
  PROVE  ReuseInv(p)'
<1>1. TypeOK /\ SameEntry(p) /\ alone' = alone /\ pc[p] = "enter" /\ fs' = fs /\ reused' = reused
  BY DEF IInv, Enter, SameEntry, local, entry
<1>2. /\ CertSpec(p)' = CertSpec(p) /\ Opt(p)' = Opt(p) /\ Finished(p)' = Finished(p)
      /\ Basename(p)' = Basename(p) /\ Entry(p)' = Entry(p)
  BY <1>1, EntryKept, NamesKept
<1>3. /\ pc'[p] \in {"failed", "generate", "statKey"}
      /\ pc'[p] = "generate" => Opt(p).overwrite
      /\ pc'[p] # "failed" => ~(Entry(p) \in CertSpec(p).pfxPasswordEnv /\ ~Opt(p).env)
  BY <1>1 DEF Enter, Goto, Fail, TypeOK
<1>4. ASSUME alone[p], CanRead(Opt(p)), pc'[p] \in Working
      PROVE  EntryReuse(p, pc[p], Dir(p), keyPath[p], pfxPath[p], reused[p])'
  <2>1. ~reused[p]
    BY <1>1, <1>4 DEF ReuseInv, EntryReuse, Settled, Working
  <2> QED BY <1>1, <1>2, <1>3, <1>4, <2>1 DEF EntryReuse, Settled, Working
<1>5. \A n : ReusableFiles(fs, CertSpec(p), Opt(p), n) => ReusableFiles(fs, CertSpec(p), Opt(p), n)'
  BY <1>1, <1>2 DEF ReusableFiles
<1>6. DistinctNames(CertSpec(p), Finished(p))'
  BY <1>1, <1>2 DEF ReuseInv, DistinctNames, Working
<1> QED BY <1>1, <1>2, <1>3, <1>4, <1>5, <1>6 DEF ReuseInv, CanRead, Working

\* A finished entry can be reused.
LEMMA NextEntryReuse ==
  ASSUME IInv, DirInv, CertFirst, NEW p \in Procs, NextEntry(p), ReuseInv(p)
  PROVE  ReuseInv(p)'
<1>0. PICK e \in Nodes : e = Entry(p)
  BY EntryTyped DEF IInv
<1>1. /\ TypeOK /\ pc[p] = "next" /\ Finished(p) = Before(p) /\ kp[p] \in KeyPair
      /\ UNCHANGED <<fs, task, alone>> /\ ~reused'[p] /\ pc'[p] \in {"enter", "done"}
      /\ CertSpec(p)' = CertSpec(p) /\ Opt(p)' = Opt(p)
  BY DEF NextEntry, IInv, MemInv, EntryInv, Holding, Passed, Working, local, CertSpec, Opt, Goto, TypeOK
<1>2. mem'[p][e] = kp[p] /\ \A n \in Nodes \ {e} : mem'[p][n] = mem[p][n]
  BY <1>0, <1>1 DEF NextEntry, TypeOK
<1>3. Finished(p)' = Finished(p) \cup {e}
  <2>1. kp[p] # NoPair
    BY <1>1, SentinelAssumption
  <2> QED BY <1>0, <1>1, <1>2, <2>1 DEF Finished
<1>4. DistinctNames(CertSpec(p), Finished(p))'
  <2>1. DistinctNames(CertSpec(p), Finished(p))
    BY <1>1 DEF ReuseInv, Working
  <2>2. Basename(p) \notin Taken(p) /\ Basename(p) = CertSpec(p).filename[e]
    BY <1>0, <1>1 DEF DirInv, NamesInv, Named, Working, Basename
  <2>3. \A n \in Finished(p) : CertSpec(p).filename[n] # CertSpec(p).filename[e]
    BY <1>1, <2>2 DEF Taken
  <2> QED BY <1>1, <1>3, <2>1, <2>3 DEF DistinctNames
<1>5. ASSUME alone[p], CanRead(Opt(p)) PROVE ReusableFiles(fs, CertSpec(p), Opt(p), e)
  <2>1. Dir(p) = fs[CertSpec(p).filename[e]]
    BY <1>0 DEF Dir, Basename
  <2>2. pc[p] \in Named
    BY <1>1 DEF Named, Working
  <2>3. Written(Dir(p), kp[p], keyPath[p])
    BY <1>1, <1>5, <2>2, ReuseAtHand DEF EntryFiles
  <2>4. kp[p].cert.key = kp[p].key
    BY <1>1 DEF IInv, EntryInv, Passed, Sound
  <2>5. /\ Readable(Opt(p), Dir(p)[keyPath[p]])
        /\ MakesPFX(p) => ReadablePFX(Dir(p), Opt(p))
        /\ Entry(p) \in CertSpec(p).pfxPasswordEnv => Opt(p).env
    BY <1>1, <1>5, <2>2, ReuseAtHand DEF EntryReuse, Settled
  <2>6. /\ keyPath[p] \in KeyForms /\ OneKeyFile(Dir(p), keyPath[p])
        /\ Dir(p)[keyPath[p]].key = Dir(p)["crt"].key
    BY <2>3, <2>4 DEF Written, OneKeyFile
  <2> QED BY <1>0, <2>1, <2>5, <2>6 DEF ReusableFiles, MakesPFX
<1>6. ASSUME alone[p], CanRead(Opt(p)), NEW n \in Finished(p) \cup {e}
      PROVE  ReusableFiles(fs, CertSpec(p), Opt(p), n)'
  <2>1. ReusableFiles(fs, CertSpec(p), Opt(p), n)
    BY <1>1, <1>5, <1>6 DEF ReuseInv, Working
  <2> QED BY <1>1, <2>1 DEF ReusableFiles
<1>7. pc'[p] \in Working => EntryReuse(p, pc[p], Dir(p), keyPath[p], pfxPath[p], reused[p])'
  BY <1>1 DEF EntryReuse, Settled, Working
<1> QED BY <1>1, <1>3, <1>4, <1>6, <1>7 DEF ReuseInv, CanRead

\* Every step of a run.
LEMMA StepReuse ==
  ASSUME IInv, DirInv, CertFirst, NEW p \in Procs, Step(p), ReuseInv(p)
  PROVE  ReuseInv(p)'
<1>1. CASE Enter(p) \/ NextEntry(p)
  BY <1>1, EnterReuse, NextEntryReuse
<1>2. CASE ~(Enter(p) \/ NextEntry(p))
  <2>1. Inside(p)
    BY <1>2, StatKeyInside, StatCertInside, ReadCertInside, ReadKeyInside, CheckReusedInside,
       StatReusedPFXInside, ReadPFXInside, GenerateInside, GenerateFailsInside, RemoveKeyInside,
       RemovePFXInside, WriteCertInside, WriteKeyInside, StatPFXInside, WritePFXInside,
       WriteSSHInside, IOFailsInside DEF Step
  <2>2. alone[p] /\ CanRead(Opt(p)) => LeavesReuse(p)
    BY <1>2, LookReuse, WriteReuse DEF Step
  <2> QED BY <2>1, <2>2, InsideReuse
<1> QED BY <1>1, <1>2

\* A run begins with no entry finished.
LEMMA StartReuse ==
  ASSUME IInv, DirInv, NEW p \in Procs, Start(p), ReuseInv(p)
  PROVE  ReuseInv(p)'
<1>1. pc[p] = "idle" /\ pc'[p] = "enter" /\ reused' = reused
  BY DEF Start, Goto, entry, IInv, TypeOK
<1>2. Finished(p)' = {}
  <2>1. pos'[p] = 1
    BY DEF Start, IInv, MemInv
  <2>2. Before(p)' = {}
    BY <2>1 DEF Before
  <2> QED BY <1>1, <2>2, StartKeeps DEF Keeps, MemInv, Working
<1>3. ~reused[p]
  BY <1>1 DEF ReuseInv
<1> QED BY <1>1, <1>2, <1>3 DEF ReuseInv, EntryReuse, Settled, DistinctNames

-----------------------------------------------------------------------------
(* What a repetition finds.                                                *)

\* --overwrite makes no difference to what can be reused.
LEMMA SameReuses ==
  ASSUME NEW t \in Task, NEW s, NEW o \in SpecOptions, t.opt \in SpecOptions,
         SameButOverwrite(t, s, o), CanRead(o), CanRead(t.opt) => Reuses(fs, t)
  PROVE  Reuses(fs, [spec |-> s, opt |-> o])
<1>1. t.spec = s /\ t.opt.to = o.to /\ t.opt.ids = o.ids /\ t.opt.issuer = o.issuer /\ t.opt.env = o.env
  BY DEF SameButOverwrite, SpecOptions
<1>2. Reuses(fs, t)
  BY <1>1 DEF CanRead
<1>3. \A f : Readable(t.opt, f) <=> Readable(o, f)
  BY <1>1 DEF Readable
<1>4. \A n : ReusableFiles(fs, s, t.opt, n) => ReusableFiles(fs, s, o, n)
  BY <1>1, <1>3 DEF ReusableFiles, ReadablePFX
<1>5. \A n, c, up : FitsBelow(s, t.opt, n, c, up) => FitsBelow(s, o, n, c, up)
  BY <1>1 DEF FitsBelow
<1> QED BY <1>1, <1>2, <1>4, <1>5 DEF Reuses

\* What can be reused stays so when only public keys are written.
LEMMA ReusesStays ==
  ASSUME NEW f, NEW g, NEW t, Reuses(f, t),
         \A n \in Entries(t.spec), x \in {"crt"} \cup KeyForms \cup PFXForms :
           g[t.spec.filename[n]][x] = f[t.spec.filename[n]][x],
         \A n \in Entries(t.spec) :
           t.spec.parent[n] # TopLevel => t.spec.parent[n] \in Entries(t.spec)
  PROVE  Reuses(g, t)
<1> DEFINE s == t.spec
           o == t.opt
           up(h, n) == IF s.parent[n] = TopLevel THEN IssuerCertificate
                       ELSE h[s.filename[s.parent[n]]]["crt"]
<1>1. ASSUME NEW n \in Entries(s)
      PROVE  /\ g[s.filename[n]]["crt"] \in Certificate /\ ReusableFiles(g, s, o, n)
             /\ FitsBelow(s, o, n, g[s.filename[n]]["crt"], up(g, n))
  <2>1. /\ f[s.filename[n]]["crt"] \in Certificate /\ ReusableFiles(f, s, o, n)
        /\ FitsBelow(s, o, n, f[s.filename[n]]["crt"], up(f, n))
    BY DEF Reuses
  <2>2. g[s.filename[n]]["crt"] = f[s.filename[n]]["crt"] /\ up(g, n) = up(f, n)
    OBVIOUS
  <2>3. ReusableFiles(g, s, o, n)
    BY <2>1, ReusableStays
  <2> QED BY <2>1, <2>2, <2>3
<1> QED BY <1>1 DEF Reuses

\* The entries of a spec are nodes, and so are their parents.
LEMMA ParentsAreEntries ==
  ASSUME TypeOK, NEW p \in Procs, NEW n \in Entries(CertSpec(p))
  PROVE  /\ n \in Nodes /\ CertSpec(p).filename[n] \in Basenames
         /\ CertSpec(p).parent[n] # TopLevel => CertSpec(p).parent[n] \in Entries(CertSpec(p))
<1>1. CertSpec(p) \in CertificateSpec /\ validateSpec(CertSpec(p))
  BY EntryTyped
<1>2. CertSpec(p).order \in Seq(Nodes) /\ CertSpec(p).filename \in [Nodes -> Basenames]
  BY <1>1 DEF CertificateSpec
<1>3. n \in Nodes
  BY <1>2 DEF Entries
<1> QED BY <1>1, <1>2, <1>3 DEF validateSpec, Entries

\* A run that nothing overlaps and that succeeds leaves what it can reuse.
LEMMA DoneReuses ==
  ASSUME IInv, DirInv, NEW p \in Procs, TreeInv(p), ReuseInv(p), pc[p] = "done", alone[p],
         CanRead(Opt(p))
  PROVE  Reuses(fs, task[p])
<1> DEFINE s == CertSpec(p)
           crt(n) == fs[s.filename[n]]["crt"]
           up(n) == IF s.parent[n] = TopLevel THEN IssuerCertificate ELSE crt(s.parent[n])
<1>1. TypeOK /\ Finished(p) = Entries(s) /\ task[p].spec = s /\ task[p].opt = Opt(p)
  BY DEF IInv, MemInv, CertSpec, Opt
<1>2. DistinctNames(s, Entries(s))
  BY <1>1 DEF ReuseInv
<1>3. \A n \in Entries(s) : crt(n) = mem[p][n].cert
  BY <1>1 DEF DirInv, AloneInv, FinishedFiles
<1>4. ASSUME NEW n \in Entries(s)
      PROVE  /\ crt(n) \in Certificate /\ ReusableFiles(fs, s, Opt(p), n)
             /\ FitsBelow(s, Opt(p), n, crt(n), up(n))
  <2>1. n \in Finished(p) /\ mem[p][n] \in KeyPair
    BY <1>1, ParentsAreEntries DEF Finished, TypeOK
  <2>2. crt(n) \in Certificate
    BY <1>3, <2>1 DEF KeyPair
  <2>3. ReusableFiles(fs, s, Opt(p), n)
    BY <2>1 DEF ReuseInv
  <2>4. up(n) = IF s.parent[n] = TopLevel THEN IssuerCertificate ELSE mem[p][s.parent[n]].cert
    BY <1>1, <1>3, ParentsAreEntries
  <2>5. FitsTree(p, n, mem[p][n].cert)
    BY <2>1 DEF TreeInv
  <2> QED BY <1>3, <2>2, <2>3, <2>4, <2>5 DEF FitsTree
<1> QED BY <1>1, <1>2, <1>4 DEF Reuses

\* What the repetition of a run knows of the entry it is at.
LEMMA RepeatAtHand ==
  ASSUME IInv, DirInv, CertFirst, NEW p \in Procs, ReuseInv(p), RepeatInv(p), repeat[p],
         CanRead(Opt(p)), pc[p] \in Working
  PROVE  /\ Entry(p) \in Entries(CertSpec(p)) /\ alone[p] /\ ~Opt(p).overwrite
         /\ Dir(p)["crt"] \in Certificate /\ Dir(p)["crt"] # Absent
         /\ \E x \in KeyForms : /\ OneKeyFile(Dir(p), x) /\ Readable(Opt(p), Dir(p)[x])
                                /\ Dir(p)[x].key = Dir(p)["crt"].key
         /\ MakesPFX(p) => ReadablePFX(Dir(p), Opt(p))
         /\ Entry(p) \in CertSpec(p).pfxPasswordEnv => Opt(p).env
         /\ FitsBelow(CertSpec(p), Opt(p), Entry(p), Dir(p)["crt"], Parent(p))
         /\ Basename(p) \notin Taken(p)
<1> DEFINE s == CertSpec(p)
           e == Entry(p)
<1>1. TypeOK /\ alone[p] /\ ~Opt(p).overwrite /\ Reuses(fs, task[p])
      /\ task[p].spec = s /\ task[p].opt = Opt(p)
  BY DEF IInv, RepeatInv, CertSpec, Opt
<1>2. e \in Entries(s)
  BY <1>1, EntryTyped DEF Entry, Entries
<1>3. Dir(p) = fs[s.filename[e]]
  BY DEF Dir, Basename
<1>4. /\ Dir(p)["crt"] \in Certificate /\ ReusableFiles(fs, s, Opt(p), e)
      /\ FitsBelow(s, Opt(p), e, Dir(p)["crt"],
                   IF s.parent[e] = TopLevel THEN IssuerCertificate
                   ELSE fs[s.filename[s.parent[e]]]["crt"])
  BY <1>1, <1>2, <1>3 DEF Reuses
<1>5. s.parent[e] # TopLevel => fs[s.filename[s.parent[e]]]["crt"] = mem[p][s.parent[e]].cert
  <2>1. s.parent[e] # TopLevel => s.parent[e] \in Finished(p)
    BY <1>1, ParentBefore DEF IInv, MemInv
  <2> QED BY <1>1, <2>1 DEF DirInv, AloneInv, FinishedFiles
<1>6. FitsBelow(s, Opt(p), e, Dir(p)["crt"], Parent(p))
  BY <1>4, <1>5 DEF Parent
<1>7. Basename(p) \notin Taken(p)
  <2>1. e \notin Before(p) /\ Before(p) \subseteq Entries(s)
    <3>1. pos[p] \in 1..Len(s.order) /\ Len(s.order) \in Nat
      <4>1. s.order \in Seq(Nodes)
        BY <1>1, EntryTyped DEF CertificateSpec
      <4> QED BY <1>1, <4>1, EntryTyped
    <3>2. Before(p) \subseteq Entries(s)
      BY <3>1 DEF Before, Entries
    <3> QED BY <1>1, <3>2, ParentBefore
  <2>2. DistinctNames(s, Entries(s))
    BY <1>1 DEF Reuses
  <2> QED BY <1>2, <2>1, <2>2 DEF DistinctNames, Taken, Basename
<1>8. Dir(p)["crt"] # Absent
  BY <1>4, SentinelAssumption
<1> QED BY <1>1, <1>2, <1>3, <1>4, <1>6, <1>7, <1>8 DEF ReusableFiles, MakesPFX

\* Its certificates fit, unless one has expired.
LEMMA RepeatFits ==
  ASSUME IInv, DirInv, CertFirst, NEW p \in Procs, ReuseInv(p), RepeatInv(p), repeat[p],
         CanRead(Opt(p)), pc[p] = "check", NoneExpired(p)
  PROVE  Fits(p)
<1>1. pc[p] \in Working /\ pc[p] \in Named
  BY DEF Named, Working
<1> DEFINE c == kp[p].cert
<1>2. Written(Dir(p), kp[p], keyPath[p])
  BY <1>1, RepeatAtHand, AtHand DEF EntryFiles
<1>3. c = Dir(p)["crt"] /\ c \in Certificate /\ FitsBelow(CertSpec(p), Opt(p), Entry(p), c, Parent(p))
  BY <1>1, <1>2, RepeatAtHand DEF Written
<1>4. c.key = kp[p].key
  <2>1. PICK x \in KeyForms : OneKeyFile(Dir(p), x) /\ Dir(p)[x].key = Dir(p)["crt"].key
    BY <1>1, RepeatAtHand
  <2>2. x = keyPath[p]
    BY <1>2, <2>1 DEF Written, OneKeyFile
  <2> QED BY <1>2, <1>3, <2>1, <2>2 DEF Written
<1>5. now <= c.notAfter
  <2>1. Entry(p) \in Entries(CertSpec(p)) /\ Dir(p)["crt"] # Absent
    BY <1>1, RepeatAtHand
  <2>2. Dir(p) = fs[CertSpec(p).filename[Entry(p)]]
    BY DEF Dir, Basename
  <2> QED BY <1>3, <2>1, <2>2 DEF NoneExpired
<1>6. c.ca \in BOOLEAN
  BY <1>3 DEF Certificate
<1>7. /\ c.cn = Entry(p) /\ (c.ca <=> IsCA(p))
      /\ EmailProtection(p) => c.email
      /\ IF SelfSigned(p) THEN c.signer = c.key ELSE Parent(p).ca /\ c.signer = Parent(p).key
      /\ IsCA(p) => /\ ConstraintsFit(p)
                    /\ c.permitted = WantPermitted(p)
                    /\ c.pathLen = pathLen(CertSpec(p), Entry(p))
  BY <1>3 DEF FitsBelow, IsCA, EmailProtection, SelfSigned, WantPermitted, ConstraintsFit
<1>8. c.ca = IsCA(p)
  BY <1>6, <1>7 DEF IsCA
<1> QED BY <1>4, <1>5, <1>7, <1>8 DEF Fits

\* What a step of a repetition has to show.
Repeats(p) ==
  /\ pc'[p] \notin {"generate", "rmKey", "rmPFX", "writeCert", "writeKey", "writePFX"}
  /\ pc'[p] \in Settled => reused'[p]
  /\ pc'[p] \in {"statReusedPFX", "readPFX", "statPFX"} => MakesPFX(p)
  /\ pc'[p] = "failed" /\ NoneExpired(p) => why'[p] = "io"
  /\ \A b \in Basenames, x \in {"crt"} \cup KeyForms \cup PFXForms : fs'[b][x] = fs[b][x]

\* It finds every file that it looks for, and has to write none but public keys.
LEMMA StepRepeats ==
  ASSUME IInv, DirInv, CertFirst, NEW p \in Procs, ReuseInv(p), RepeatInv(p), repeat[p],
         CanRead(Opt(p)), Step(p)
  PROVE  Repeats(p)
<1> DEFINE d == Dir(p)
           o == Opt(p)
<1>1. /\ pc[p] \in Working \cup {"idle", "done", "failed"} /\ TypeOK
      /\ DOMAIN pc = Procs /\ DOMAIN why = Procs /\ DOMAIN reused = Procs /\ DOMAIN pfxPath = Procs
      /\ pc[p] \notin {"generate", "rmKey", "rmPFX", "writeCert", "writeKey", "writePFX"}
      /\ pc[p] \in Settled => reused[p]
      /\ pc[p] \in {"statReusedPFX", "readPFX", "statPFX"} => MakesPFX(p)
  BY DEF IInv, TypeOK, RepeatInv, Idle, Ended
<1>2. pc[p] \in Working
  BY DEF Step, Enter, StatKey, StatCert, ReadCert, ReadKey, CheckReused, StatReusedPFX, ReadPFX,
     Generate, GenerateFails, RemoveKey, RemovePFX, WriteCert, WriteKey, StatPFX, WritePFX,
     WriteSSH, NextEntry, IOFails, Working
<1>3. /\ alone[p] /\ ~o.overwrite /\ d["crt"] # Absent
      /\ \E x \in KeyForms : OneKeyFile(d, x) /\ Readable(o, d[x])
      /\ MakesPFX(p) => ReadablePFX(d, o)
      /\ Entry(p) \in CertSpec(p).pfxPasswordEnv => o.env
      /\ Basename(p) \notin Taken(p)
  BY <1>2, RepeatAtHand
<1>4. pc[p] # "enter" => pc[p] \in Named /\ EntryFiles(p, pc[p], d, kp[p], keyPath[p])
  BY <1>2, <1>3, AtHand DEF Named
<1>5. CASE Enter(p)
  <2>1. filenames[p] = Taken(p)
    BY <1>5 DEF DirInv, NamesInv, Enter
  <2> QED BY <1>1, <1>3, <1>5, <2>1 DEF Enter, Repeats, Goto, Settled
<1>6. CASE StatKey(p)
  <2>1. existingPrivateFile(d, "key") # "both"
    BY <1>3 DEF existingPrivateFile, Encrypted, OneKeyFile, KeyForms
  <2> QED BY <1>1, <1>6, <2>1 DEF StatKey, Repeats, Goto, Settled
<1>7. CASE StatCert(p)
  <2>1. keyPath[p] # "none"
    BY <1>3, <1>4, <1>7 DEF StatCert, EntryFiles, NoKeyFile, OneKeyFile
  <2> QED BY <1>1, <1>3, <1>7, <2>1 DEF StatCert, Repeats, Goto, Settled
<1>8. CASE ReadCert(p)
  BY <1>1, <1>3, <1>8 DEF ReadCert, Repeats, Goto, Settled
<1>9. CASE ReadKey(p)
  <2>1. Readable(o, d[keyPath[p]])
    BY <1>3, <1>4, <1>9 DEF ReadKey, EntryFiles, OneKeyFile
  <2> QED BY <1>1, <1>9, <2>1 DEF ReadKey, Repeats, Goto, Settled
<1>10. CASE CheckReused(p)
  <2>1. CASE Fits(p)
    <3>1. /\ pc'[p] \in {"statReusedPFX", "writeSSH", "next"} /\ reused'[p] = TRUE /\ fs' = fs
          /\ pc'[p] = "statReusedPFX" => MakesPFX(p)
      BY <1>1, <1>10, <2>1 DEF CheckReused, AfterPFX, Goto
    <3> QED BY <3>1 DEF Repeats
  <2>2. CASE ~Fits(p)
    <3>1. ~NoneExpired(p)
      BY <1>10, <2>2, RepeatFits DEF CheckReused
    <3>2. pc'[p] = "failed" /\ fs' = fs
      BY <1>1, <1>10, <2>2 DEF CheckReused, Fail, Goto
    <3> QED BY <3>1, <3>2 DEF Repeats, Settled
  <2> QED BY <2>1, <2>2
<1>11. CASE StatReusedPFX(p)
  <2>1. existingPrivateFile(d, "pfx") \notin {"none", "both"}
    BY <1>1, <1>3, <1>11
    DEF StatReusedPFX, ReadablePFX, OnePFXFile, existingPrivateFile, Encrypted, PFXForms
  <2>2. pc'[p] = "readPFX" /\ reused' = reused /\ fs' = fs /\ pc[p] = "statReusedPFX"
    BY <1>1, <1>11, <2>1 DEF StatReusedPFX, Goto
  <2> QED BY <1>1, <2>2 DEF Repeats, Settled
<1>12. CASE ReadPFX(p)
  <2>1. OnePFXFile(d, pfxPath[p])
    <3>1. EntryReuse(p, pc[p], Dir(p), keyPath[p], pfxPath[p], reused[p])
      BY <1>3, <1>4, <1>12, ReuseAtHand DEF ReadPFX
    <3> QED BY <1>12, <3>1 DEF ReadPFX, EntryReuse
  <2>2. Readable(o, d[pfxPath[p]])
    BY <1>1, <1>3, <1>12, <2>1 DEF ReadPFX, ReadablePFX, OnePFXFile
  <2>3. pc'[p] = "statPFX" /\ reused' = reused /\ fs' = fs /\ pc[p] = "readPFX"
    BY <1>1, <1>12, <2>2 DEF ReadPFX, Goto
  <2> QED BY <1>1, <2>3 DEF Repeats, Settled
<1>13. CASE StatPFX(p)
  <2>1. existingPrivateFile(d, "pfx") \notin {"none", "both"}
    BY <1>1, <1>3, <1>13
    DEF StatPFX, ReadablePFX, OnePFXFile, existingPrivateFile, Encrypted, PFXForms
  <2>2. reused[p]
    BY <1>1, <1>13 DEF StatPFX, Settled
  <2>3. pc'[p] \in {"writeSSH", "next"} /\ reused' = reused /\ fs' = fs
    BY <1>1, <1>13, <2>1, <2>2 DEF StatPFX, AfterPFX, Goto, entry
  <2> QED BY <2>2, <2>3 DEF Repeats
<1>14. CASE WriteSSH(p)
  <2>1. pc'[p] = "next" /\ reused' = reused /\ pc[p] = "writeSSH"
    BY <1>1, <1>14 DEF WriteSSH, Goto, entry
  <2>2. reused[p]
    BY <1>1, <2>1 DEF Settled
  <2>3. ASSUME NEW b \in Basenames, NEW x \in {"crt"} \cup KeyForms \cup PFXForms
        PROVE  fs'[b][x] = fs[b][x]
    <3> DEFINE y == PublicHalf(keyPath[p])
    <3>1. y \in Extensions /\ x \in Extensions /\ x # y
      BY DEF PublicHalf, Extensions, KeyForms, PFXForms, Pubs
    <3>2. Put(p, y, kp[p].cert.key)
      BY <1>14 DEF WriteSSH
    <3>3. TypeOK
      BY <1>1
    <3>4. /\ b # Basename(p) => fs'[b] = fs[b]
          /\ fs'[Basename(p)][x] = d[x]
      BY <3>1, <3>2, <3>3, PutAt
    <3> QED BY <3>4 DEF Dir
  <2> QED BY <2>1, <2>2, <2>3 DEF Repeats
<1>15. CASE NextEntry(p)
  <2>1. pc'[p] \in {"enter", "done"} /\ fs' = fs
    BY <1>1, <1>15 DEF NextEntry, Goto
  <2> QED BY <2>1 DEF Repeats, Settled
<1>16. CASE IOFails(p)
  <2>1. pc'[p] = "failed" /\ why'[p] = "io" /\ fs' = fs
    BY <1>1, <1>16 DEF IOFails, Fail, Goto
  <2> QED BY <2>1 DEF Repeats, Settled
<1> QED BY <1>1, <1>5, <1>6, <1>7, <1>8, <1>9, <1>10, <1>11, <1>12, <1>13, <1>14, <1>15, <1>16
    DEF Step, Generate, GenerateFails, RemoveKey, RemovePFX, WriteCert, WriteKey, WritePFX

\* So it stays a repetition.
LEMMA StepRepeat ==
  ASSUME IInv, DirInv, CertFirst, NEW p \in Procs, ReuseInv(p), RepeatInv(p), Step(p)
  PROVE  RepeatInv(p)'
<1>1. /\ TypeOK /\ task' = task /\ alone' = alone /\ repeat' = repeat /\ now' = now
      /\ CertSpec(p)' = CertSpec(p) /\ Opt(p)' = Opt(p) /\ CanRead(Opt(p))' = CanRead(Opt(p))
  BY DEF IInv, Step, Enter, StatKey, StatCert, ReadCert, ReadKey, CheckReused, StatReusedPFX, ReadPFX,
     Generate, GenerateFails, RemoveKey, RemovePFX, WriteCert, WriteKey, StatPFX, WritePFX,
     WriteSSH, NextEntry, IOFails, local, world, CertSpec, Opt, CanRead
<1>2. ASSUME repeat[p], CanRead(Opt(p))
      PROVE  /\ Reuses(fs, task[p])'
             /\ pc'[p] \notin {"generate", "rmKey", "rmPFX", "writeCert", "writeKey", "writePFX"}
             /\ pc'[p] \in Settled => reused'[p]
             /\ pc'[p] \in {"statReusedPFX", "readPFX", "statPFX"} => MakesPFX(p)'
             /\ pc'[p] = "failed" /\ NoneExpired(p)' => why'[p] = "io"
  <2>1. Repeats(p) /\ Reuses(fs, task[p]) /\ task[p].spec = CertSpec(p)
    BY <1>2, StepRepeats DEF RepeatInv, CertSpec
  <2>2. Reuses(fs', task[p])
    <3>1. \A n \in Entries(CertSpec(p)), x \in {"crt"} \cup KeyForms \cup PFXForms :
            fs'[CertSpec(p).filename[n]][x] = fs[CertSpec(p).filename[n]][x]
      BY <1>1, <2>1, ParentsAreEntries DEF Repeats
    <3> QED BY <1>1, <2>1, <3>1, ParentsAreEntries, ReusesStays
  <2>3. pc'[p] \in {"statReusedPFX", "readPFX", "statPFX"} => MakesPFX(p)'
    <3>1. ~NextEntry(p) => SameEntry(p)
      BY DEF Step, SameEntry, local, Enter, StatKey, StatCert, ReadCert, ReadKey, CheckReused,
         StatReusedPFX, ReadPFX, Generate, GenerateFails, RemoveKey, RemovePFX, WriteCert, WriteKey,
         StatPFX, WritePFX, WriteSSH, IOFails
    <3>2. NextEntry(p) => pc'[p] \in {"enter", "done"}
      BY <1>1 DEF NextEntry, Goto, TypeOK
    <3> QED BY <2>1, <3>1, <3>2, NamesKept DEF Repeats
  <2>4. NoneExpired(p)' => NoneExpired(p)
    <3>1. \A n \in Entries(CertSpec(p)) :
            fs'[CertSpec(p).filename[n]]["crt"] = fs[CertSpec(p).filename[n]]["crt"]
      BY <1>1, <2>1, ParentsAreEntries DEF Repeats
    <3> QED BY <1>1, <3>1 DEF NoneExpired, Entries
  <2> QED BY <1>1, <2>1, <2>2, <2>3, <2>4 DEF Repeats
<1> QED BY <1>1, <1>2 DEF RepeatInv

-----------------------------------------------------------------------------
(* The invariant of reuse.                                                 *)

\* A step of no run, before any deletion, changes nothing.
LEMMA QuietRerun ==
  ASSUME IInv, RerunInv, edits = 0, now' \in Nat, now' >= now,
         UNCHANGED <<fs, last, pc, task, alone, repeat, pos, mem, entry, why>>
  PROVE  RerunInv'
<1>1. ASSUME NEW p \in Procs
      PROVE  /\ SameEntry(p) /\ reused' = reused /\ pc' = pc
             /\ CertSpec(p)' = CertSpec(p) /\ Opt(p)' = Opt(p) /\ Finished(p)' = Finished(p)
             /\ Entry(p)' = Entry(p) /\ Basename(p)' = Basename(p) /\ MakesPFX(p)' = MakesPFX(p)
             /\ Dir(p)' = Dir(p)
  <2>1. SameEntry(p)
    BY DEF SameEntry
  <2> QED BY <2>1, EntryKept, NamesKept DEF entry, Dir
<1>2. CertFirst'
  BY <1>1 DEF RerunInv, CertFirst, NoPFXFile
<1>3. LastInv'
  BY DEF RerunInv, LastInv, AllIdle, CanRead
<1>4. ASSUME NEW p \in Procs PROVE ReuseInv(p)'
  <2>1. EntryReuse(p, pc[p], Dir(p), keyPath[p], pfxPath[p], reused[p])
        => EntryReuse(p, pc[p], Dir(p), keyPath[p], pfxPath[p], reused[p])'
    BY <1>1 DEF EntryReuse, entry, ReadablePFX
  <2>2. \A n : ReusableFiles(fs, CertSpec(p), Opt(p), n) => ReusableFiles(fs, CertSpec(p), Opt(p), n)'
    BY <1>1 DEF ReusableFiles
  <2>3. DistinctNames(CertSpec(p), Finished(p)) => DistinctNames(CertSpec(p), Finished(p))'
    BY <1>1 DEF DistinctNames
  <2> QED BY <1>1, <2>1, <2>2, <2>3 DEF RerunInv, ReuseInv, CanRead
<1>5. ASSUME NEW p \in Procs PROVE RepeatInv(p)'
  <2>1. NoneExpired(p)' => NoneExpired(p)
    <3> SUFFICES ASSUME NoneExpired(p)', NEW n \in Entries(CertSpec(p)),
                        fs[CertSpec(p).filename[n]]["crt"] # Absent
                 PROVE  now <= fs[CertSpec(p).filename[n]]["crt"].notAfter
      BY DEF NoneExpired
    <3> DEFINE c == fs[CertSpec(p).filename[n]]["crt"]
    <3>1. TypeOK /\ CertSpec(p).filename[n] \in Basenames
      BY ParentsAreEntries DEF IInv
    <3>2. c \in Certificate /\ now \in Nat
      BY <3>1 DEF TypeOK
    <3>3. c.notAfter \in Nat
      BY <3>2 DEF Certificate
    <3>4. now' <= c.notAfter
      BY <1>1 DEF NoneExpired, Entries
    <3> QED BY <3>2, <3>3, <3>4
  <2>2. Reuses(fs, task[p]) => Reuses(fs, task[p])'
    OBVIOUS
  <2> QED BY <1>1, <2>1, <2>2 DEF RerunInv, RepeatInv, CanRead
<1> QED BY <1>2, <1>3, <1>4, <1>5 DEF RerunInv

\* A step of a run changes nothing of the others; it is not between runs.
LEMMA RunRerun ==
  ASSUME IInv, DirInv, RerunInv, edits = 0, NEW p \in Procs, Step(p)
  PROVE  RerunInv'
<1>1. /\ CertFirst /\ LastInv /\ \A q \in Procs : ReuseInv(q) /\ RepeatInv(q)
  BY DEF RerunInv
<1>2. pc[p] # "idle" /\ last' = last /\ repeat' = repeat /\ alone' = alone
      /\ \A q \in Procs \ {p} : reused'[q] = reused[q] /\ why'[q] = why[q]
  BY DEF IInv, TypeOK, Step, Enter, StatKey, StatCert, ReadCert, ReadKey, CheckReused, StatReusedPFX,
     ReadPFX, Generate, GenerateFails, RemoveKey, RemovePFX, WriteCert, WriteKey, StatPFX, WritePFX,
     WriteSSH, NextEntry, IOFails, local, world, entry, Fail
<1>3. Others(p)
  BY EnterKeeps, StatKeyKeeps, StatCertKeeps, ReadCertKeeps, ReadKeyKeeps, CheckReusedKeeps,
     StatReusedPFXKeeps, ReadPFXKeeps, GenerateKeeps, GenerateFailsKeeps, RemoveKeyKeeps,
     RemovePFXKeeps, WriteCertKeeps, WriteKeyKeeps, StatPFXKeeps, WritePFXKeeps, WriteSSHKeeps,
     NextEntryKeeps, IOFailsKeeps DEF Step, Keeps
<1>4. SameEntry(p) \/ NextEntry(p)
  BY DEF Step, SameEntry, local, Enter, StatKey, StatCert, ReadCert, ReadKey, CheckReused,
     StatReusedPFX, ReadPFX, Generate, GenerateFails, RemoveKey, RemovePFX, WriteCert, WriteKey,
     StatPFX, WritePFX, WriteSSH, IOFails
<1>5. CertFirst'
  BY <1>1, <1>3, <1>4, StepCertFirst
<1>6. LastInv'
  <2>1. last = <<>>
    BY <1>1, <1>2 DEF LastInv, AllIdle
  <2> QED BY <1>2, <2>1 DEF LastInv
<1>7. ReuseInv(p)' /\ RepeatInv(p)'
  BY <1>1, StepReuse, StepRepeat
<1>8. ASSUME NEW q \in Procs \ {p} PROVE ReuseInv(q)' /\ RepeatInv(q)'
  <2>1. ReuseInv(q)'
    <3>1. Same(q)
      BY <1>3 DEF Others
    <3> QED BY <1>1, <1>2, <3>1, OthersReuse
  <2>2. ~alone[q]
    BY <1>2 DEF DirInv, AloneInv
  <2>3. ~repeat'[q]
    BY <1>1, <1>2, <2>2 DEF RepeatInv
  <2> QED BY <2>1, <2>3 DEF RepeatInv
<1> QED BY <1>5, <1>6, <1>7, <1>8 DEF RerunInv

\* A run that begins repeats one when the directory holds what that one left.
LEMMA StartRerun ==
  ASSUME IInv, DirInv, RerunInv, edits = 0, NEW p \in Procs, Start(p)
  PROVE  RerunInv'
<1>1. /\ CertFirst /\ LastInv /\ \A q \in Procs : ReuseInv(q) /\ RepeatInv(q)
  BY DEF RerunInv
<1>2. TypeOK /\ Others(p) /\ pc[p] = "idle" /\ pc'[p] = "enter" /\ fs' = fs /\ last' = <<>>
      /\ reused' = reused
  BY StartKeeps DEF Keeps, Start, IInv, TypeOK, Goto, entry
<1>3. CertFirst'
  <2>1. ASSUME NEW q \in Procs, pc'[q] \in AfterCert PROVE (Dir(q)["crt"] # Absent)'
    <3>1. q # p
      BY <1>2, <2>1 DEF AfterCert
    <3>2. SameEntry(q) /\ pc'[q] = pc[q]
      BY <1>2, <3>1 DEF Others, Same, SameEntry
    <3> QED BY <1>1, <1>2, <2>1, <3>2, NamesKept DEF CertFirst, Dir
  <2> QED BY <1>1, <1>2, <2>1 DEF CertFirst, NoPFXFile
<1>4. LastInv'
  BY <1>2 DEF LastInv
<1>5. ASSUME NEW q \in Procs \ {p} PROVE ReuseInv(q)' /\ RepeatInv(q)'
  <2>1. ~alone'[q] /\ ~repeat'[q]
    BY DEF Start
  <2>2. Same(q)
    BY <1>2 DEF Others
  <2>3. ReuseInv(q)'
    BY <1>1, <1>2, <2>1, <2>2, OthersReuse
  <2> QED BY <2>1, <2>3 DEF RepeatInv
<1>6. ReuseInv(p)'
  BY <1>1, StartReuse
<1>7. RepeatInv(p)'
  <2>1. PICK s \in Specs, o \in Options :
          /\ task' = [task EXCEPT ![p] = [spec |-> s, opt |-> o]]
          /\ alone' = [q \in Procs |-> q = p /\ \A r \in Procs : pc[r] = "idle"]
          /\ repeat' = [q \in Procs |-> /\ q = p /\ \A r \in Procs : pc[r] = "idle"
                                        /\ last # <<>> /\ SameButOverwrite(last[1], s, o)
                                        /\ ~o.overwrite]
    BY DEF Start
  <2>2. task'[p] = [spec |-> s, opt |-> o] /\ Opt(p)' = o
    BY <1>2, <2>1 DEF TypeOK, Opt
  <2>3. ASSUME repeat'[p], CanRead(o) PROVE Reuses(fs, [spec |-> s, opt |-> o])
    <3>1. last # <<>> /\ SameButOverwrite(last[1], s, o)
      BY <2>1, <2>3
    <3>2. last[1] \in Task
      BY <1>2, <3>1 DEF TypeOK
    <3>3. last[1].opt \in SpecOptions /\ o \in SpecOptions
      BY <3>2, OptionsAssumption DEF Task
    <3>4. CanRead(last[1].opt) => Reuses(fs, last[1])
      BY <1>1, <3>1 DEF LastInv
    <3> QED BY <2>3, <3>1, <3>2, <3>3, <3>4, SameReuses
  <2>4. repeat'[p] => alone'[p] /\ ~o.overwrite
    BY <2>1
  <2>5. CanRead(Opt(p))' <=> CanRead(o)
    BY <2>2 DEF CanRead
  <2>6. Reuses(fs, [spec |-> s, opt |-> o]) => Reuses(fs, task[p])'
    BY <1>2, <2>2
  <2> QED BY <1>2, <2>2, <2>3, <2>4, <2>5, <2>6 DEF RepeatInv, Settled
<1> QED BY <1>3, <1>4, <1>5, <1>6, <1>7 DEF RerunInv

\* A run that ends alone leaves what can be reused; a killed one leaves no promise.
LEMMA ForgetRerun ==
  ASSUME IInv, DirInv, HistoryInv, RerunInv, edits = 0, NEW p \in Procs, Exit(p) \/ Crash(p)
  PROVE  RerunInv'
<1>1. /\ CertFirst /\ LastInv /\ \A q \in Procs : ReuseInv(q) /\ RepeatInv(q)
  BY DEF RerunInv
<1>2. /\ TypeOK /\ Others(p) /\ pc[p] # "idle" /\ pc'[p] = "idle" /\ fs' = fs /\ Forget(p)
      /\ ~reused'[p] /\ ~repeat'[p] /\ ~alone'[p]
      /\ \A q \in Procs \ {p} : /\ reused'[q] = reused[q] /\ alone'[q] = alone[q]
                               /\ repeat'[q] = repeat[q]
  <2>1. TypeOK /\ Others(p) /\ pc[p] # "idle" /\ fs' = fs /\ Forget(p)
    BY ExitKeeps, CrashKeeps DEF Keeps, Exit, Crash, IInv, Ended, Working
  <2> QED BY <2>1 DEF Forget, TypeOK, Goto
<1>3. CertFirst'
  <2>1. ASSUME NEW q \in Procs, pc'[q] \in AfterCert PROVE (Dir(q)["crt"] # Absent)'
    <3>1. q # p
      BY <1>2, <2>1 DEF AfterCert
    <3>2. SameEntry(q) /\ pc'[q] = pc[q]
      BY <1>2, <3>1 DEF Others, Same, SameEntry
    <3> QED BY <1>1, <1>2, <2>1, <3>2, NamesKept DEF CertFirst, Dir
  <2> QED BY <1>1, <1>2, <2>1 DEF CertFirst, NoPFXFile
<1>4. LastInv'
  <2>1. CASE last' = <<>>
    BY <2>1 DEF LastInv
  <2>2. CASE last' # <<>>
    <3>1. last = <<>>
      BY <1>1, <1>2 DEF LastInv, AllIdle
    <3>2. pc[p] = "done" /\ alone[p] /\ last' = <<task[p]>>
      BY <2>2, <3>1 DEF Exit, Crash, world
    <3>3. AllIdle'
      BY <1>2, <3>2 DEF DirInv, AloneInv, AllIdle, Others, Same
    <3>4. CanRead(Opt(p)) => Reuses(fs, task[p])
      BY <1>1, <3>2, DoneReuses DEF HistoryInv
    <3>5. last'[1] = task[p] /\ task[p].opt = Opt(p)
      BY <3>2 DEF Opt
    <3>6. CanRead(last[1].opt)' => CanRead(Opt(p))
      BY <3>5 DEF CanRead
    <3>7. Reuses(fs, task[p]) => Reuses(fs, last[1])'
      BY <1>2, <3>5
    <3> QED BY <3>3, <3>4, <3>6, <3>7 DEF LastInv
  <2> QED BY <2>1, <2>2
<1>5. ASSUME NEW q \in Procs \ {p} PROVE ReuseInv(q)' /\ RepeatInv(q)'
  <2>1. Same(q) /\ ~alone[q]
    BY <1>2 DEF Others, DirInv, AloneInv
  <2>2. ReuseInv(q)'
    BY <1>1, <1>2, <2>1, OthersReuse
  <2> QED BY <1>1, <1>2, <2>1, <2>2 DEF RepeatInv
<1>6. ReuseInv(p)' /\ RepeatInv(p)'
  BY <1>2 DEF ReuseInv, RepeatInv, Working
<1> QED BY <1>3, <1>4, <1>5, <1>6 DEF RerunInv

\* Every step keeps the invariant.
LEMMA StepRerun == IInv /\ DirInv /\ HistoryInv /\ RerunInv /\ [Next]_vars => RerunInv'
<1> SUFFICES ASSUME IInv, DirInv, HistoryInv, RerunInv, [Next]_vars PROVE RerunInv'
  OBVIOUS
<1>1. edits \in Nat /\ now \in Nat
  BY DEF IInv, TypeOK
<1>2. CASE edits' # 0
  BY <1>2 DEF RerunInv
<1>3. CASE edits' = 0
  <2>1. ASSUME NEW b \in Basenames PROVE ~DeletePair(b) /\ \A x \in Extensions : ~DeleteFile(b, x)
    BY <1>1, <1>3 DEF DeletePair, DeleteFile
  <2>2. ASSUME NEW p \in Procs, Step(p) PROVE RerunInv'
    <3>1. edits' = edits
      BY <2>2 DEF Step, Enter, StatKey, StatCert, ReadCert, ReadKey, CheckReused, StatReusedPFX, ReadPFX,
         Generate, GenerateFails, RemoveKey, RemovePFX, WriteCert, WriteKey, StatPFX, WritePFX,
         WriteSSH, NextEntry, IOFails, world
    <3> QED BY <1>3, <2>2, <3>1, RunRerun
  <2>3. ASSUME NEW p \in Procs, Start(p) PROVE RerunInv'
    BY <1>3, <2>3, StartRerun DEF Start
  <2>4. ASSUME NEW p \in Procs, Exit(p) \/ Crash(p) PROVE RerunInv'
    BY <1>3, <2>4, ForgetRerun DEF Exit, Crash, world
  <2>5. CASE Tick
    BY <1>1, <1>3, <2>5, QuietRerun DEF Tick, local
  <2>6. CASE UNCHANGED vars
    BY <1>1, <1>3, <2>6, QuietRerun DEF vars, local, world
  <2> QED BY <2>1, <2>2, <2>3, <2>4, <2>5, <2>6 DEF Next
<1> QED BY <1>2, <1>3

\* No file and no run.
LEMMA InitRerun == Init => RerunInv
BY DEF Init, RerunInv, CertFirst, NoPFXFile, LastInv, ReuseInv, RepeatInv, AfterCert, Working,
   PFXForms, Extensions, Basename

\* docs/scenarios.md:20: until the user deletes a file, a run without --overwrite
\* that repeats one that succeeded regenerates nothing and, unless a certificate
\* has expired, fails for want of I/O only.
THEOREM RepeatsReuse == Spec => [](edits = 0 => RerunReuses)
<1>1. IInv /\ RerunInv => (edits = 0 => RerunReuses)
  BY DEF RerunInv, RepeatInv, RerunReuses, CanRead
<1>2. Spec => [](IInv /\ DirInv /\ HistoryInv /\ RerunInv)
  BY InitIInv, StepIInv, InitDir, StepDir, InitHistory, StepHistory, InitRerun, StepRerun, PTL DEF Spec
<1> QED BY <1>1, <1>2, PTL
============================================================================
