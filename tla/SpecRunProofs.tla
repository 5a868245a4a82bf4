---------------------------- MODULE SpecRunProofs ----------------------------
(***************************************************************************)
(* For any specs, options, processes and bounds: the types, that the key   *)
(* pairs a run holds form the hierarchy of its spec, whatever is in the    *)
(* directory and whatever other runs do to it meanwhile, and that the      *)
(* certificates are what the spec says of them.                            *)
(*                                                                         *)
(* The argument: what a run has finished is exactly what precedes its      *)
(* position in the spec's order, so an entry's parent, which precedes it,  *)
(* is there when the entry is checked or issued and is never replaced      *)
(* afterwards.  The pair at hand is Sound once CheckReused or Generate has *)
(* let it pass, and later steps do not touch its key or its certificate.   *)
(*                                                                         *)
(* What a certificate says follows from the tree of the spec, in which     *)
(* signsEmail is recursive, and from the history of its key:               *)
(* a key is generated once and certified once, so a certificate that is    *)
(* found again, below whatever signed it, is the one that was issued.      *)
(***************************************************************************)
EXTENDS SpecRun, FiniteSetTheorems, TLAPS

\* The steps at which a run holds a pair that passed, and all at which it holds one.
Passed == {"statReusedPFX", "readPFX", "rmKey", "rmPFX", "writeCert", "writeKey",
           "statPFX", "writePFX", "writeSSH", "next"}
Holding == {"readKey", "check"} \cup Passed

\* The pair at hand is the entry's, and its parent signed it.
Sound(p) ==
  LET c == kp[p].cert IN
    /\ c.key = kp[p].key /\ c.cn = Entry(p)
    /\ c.ca <=> IsCA(p)
    /\ c.signer = IF SelfSigned(p) THEN kp[p].key ELSE Parent(p).key

MemSound(p, n) ==
  LET c == mem[p][n].cert IN
    /\ c.key = mem[p][n].key /\ c.cn = n
    /\ c.ca <=> n \in CertSpec(p).certificateAuthority
    /\ CertSpec(p).parent[n] # TopLevel => CertSpec(p).parent[n] \in Finished(p)
    /\ c.signer = SignerOf(p, n)

\* The entries before the one that the run is at.
Before(p) == {CertSpec(p).order[i] : i \in 1..(pos[p] - 1)}

\* What a run has finished,
MemInv(p) ==
  /\ pc[p] = "idle" => pos[p] = 1 /\ Finished(p) = {}
  /\ pc[p] \in Working => Finished(p) = Before(p)
  /\ pc[p] = "done" => Finished(p) = Entries(CertSpec(p))
  /\ \A n \in Finished(p) : MemSound(p, n)

\* and what it holds of the entry it is at.
EntryInv(p) ==
  /\ pc[p] \in {"readCert", "readKey"} => keyPath[p] # "none"
  /\ pc[p] = "readPFX" => pfxPath[p] # "none"
  /\ pc[p] \in Holding => kp[p] \in KeyPair
  /\ pc[p] \in Passed => Sound(p)

IInv == TypeOK /\ \A p \in Procs : MemInv(p) /\ EntryInv(p)

-----------------------------------------------------------------------------
(* The entry a run is at.                                                  *)

\* Its spec is one that validateSpec accepts, and its position is in it.
LEMMA EntryTyped ==
  ASSUME TypeOK, NEW p \in Procs
  PROVE  /\ CertSpec(p) \in CertificateSpec /\ validateSpec(CertSpec(p))
         /\ Opt(p) \in SpecOptions
         /\ Entry(p) \in Nodes /\ Basename(p) \in Basenames
         /\ pos[p] \in 1..Len(CertSpec(p).order)
<1>1. task[p].spec \in Specs /\ task[p].opt \in Options /\ pos[p] \in 1..Len(CertSpec(p).order)
  BY DEF TypeOK, Task
<1>2. CertSpec(p) \in CertificateSpec /\ validateSpec(CertSpec(p)) /\ Opt(p) \in SpecOptions
  BY <1>1, SpecsAssumption, OptionsAssumption DEF CertSpec, Opt
<1>3. CertSpec(p).order \in Seq(Nodes) /\ CertSpec(p).filename \in [Nodes -> Basenames]
  BY <1>2 DEF CertificateSpec
<1>4. Entry(p) \in Nodes
  BY <1>1, <1>3 DEF Entry
<1> QED BY <1>1, <1>2, <1>3, <1>4 DEF Basename

\* Its parent, if it has one, precedes it; it does not precede itself.
LEMMA ParentBefore ==
  ASSUME TypeOK, NEW p \in Procs
  PROVE  /\ Entry(p) \notin Before(p)
         /\ CertSpec(p).parent[Entry(p)] # TopLevel => CertSpec(p).parent[Entry(p)] \in Before(p)
<1>1. validateSpec(CertSpec(p)) /\ pos[p] \in 1..Len(CertSpec(p).order)
  BY EntryTyped
<1>2. Len(CertSpec(p).order) \in Nat
  <2>1. CertSpec(p).order \in Seq(Nodes)
    BY EntryTyped DEF CertificateSpec
  <2> QED BY <2>1
<1>3. Entry(p) = CertSpec(p).order[pos[p]]
  BY DEF Entry
<1>4. \A i \in 1..(pos[p] - 1) : i \in 1..Len(CertSpec(p).order) /\ i # pos[p]
  BY <1>1, <1>2
<1>5. Entry(p) \notin Before(p)
  BY <1>1, <1>3, <1>4 DEF validateSpec, Before
<1>6. ASSUME CertSpec(p).parent[Entry(p)] # TopLevel
      PROVE  CertSpec(p).parent[Entry(p)] \in Before(p)
  BY <1>1, <1>3, <1>6 DEF validateSpec, Before
<1> QED BY <1>5, <1>6

\* The parent's certificate has the types of one.
LEMMA ParentTyped ==
  ASSUME IInv, NEW p \in Procs, pc[p] \in Working
  PROVE  Parent(p).key \in Nat /\ Parent(p).permitted \in SUBSET Domains /\ Parent(p).notAfter \in Nat
<1>1. CASE CertSpec(p).parent[Entry(p)] = TopLevel
  <2>1. Parent(p) = IssuerCertificate
    BY <1>1 DEF Parent
  <2> QED BY <2>1, IssuerAssumption DEF IssuerCertificate, IssuerKey
<1>2. CASE CertSpec(p).parent[Entry(p)] # TopLevel
  <2> DEFINE n == CertSpec(p).parent[Entry(p)]
  <2>1. n \in Finished(p)
    BY <1>2, ParentBefore DEF IInv, MemInv
  <2>2. mem[p][n] \in KeyPair
    BY <2>1 DEF Finished, IInv, TypeOK
  <2>3. Parent(p) = mem[p][n].cert
    BY <1>2 DEF Parent
  <2> QED BY <2>2, <2>3 DEF KeyPair, Certificate
<1> QED BY <1>1, <1>2

\* A certificate that Generate makes is one.
LEMMA NewCertificateTyped ==
  ASSUME IInv, NEW p \in Procs, pc[p] \in Working
  PROVE  NewCertificate(p) \in Certificate
<1> DEFINE c == NewCertificate(p)
<1>1. TypeOK /\ nextKey \in Nat /\ now \in Nat
  BY DEF IInv, TypeOK
<1>2. Parent(p).key \in Nat /\ Parent(p).permitted \in SUBSET Domains /\ Parent(p).notAfter \in Nat
  BY ParentTyped
<1>3. /\ CertSpec(p) \in CertificateSpec /\ CertSpec(p) \in Specs /\ Entry(p) \in Nodes
      /\ CertSpec(p).permitted[Entry(p)] \in SUBSET Domains
      /\ CertSpec(p).validity[Entry(p)] \in Nat
  <2>1. CertSpec(p) \in CertificateSpec /\ Entry(p) \in Nodes
    BY <1>1, EntryTyped
  <2>2. CertSpec(p) \in Specs
    BY <1>1 DEF TypeOK, Task, CertSpec
  <2> QED BY <2>1, <2>2 DEF CertificateSpec
<1>4. c.key \in Nat /\ c.signer \in Nat /\ c.cn \in Nodes
  BY <1>1, <1>2, <1>3 DEF NewCertificate
<1>5. c.ca \in BOOLEAN /\ c.email \in BOOLEAN
  BY DEF NewCertificate, IsCA
<1>6. c.permitted \in SUBSET Domains
  BY <1>2, <1>3 DEF NewCertificate, WantPermitted
<1>7. c.pathLen \in PathLengths
  BY <1>3 DEF NewCertificate, PathLengths
<1>8. NotAfter(p) \in Nat
  BY <1>1, <1>2, <1>3 DEF NotAfter
<1>9. c.notAfter \in Nat
  BY <1>8 DEF NewCertificate
<1>10. c = [key |-> c.key, signer |-> c.signer, cn |-> c.cn, ca |-> c.ca, permitted |-> c.permitted,
            pathLen |-> c.pathLen, email |-> c.email, notAfter |-> c.notAfter]
  BY DEF NewCertificate
<1> HIDE DEF c
<1>11. c \in Certificate
  BY <1>4, <1>5, <1>6, <1>7, <1>9, <1>10 DEF Certificate
<1> QED BY <1>11 DEF c

-----------------------------------------------------------------------------
(* What a step leaves alone.                                               *)

\* The conjuncts of TypeOK that a step of a run can disturb.
FsTyped ==
  /\ DOMAIN fs = Basenames
  /\ \A b \in Basenames :
       /\ DOMAIN fs[b] = Extensions
       /\ fs[b]["crt"] \in Certificate \cup {Absent}
       /\ \A x \in KeyForms \cup PFXForms : fs[b][x] \in PrivateFile \cup {Absent}
       /\ \A x \in Pubs : fs[b][x] \in Nat \cup {Absent}
StateTyped ==
  /\ pc \in [Procs -> Idle \cup Ended \cup Working]
  /\ why \in [Procs -> {"none", "collision", "env", "existing", "generate", "io"}]
PairTyped ==
  /\ kp \in [Procs -> KeyPair \cup {NoPair}]
  /\ keyPath \in [Procs -> KeyForms \cup {"none"}]
  /\ pfxPath \in [Procs -> PFXForms \cup {"none"}]
  /\ reused \in [Procs -> BOOLEAN]
NamesTyped == filenames \in [Procs -> SUBSET Basenames]

\* The parts of TypeOK, so that a step cites those it needs.
LEMMA Parts == TypeOK => FsTyped /\ StateTyped /\ PairTyped /\ NamesTyped
BY DEF TypeOK, FsTyped, StateTyped, PairTyped, NamesTyped

\* The part of the state that the invariant speaks of for process q.
Same(q) == /\ pc'[q] = pc[q] /\ task'[q] = task[q] /\ pos'[q] = pos[q] /\ mem'[q] = mem[q]
           /\ kp'[q] = kp[q] /\ keyPath'[q] = keyPath[q] /\ pfxPath'[q] = pfxPath[q]
Others(p) == \A q \in Procs \ {p} : Same(q)
Keeps(p) == TypeOK' /\ Others(p) /\ MemInv(p)' /\ EntryInv(p)'
SameEntry(q) == task'[q] = task[q] /\ pos'[q] = pos[q] /\ mem'[q] = mem[q]

\* Nothing said of a run's entry or of what it has finished changes with the others.
LEMMA EntryKept ==
  ASSUME NEW p \in Procs, SameEntry(p)
  PROVE  /\ CertSpec(p)' = CertSpec(p) /\ Opt(p)' = Opt(p) /\ Entry(p)' = Entry(p)
         /\ IsCA(p)' = IsCA(p) /\ SelfSigned(p)' = SelfSigned(p) /\ Parent(p)' = Parent(p)
         /\ Finished(p)' = Finished(p) /\ Before(p)' = Before(p)
         /\ \A n : MemSound(p, n)' <=> MemSound(p, n)
<1>1. CertSpec(p)' = CertSpec(p) /\ Opt(p)' = Opt(p)
  BY DEF SameEntry, CertSpec, Opt
<1>2. Entry(p)' = Entry(p) /\ Finished(p)' = Finished(p) /\ Before(p)' = Before(p)
  BY <1>1 DEF SameEntry, Entry, Finished, Before
<1>3. IsCA(p)' = IsCA(p) /\ SelfSigned(p)' = SelfSigned(p) /\ Parent(p)' = Parent(p)
  BY <1>1, <1>2 DEF SameEntry, IsCA, SelfSigned, Parent, IssuerCertificate
<1>4. ASSUME NEW n PROVE MemSound(p, n)' <=> MemSound(p, n)
  BY <1>1, <1>2 DEF SameEntry, MemSound, SignerOf
<1> QED BY <1>1, <1>2, <1>3, <1>4

\* A step of another run keeps what is said of this one.
LEMMA SameKeeps ==
  ASSUME NEW q \in Procs, MemInv(q), EntryInv(q), Same(q)
  PROVE  MemInv(q)' /\ EntryInv(q)'
<1>1. SameEntry(q)
  BY DEF Same, SameEntry
<1>2. MemInv(q)'
  BY <1>1, EntryKept DEF Same, MemInv
<1>3. EntryInv(q)'
  BY <1>1, EntryKept DEF Same, EntryInv, Sound
<1> QED BY <1>2, <1>3

\* A step within an entry: of its own run it changes the step, the files and
\* the pair at hand.
Within(p) ==
  /\ pc[p] \in Working /\ pc'[p] \in Working \cup {"failed"}
  /\ UNCHANGED <<world, local, pos, mem>> /\ nextKey' \in Nat
  /\ FsTyped' /\ StateTyped' /\ PairTyped' /\ NamesTyped'
  /\ \A q \in Procs \ {p} :
       pc'[q] = pc[q] /\ kp'[q] = kp[q] /\ keyPath'[q] = keyPath[q] /\ pfxPath'[q] = pfxPath[q]

\* Such a step keeps all but what EntryInv says, which each step has to show.
LEMMA WithinKeeps ==
  ASSUME IInv, NEW p \in Procs, Within(p), EntryInv(p)'
  PROVE  Keeps(p)
<1>1. UNCHANGED <<now, runs, edits, last, task, alone, repeat, pos, mem>>
  BY DEF Within, world, local
<1>2. TypeOK'
  <2>1. TypeOK /\ nextKey' \in Nat /\ FsTyped' /\ StateTyped' /\ PairTyped' /\ NamesTyped'
    BY DEF IInv, Within
  <2>2. \A q \in Procs : (pos[q] \in 1..Len(CertSpec(q).order))'
    BY <1>1, <2>1 DEF TypeOK, CertSpec
  <2> QED BY <1>1, <2>1, <2>2 DEF TypeOK, FsTyped, StateTyped, PairTyped, NamesTyped
<1>3. Others(p)
  BY <1>1 DEF Within, Others, Same
<1>4. MemInv(p)'
  <2>1. SameEntry(p)
    BY <1>1 DEF SameEntry
  <2>2. pc[p] \in Working /\ pc'[p] # "idle" /\ pc'[p] # "done" /\ MemInv(p)
    BY DEF Within, IInv, Working
  <2> QED BY <2>1, <2>2, EntryKept DEF MemInv
<1> QED BY <1>2, <1>3, <1>4 DEF Keeps

\* A step that keeps the entry, the certificate and the key.
LEMMA SoundKept ==
  ASSUME NEW p \in Procs, SameEntry(p), Sound(p),
         kp'[p].cert = kp[p].cert, kp'[p].key = kp[p].key
  PROVE  Sound(p)'
BY EntryKept DEF Sound

\* A write keeps the types of the directory.
LEMMA PutTyped ==
  ASSUME TypeOK, NEW p \in Procs, NEW x \in Extensions, NEW f, Put(p, x, f),
         x = "crt" => f \in Certificate,
         x \in KeyForms \cup PFXForms => f \in PrivateFile \cup {Absent},
         x \in Pubs => f \in Nat
  PROVE  FsTyped'
<1>1. Basename(p) \in Basenames
  BY EntryTyped
<1>2. fs' = [fs EXCEPT ![Basename(p)][x] = f] /\ FsTyped
  BY DEF Put, TypeOK, FsTyped
<1>3. DOMAIN fs' = Basenames /\ \A b \in Basenames : DOMAIN fs'[b] = Extensions
  BY <1>1, <1>2 DEF FsTyped
<1>4. ASSUME NEW b \in Basenames, NEW y \in Extensions
      PROVE  fs'[b][y] = IF b = Basename(p) /\ y = x THEN f ELSE fs[b][y]
  BY <1>1, <1>2 DEF FsTyped
<1>5. {"crt"} \cup KeyForms \cup PFXForms \cup Pubs \subseteq Extensions
  BY DEF Extensions
<1> QED BY <1>2, <1>3, <1>4, <1>5 DEF FsTyped

-----------------------------------------------------------------------------
(* The steps of a run.  Each keeps the types, leaves the other runs alone  *)
(* and keeps what is said of its own run.                                  *)

\* Begin looks at an entry: nothing of its pair is at hand yet.
LEMMA EnterKeeps ==
  ASSUME IInv, NEW p \in Procs, Enter(p)
  PROVE  Keeps(p)
<1>1. TypeOK /\ FsTyped /\ StateTyped /\ PairTyped /\ NamesTyped
  BY Parts DEF IInv
<1>2. pc[p] \in Working /\ UNCHANGED <<world, local, pos, mem>> /\ nextKey' \in Nat
  BY <1>1 DEF Enter, TypeOK, Working
<1>3. SameEntry(p)
  BY <1>2 DEF SameEntry, local
<1>4. StateTyped' /\ pc'[p] \in Working \cup {"failed"} /\ \A q \in Procs \ {p} : pc'[q] = pc[q]
  BY <1>1 DEF Enter, StateTyped, Goto, Fail, Working, Ended
<1>5. FsTyped'
  BY <1>1 DEF Enter, FsTyped
<1>6. PairTyped' /\ UNCHANGED <<kp, keyPath, pfxPath, reused>>
  BY <1>1 DEF Enter, PairTyped, entry
<1>7. NamesTyped'
  BY <1>1, EntryTyped DEF Enter, NamesTyped
<1>8. Within(p)
  BY <1>2, <1>4, <1>5, <1>6, <1>7 DEF Within
<1>9. EntryInv(p)'
  BY <1>1, <1>3, <1>4, <1>6, EntryKept
  DEF Enter, IInv, EntryInv, StateTyped, Goto, Fail, Working, Holding, Passed, Sound
<1> QED BY <1>8, <1>9, WithinKeeps

\* existingKeyPair finds the key file; none of the pair is read.
LEMMA StatKeyKeeps ==
  ASSUME IInv, NEW p \in Procs, StatKey(p)
  PROVE  Keeps(p)
<1>1. TypeOK /\ FsTyped /\ StateTyped /\ PairTyped /\ NamesTyped
  BY Parts DEF IInv
<1>2. pc[p] \in Working /\ UNCHANGED <<world, local, pos, mem>> /\ nextKey' \in Nat
  BY <1>1 DEF StatKey, TypeOK, Working
<1>3. SameEntry(p)
  BY <1>2 DEF SameEntry, local
<1>4. StateTyped' /\ pc'[p] \in Working \cup {"failed"} /\ \A q \in Procs \ {p} : pc'[q] = pc[q]
  BY <1>1 DEF StatKey, StateTyped, Goto, Fail, Working, Ended, existingPrivateFile
<1>5. FsTyped'
  BY <1>1 DEF StatKey, FsTyped
<1>6. /\ PairTyped'
      /\ \A q \in Procs \ {p} : kp'[q] = kp[q] /\ keyPath'[q] = keyPath[q] /\ pfxPath'[q] = pfxPath[q]
  BY <1>1 DEF StatKey, PairTyped, entry, existingPrivateFile, Encrypted, KeyForms
<1>7. NamesTyped'
  BY <1>1 DEF StatKey, NamesTyped
<1>8. Within(p)
  BY <1>2, <1>4, <1>5, <1>6, <1>7 DEF Within
<1>9. EntryInv(p)'
  BY <1>1, <1>3, <1>4, <1>6, EntryKept
  DEF StatKey, IInv, EntryInv, StateTyped, Goto, Fail, Working, Holding,
      Passed, Sound, existingPrivateFile
<1> QED BY <1>8, <1>9, WithinKeeps

\* existingKeyPair finds the certificate and goes to read both.
LEMMA StatCertKeeps ==
  ASSUME IInv, NEW p \in Procs, StatCert(p)
  PROVE  Keeps(p)
<1>1. TypeOK /\ FsTyped /\ StateTyped /\ PairTyped /\ NamesTyped
  BY Parts DEF IInv
<1>2. pc[p] \in Working /\ UNCHANGED <<world, local, pos, mem>> /\ nextKey' \in Nat
  BY <1>1 DEF StatCert, TypeOK, Working
<1>3. SameEntry(p)
  BY <1>2 DEF SameEntry, local
<1>4. StateTyped' /\ pc'[p] \in Working \cup {"failed"} /\ \A q \in Procs \ {p} : pc'[q] = pc[q]
  BY <1>1 DEF StatCert, StateTyped, Goto, Fail, Working, Ended
<1>5. FsTyped'
  BY <1>1 DEF StatCert, FsTyped
<1>6. PairTyped' /\ UNCHANGED <<kp, keyPath, pfxPath, reused>>
  BY <1>1 DEF StatCert, PairTyped, entry
<1>7. NamesTyped'
  BY <1>1 DEF StatCert, NamesTyped
<1>8. Within(p)
  BY <1>2, <1>4, <1>5, <1>6, <1>7 DEF Within
<1>9. EntryInv(p)'
  BY <1>1, <1>3, <1>4, <1>6, EntryKept
  DEF StatCert, IInv, EntryInv, StateTyped, Goto, Fail, Working, Holding, Passed, Sound
<1> QED BY <1>8, <1>9, WithinKeeps

\* The certificate read has a certificate's type, and no key yet.
LEMMA ReadCertKeeps ==
  ASSUME IInv, NEW p \in Procs, ReadCert(p)
  PROVE  Keeps(p)
<1>1. TypeOK /\ FsTyped /\ StateTyped /\ PairTyped /\ NamesTyped
  BY Parts DEF IInv
<1>2. pc[p] \in Working /\ UNCHANGED <<world, local, pos, mem>> /\ nextKey' \in Nat
  BY <1>1 DEF ReadCert, TypeOK, Working
<1>3. SameEntry(p)
  BY <1>2 DEF SameEntry, local
<1>4. StateTyped' /\ pc'[p] \in Working \cup {"failed"} /\ \A q \in Procs \ {p} : pc'[q] = pc[q]
  BY <1>1 DEF ReadCert, StateTyped, Goto, Fail, Working, Ended
<1>5. Dir(p)["crt"] # Absent => [cert |-> Dir(p)["crt"], key |-> NoKey, pfx |-> NoKey] \in KeyPair
  <2>1. Basename(p) \in Basenames
    BY <1>1, EntryTyped
  <2> QED BY <1>1, <2>1 DEF FsTyped, Dir, KeyPair, NoKey
<1>6. FsTyped'
  BY <1>1 DEF ReadCert, FsTyped
<1>7. /\ PairTyped'
      /\ \A q \in Procs \ {p} : kp'[q] = kp[q] /\ keyPath'[q] = keyPath[q] /\ pfxPath'[q] = pfxPath[q]
  BY <1>1, <1>5 DEF ReadCert, PairTyped
<1>8. NamesTyped'
  BY <1>1 DEF ReadCert, NamesTyped
<1>9. Within(p)
  BY <1>2, <1>4, <1>6, <1>7, <1>8 DEF Within
<1>10. EntryInv(p)'
  BY <1>1, <1>5, SentinelAssumption
  DEF ReadCert, IInv, EntryInv, StateTyped, PairTyped, Goto, Fail, Holding, Passed
<1> QED BY <1>9, <1>10, WithinKeeps

\* The pair is typed; it is not Sound until CheckReused lets it pass.
LEMMA ReadKeyKeeps ==
  ASSUME IInv, NEW p \in Procs, ReadKey(p)
  PROVE  Keeps(p)
<1>1. TypeOK /\ FsTyped /\ StateTyped /\ PairTyped /\ NamesTyped
  BY Parts DEF IInv
<1>2. pc[p] \in Working /\ UNCHANGED <<world, local, pos, mem>> /\ nextKey' \in Nat
  BY <1>1 DEF ReadKey, TypeOK, Working
<1>3. SameEntry(p)
  BY <1>2 DEF SameEntry, local
<1>4. StateTyped' /\ pc'[p] \in Working \cup {"failed"} /\ \A q \in Procs \ {p} : pc'[q] = pc[q]
  BY <1>1 DEF ReadKey, StateTyped, Goto, Fail, Working, Ended
<1>5. kp[p] \in KeyPair /\ keyPath[p] \in KeyForms
  BY <1>1 DEF ReadKey, IInv, EntryInv, PairTyped, Holding, Passed
<1>6. Dir(p)[keyPath[p]] # Absent => Dir(p)[keyPath[p]].key \in Nat
  <2>1. Basename(p) \in Basenames
    BY <1>1, EntryTyped
  <2> QED BY <1>1, <1>5, <2>1 DEF FsTyped, Dir, PrivateFile
<1>7. \A k \in Nat : [kp[p] EXCEPT !.key = k] \in KeyPair
  BY <1>5 DEF KeyPair
<1>8. \/ UNCHANGED kp
      \/ \E k \in Nat : kp' = [kp EXCEPT ![p] = [kp[p] EXCEPT !.key = k]]
  BY <1>1, <1>5, <1>6 DEF ReadKey, Readable, PairTyped
<1>9. kp'[p] \in KeyPair
  BY <1>1, <1>5, <1>7, <1>8 DEF PairTyped
<1>10. FsTyped'
  BY <1>1 DEF ReadKey, FsTyped
<1>11. /\ PairTyped'
      /\ \A q \in Procs \ {p} : kp'[q] = kp[q] /\ keyPath'[q] = keyPath[q] /\ pfxPath'[q] = pfxPath[q]
  BY <1>1, <1>7, <1>8 DEF ReadKey, PairTyped
<1>12. NamesTyped'
  BY <1>1 DEF ReadKey, NamesTyped
<1>13. Within(p)
  BY <1>2, <1>4, <1>10, <1>11, <1>12 DEF Within
<1>14. EntryInv(p)'
  BY <1>1, <1>9 DEF ReadKey, IInv, EntryInv, StateTyped, Goto, Fail, Holding, Passed
<1> QED BY <1>13, <1>14, WithinKeeps

\* What checkReusedKeyPair lets pass is Sound: the key, the name, CA or not, the signer.
LEMMA CheckReusedKeeps ==
  ASSUME IInv, NEW p \in Procs, CheckReused(p)
  PROVE  Keeps(p)
<1>1. TypeOK /\ FsTyped /\ StateTyped /\ PairTyped /\ NamesTyped
  BY Parts DEF IInv
<1>2. pc[p] \in Working /\ UNCHANGED <<world, local, pos, mem>> /\ nextKey' \in Nat
  BY <1>1 DEF CheckReused, TypeOK, Working
<1>3. SameEntry(p)
  BY <1>2 DEF SameEntry, local
<1>4. StateTyped' /\ pc'[p] \in Working \cup {"failed"} /\ \A q \in Procs \ {p} : pc'[q] = pc[q]
  BY <1>1 DEF CheckReused, StateTyped, Goto, Fail, Working, Ended, Fits, AfterPFX
<1>5. FsTyped'
  BY <1>1 DEF CheckReused, FsTyped
<1>6. /\ PairTyped'
      /\ \A q \in Procs \ {p} : kp'[q] = kp[q] /\ keyPath'[q] = keyPath[q] /\ pfxPath'[q] = pfxPath[q]
  BY <1>1 DEF CheckReused, PairTyped, entry
<1>7. NamesTyped'
  BY <1>1 DEF CheckReused, NamesTyped
<1>8. Within(p)
  BY <1>2, <1>4, <1>5, <1>6, <1>7 DEF Within
<1>9. EntryInv(p)'
  BY <1>1, <1>3, <1>4, <1>6, EntryKept
  DEF CheckReused, IInv, EntryInv, StateTyped, Goto, Fail, Working, Holding,
      Passed, Sound, Fits, AfterPFX
<1> QED BY <1>8, <1>9, WithinKeeps

\* Finding the .pfx sets only the pair's pfx.
LEMMA StatReusedPFXKeeps ==
  ASSUME IInv, NEW p \in Procs, StatReusedPFX(p)
  PROVE  Keeps(p)
<1>1. TypeOK /\ FsTyped /\ StateTyped /\ PairTyped /\ NamesTyped
  BY Parts DEF IInv
<1>2. pc[p] \in Working /\ UNCHANGED <<world, local, pos, mem>> /\ nextKey' \in Nat
  BY <1>1 DEF StatReusedPFX, TypeOK, Working
<1>3. SameEntry(p)
  BY <1>2 DEF SameEntry, local
<1>4. StateTyped' /\ pc'[p] \in Working \cup {"failed"} /\ \A q \in Procs \ {p} : pc'[q] = pc[q]
  BY <1>1 DEF StatReusedPFX, StateTyped, Goto, Fail, Working, Ended, existingPrivateFile
<1>5. kp[p] \in KeyPair /\ kp[p].key \in Nat /\ Sound(p)
  BY DEF StatReusedPFX, IInv, EntryInv, Holding, Passed, KeyPair
<1>6. [kp[p] EXCEPT !.pfx = kp[p].key] \in KeyPair
  BY <1>5 DEF KeyPair
<1>7. kp' = kp \/ kp' = [kp EXCEPT ![p] = [kp[p] EXCEPT !.pfx = kp[p].key]]
  BY DEF StatReusedPFX
<1>8. kp'[p] \in KeyPair /\ kp'[p].cert = kp[p].cert /\ kp'[p].key = kp[p].key
  BY <1>1, <1>5, <1>6, <1>7 DEF PairTyped, KeyPair
<1>9. Sound(p)'
  BY <1>3, <1>5, <1>8, SoundKept
<1>10. FsTyped'
  BY <1>1 DEF StatReusedPFX, FsTyped
<1>11. /\ PairTyped'
      /\ \A q \in Procs \ {p} : kp'[q] = kp[q] /\ keyPath'[q] = keyPath[q] /\ pfxPath'[q] = pfxPath[q]
  BY <1>1, <1>6, <1>7 DEF StatReusedPFX, PairTyped, existingPrivateFile, Encrypted, PFXForms
<1>12. NamesTyped'
  BY <1>1 DEF StatReusedPFX, NamesTyped
<1>13. Within(p)
  BY <1>2, <1>4, <1>10, <1>11, <1>12 DEF Within
<1>14. EntryInv(p)'
  BY <1>1, <1>8, <1>9
  DEF StatReusedPFX, IInv, EntryInv, StateTyped, PairTyped, Goto, Fail, Holding, Passed
<1> QED BY <1>13, <1>14, WithinKeeps

\* Reading the .pfx sets only the pair's pfx.
LEMMA ReadPFXKeeps ==
  ASSUME IInv, NEW p \in Procs, ReadPFX(p)
  PROVE  Keeps(p)
<1>1. TypeOK /\ FsTyped /\ StateTyped /\ PairTyped /\ NamesTyped
  BY Parts DEF IInv
<1>2. pc[p] \in Working /\ UNCHANGED <<world, local, pos, mem>> /\ nextKey' \in Nat
  BY <1>1 DEF ReadPFX, TypeOK, Working
<1>3. SameEntry(p)
  BY <1>2 DEF SameEntry, local
<1>4. StateTyped' /\ pc'[p] \in Working \cup {"failed"} /\ \A q \in Procs \ {p} : pc'[q] = pc[q]
  BY <1>1 DEF ReadPFX, StateTyped, Goto, Fail, Working, Ended
<1>5. kp[p] \in KeyPair /\ pfxPath[p] \in PFXForms
  BY <1>1 DEF ReadPFX, IInv, EntryInv, PairTyped, Holding, Passed
<1>6. Dir(p)[pfxPath[p]] # Absent => Dir(p)[pfxPath[p]].key \in Nat
  <2>1. Basename(p) \in Basenames
    BY <1>1, EntryTyped
  <2> QED BY <1>1, <1>5, <2>1 DEF FsTyped, Dir, PrivateFile
<1>7. \A k \in Nat : [kp[p] EXCEPT !.pfx = k] \in KeyPair
  BY <1>5 DEF KeyPair
<1>8. \/ UNCHANGED kp
      \/ \E k \in Nat : kp' = [kp EXCEPT ![p] = [kp[p] EXCEPT !.pfx = k]]
  BY <1>1, <1>5, <1>6 DEF ReadPFX, Readable, PairTyped
<1>9. kp'[p] \in KeyPair /\ kp'[p].cert = kp[p].cert /\ kp'[p].key = kp[p].key
  BY <1>1, <1>5, <1>7, <1>8 DEF PairTyped, KeyPair
<1>10. Sound(p)'
  BY <1>3, <1>9, SoundKept DEF ReadPFX, IInv, EntryInv, Passed
<1>11. FsTyped'
  BY <1>1 DEF ReadPFX, FsTyped
<1>12. /\ PairTyped'
      /\ \A q \in Procs \ {p} : kp'[q] = kp[q] /\ keyPath'[q] = keyPath[q] /\ pfxPath'[q] = pfxPath[q]
  BY <1>1, <1>7, <1>8 DEF ReadPFX, PairTyped
<1>13. NamesTyped'
  BY <1>1 DEF ReadPFX, NamesTyped
<1>14. Within(p)
  BY <1>2, <1>4, <1>11, <1>12, <1>13 DEF Within
<1>15. EntryInv(p)'
  BY <1>1, <1>9, <1>10 DEF ReadPFX, IInv, EntryInv, StateTyped, Goto, Fail, Holding, Passed
<1> QED BY <1>14, <1>15, WithinKeeps

\* What GenerateKeyPair returns is Sound by construction.
LEMMA GenerateKeeps ==
  ASSUME IInv, NEW p \in Procs, Generate(p)
  PROVE  Keeps(p)
<1>1. TypeOK /\ FsTyped /\ StateTyped /\ PairTyped /\ NamesTyped
  BY Parts DEF IInv
<1>2. pc[p] \in Working /\ UNCHANGED <<world, local, pos, mem>> /\ nextKey' \in Nat
  BY <1>1 DEF Generate, TypeOK, Working
<1>3. SameEntry(p)
  BY <1>2 DEF SameEntry, local
<1>4. StateTyped' /\ pc'[p] \in Working \cup {"failed"} /\ \A q \in Procs \ {p} : pc'[q] = pc[q]
  BY <1>1 DEF Generate, StateTyped, Goto, Fail, Working, Ended
<1>5. [cert |-> NewCertificate(p), key |-> nextKey,
         pfx |-> IF MakesPFX(p) THEN nextKey ELSE NoKey] \in KeyPair
  BY <1>1, <1>2, NewCertificateTyped DEF KeyPair, NoKey, TypeOK
<1>6. kp'[p] = [cert |-> NewCertificate(p), key |-> nextKey,
                pfx |-> IF MakesPFX(p) THEN nextKey ELSE NoKey]
  BY <1>1 DEF Generate, PairTyped
<1>7. Sound(p)'
  BY <1>3, <1>6, EntryKept DEF Sound, NewCertificate
<1>8. FsTyped'
  BY <1>1 DEF Generate, FsTyped
<1>9. /\ PairTyped'
      /\ \A q \in Procs \ {p} : kp'[q] = kp[q] /\ keyPath'[q] = keyPath[q] /\ pfxPath'[q] = pfxPath[q]
  BY <1>1, <1>5 DEF Generate, PairTyped
<1>10. NamesTyped'
  BY <1>1 DEF Generate, NamesTyped
<1>11. Within(p)
  BY <1>2, <1>4, <1>8, <1>9, <1>10 DEF Within
<1>12. EntryInv(p)'
  BY <1>1, <1>5, <1>6, <1>7 DEF Generate, IInv, EntryInv, StateTyped, Goto, Holding, Passed
<1> QED BY <1>11, <1>12, WithinKeeps

\* A refused pair ends the run.
LEMMA GenerateFailsKeeps ==
  ASSUME IInv, NEW p \in Procs, GenerateFails(p)
  PROVE  Keeps(p)
<1>1. TypeOK /\ FsTyped /\ StateTyped /\ PairTyped /\ NamesTyped
  BY Parts DEF IInv
<1>2. pc[p] \in Working /\ UNCHANGED <<world, local, pos, mem>> /\ nextKey' \in Nat
  BY <1>1 DEF GenerateFails, TypeOK, Working
<1>3. SameEntry(p)
  BY <1>2 DEF SameEntry, local
<1>4. StateTyped' /\ pc'[p] \in Working \cup {"failed"} /\ \A q \in Procs \ {p} : pc'[q] = pc[q]
  BY <1>1 DEF GenerateFails, StateTyped, Goto, Fail, Working, Ended
<1>5. FsTyped'
  BY <1>1 DEF GenerateFails, FsTyped
<1>6. PairTyped' /\ UNCHANGED <<kp, keyPath, pfxPath, reused>>
  BY <1>1 DEF GenerateFails, PairTyped, entry
<1>7. NamesTyped'
  BY <1>1 DEF GenerateFails, NamesTyped
<1>8. Within(p)
  BY <1>2, <1>4, <1>5, <1>6, <1>7 DEF Within
<1>9. EntryInv(p)'
  BY <1>1, <1>3, <1>4, <1>6, EntryKept
  DEF GenerateFails, IInv, EntryInv, StateTyped, Goto, Fail, Working, Holding, Passed, Sound
<1> QED BY <1>8, <1>9, WithinKeeps

\* Removing the other form of the key leaves the pair at hand alone,
LEMMA RemoveKeyKeeps ==
  ASSUME IInv, NEW p \in Procs, RemoveKey(p)
  PROVE  Keeps(p)
<1>1. TypeOK /\ FsTyped /\ StateTyped /\ PairTyped /\ NamesTyped
  BY Parts DEF IInv
<1>2. pc[p] \in Working /\ UNCHANGED <<world, local, pos, mem>> /\ nextKey' \in Nat
  BY <1>1 DEF RemoveKey, TypeOK, Working
<1>3. SameEntry(p)
  BY <1>2 DEF SameEntry, local
<1>4. StateTyped' /\ pc'[p] \in Working \cup {"failed"} /\ \A q \in Procs \ {p} : pc'[q] = pc[q]
  BY <1>1 DEF RemoveKey, StateTyped, Goto, Fail, Working, Ended
<1>5. otherForm(Opt(p), "key") \in KeyForms
  BY DEF otherForm, Encrypted, KeyForms
<1>6. FsTyped'
  BY <1>1, <1>5, PutTyped DEF RemoveKey, Extensions, KeyForms, PFXForms, Pubs
<1>7. PairTyped' /\ UNCHANGED <<kp, keyPath, pfxPath, reused>>
  BY <1>1 DEF RemoveKey, PairTyped, entry
<1>8. NamesTyped'
  BY <1>1 DEF RemoveKey, NamesTyped
<1>9. Within(p)
  BY <1>2, <1>4, <1>6, <1>7, <1>8 DEF Within
<1>10. EntryInv(p)'
  BY <1>1, <1>3, <1>4, <1>7, EntryKept
  DEF RemoveKey, IInv, EntryInv, StateTyped, Goto, Fail, Working, Holding, Passed, Sound
<1> QED BY <1>9, <1>10, WithinKeeps

\* and so do removing that of the .pfx,
LEMMA RemovePFXKeeps ==
  ASSUME IInv, NEW p \in Procs, RemovePFX(p)
  PROVE  Keeps(p)
<1>1. TypeOK /\ FsTyped /\ StateTyped /\ PairTyped /\ NamesTyped
  BY Parts DEF IInv
<1>2. pc[p] \in Working /\ UNCHANGED <<world, local, pos, mem>> /\ nextKey' \in Nat
  BY <1>1 DEF RemovePFX, TypeOK, Working
<1>3. SameEntry(p)
  BY <1>2 DEF SameEntry, local
<1>4. StateTyped' /\ pc'[p] \in Working \cup {"failed"} /\ \A q \in Procs \ {p} : pc'[q] = pc[q]
  BY <1>1 DEF RemovePFX, StateTyped, Goto, Fail, Working, Ended
<1>5. otherForm(Opt(p), "pfx") \in PFXForms
  BY DEF otherForm, Encrypted, PFXForms
<1>6. FsTyped'
  BY <1>1, <1>5, PutTyped DEF RemovePFX, Extensions, KeyForms, PFXForms, Pubs
<1>7. PairTyped' /\ UNCHANGED <<kp, keyPath, pfxPath, reused>>
  BY <1>1 DEF RemovePFX, PairTyped, entry
<1>8. NamesTyped'
  BY <1>1 DEF RemovePFX, NamesTyped
<1>9. Within(p)
  BY <1>2, <1>4, <1>6, <1>7, <1>8 DEF Within
<1>10. EntryInv(p)'
  BY <1>1, <1>3, <1>4, <1>7, EntryKept
  DEF RemovePFX, IInv, EntryInv, StateTyped, Goto, Fail, Working, Holding, Passed, Sound
<1> QED BY <1>9, <1>10, WithinKeeps

\* and the writes: the certificate,
LEMMA WriteCertKeeps ==
  ASSUME IInv, NEW p \in Procs, WriteCert(p)
  PROVE  Keeps(p)
<1>1. TypeOK /\ FsTyped /\ StateTyped /\ PairTyped /\ NamesTyped
  BY Parts DEF IInv
<1>2. pc[p] \in Working /\ UNCHANGED <<world, local, pos, mem>> /\ nextKey' \in Nat
  BY <1>1 DEF WriteCert, TypeOK, Working
<1>3. SameEntry(p)
  BY <1>2 DEF SameEntry, local
<1>4. StateTyped' /\ pc'[p] \in Working \cup {"failed"} /\ \A q \in Procs \ {p} : pc'[q] = pc[q]
  BY <1>1 DEF WriteCert, StateTyped, Goto, Fail, Working, Ended
<1>5. kp[p].cert \in Certificate
  BY DEF WriteCert, IInv, EntryInv, Holding, Passed, KeyPair
<1>6. FsTyped'
  BY <1>1, <1>5, PutTyped DEF WriteCert, Extensions, KeyForms, PFXForms, Pubs
<1>7. PairTyped' /\ UNCHANGED <<kp, keyPath, pfxPath, reused>>
  BY <1>1 DEF WriteCert, PairTyped, entry
<1>8. NamesTyped'
  BY <1>1 DEF WriteCert, NamesTyped
<1>9. Within(p)
  BY <1>2, <1>4, <1>6, <1>7, <1>8 DEF Within
<1>10. EntryInv(p)'
  BY <1>1, <1>3, <1>4, <1>7, EntryKept
  DEF WriteCert, IInv, EntryInv, StateTyped, Goto, Fail, Working, Holding, Passed, Sound
<1> QED BY <1>9, <1>10, WithinKeeps

\* the key,
LEMMA WriteKeyKeeps ==
  ASSUME IInv, NEW p \in Procs, WriteKey(p)
  PROVE  Keeps(p)
<1>1. TypeOK /\ FsTyped /\ StateTyped /\ PairTyped /\ NamesTyped
  BY Parts DEF IInv
<1>2. pc[p] \in Working /\ UNCHANGED <<world, local, pos, mem>> /\ nextKey' \in Nat
  BY <1>1 DEF WriteKey, TypeOK, Working
<1>3. SameEntry(p)
  BY <1>2 DEF SameEntry, local
<1>4. StateTyped' /\ pc'[p] \in Working \cup {"failed"} /\ \A q \in Procs \ {p} : pc'[q] = pc[q]
  BY <1>1 DEF WriteKey, StateTyped, Goto, Fail, Working, Ended, AfterPFX
<1>5. kp[p].key \in Nat
  BY DEF WriteKey, IInv, EntryInv, Holding, Passed, KeyPair
<1>6. path(Opt(p), "key") \in KeyForms
  BY DEF path, Encrypted, KeyForms
<1>7. [key |-> kp[p].key, to |-> Opt(p).to] \in PrivateFile
  BY <1>1, <1>5, EntryTyped DEF PrivateFile, SpecOptions
<1>8. FsTyped'
  BY <1>1, <1>6, <1>7, PutTyped DEF WriteKey, Extensions, KeyForms, PFXForms, Pubs
<1>9. /\ PairTyped'
      /\ \A q \in Procs \ {p} : kp'[q] = kp[q] /\ keyPath'[q] = keyPath[q] /\ pfxPath'[q] = pfxPath[q]
  BY <1>1, <1>6 DEF WriteKey, PairTyped
<1>10. NamesTyped'
  BY <1>1 DEF WriteKey, NamesTyped
<1>11. Within(p)
  BY <1>2, <1>4, <1>8, <1>9, <1>10 DEF Within
<1>12. EntryInv(p)'
  BY <1>1, <1>3, <1>4, <1>9, EntryKept
  DEF WriteKey, IInv, EntryInv, StateTyped, Goto, Fail, Working, Holding, Passed, Sound, AfterPFX
<1> QED BY <1>11, <1>12, WithinKeeps

\* looking for an old .pfx,
LEMMA StatPFXKeeps ==
  ASSUME IInv, NEW p \in Procs, StatPFX(p)
  PROVE  Keeps(p)
<1>1. TypeOK /\ FsTyped /\ StateTyped /\ PairTyped /\ NamesTyped
  BY Parts DEF IInv
<1>2. pc[p] \in Working /\ UNCHANGED <<world, local, pos, mem>> /\ nextKey' \in Nat
  BY <1>1 DEF StatPFX, TypeOK, Working
<1>3. SameEntry(p)
  BY <1>2 DEF SameEntry, local
<1>4. StateTyped' /\ pc'[p] \in Working \cup {"failed"} /\ \A q \in Procs \ {p} : pc'[q] = pc[q]
  BY <1>1 DEF StatPFX, StateTyped, Goto, Fail, Working, Ended, existingPrivateFile, AfterPFX
<1>5. FsTyped'
  BY <1>1 DEF StatPFX, FsTyped
<1>6. PairTyped' /\ UNCHANGED <<kp, keyPath, pfxPath, reused>>
  BY <1>1 DEF StatPFX, PairTyped, entry
<1>7. NamesTyped'
  BY <1>1 DEF StatPFX, NamesTyped
<1>8. Within(p)
  BY <1>2, <1>4, <1>5, <1>6, <1>7 DEF Within
<1>9. EntryInv(p)'
  BY <1>1, <1>3, <1>4, <1>6, EntryKept
  DEF StatPFX, IInv, EntryInv, StateTyped, Goto, Fail, Working, Holding,
      Passed, Sound, existingPrivateFile, AfterPFX
<1> QED BY <1>8, <1>9, WithinKeeps

\* the .pfx,
LEMMA WritePFXKeeps ==
  ASSUME IInv, NEW p \in Procs, WritePFX(p)
  PROVE  Keeps(p)
<1>1. TypeOK /\ FsTyped /\ StateTyped /\ PairTyped /\ NamesTyped
  BY Parts DEF IInv
<1>2. pc[p] \in Working /\ UNCHANGED <<world, local, pos, mem>> /\ nextKey' \in Nat
  BY <1>1 DEF WritePFX, TypeOK, Working
<1>3. SameEntry(p)
  BY <1>2 DEF SameEntry, local
<1>4. StateTyped' /\ pc'[p] \in Working \cup {"failed"} /\ \A q \in Procs \ {p} : pc'[q] = pc[q]
  BY <1>1 DEF WritePFX, StateTyped, Goto, Fail, Working, Ended, AfterPFX
<1>5. kp[p].pfx \in Nat
  BY DEF WritePFX, IInv, EntryInv, Holding, Passed, KeyPair
<1>6. path(Opt(p), "pfx") \in PFXForms
  BY DEF path, Encrypted, PFXForms
<1>7. [key |-> kp[p].pfx, to |-> Opt(p).to] \in PrivateFile
  BY <1>1, <1>5, EntryTyped DEF PrivateFile, SpecOptions
<1>8. FsTyped'
  BY <1>1, <1>6, <1>7, PutTyped DEF WritePFX, Extensions, KeyForms, PFXForms, Pubs
<1>9. PairTyped' /\ UNCHANGED <<kp, keyPath, pfxPath, reused>>
  BY <1>1 DEF WritePFX, PairTyped, entry
<1>10. NamesTyped'
  BY <1>1 DEF WritePFX, NamesTyped
<1>11. Within(p)
  BY <1>2, <1>4, <1>8, <1>9, <1>10 DEF Within
<1>12. EntryInv(p)'
  BY <1>1, <1>3, <1>4, <1>9, EntryKept
  DEF WritePFX, IInv, EntryInv, StateTyped, Goto, Fail, Working, Holding, Passed, Sound, AfterPFX
<1> QED BY <1>11, <1>12, WithinKeeps

\* and the SSH public key.
LEMMA WriteSSHKeeps ==
  ASSUME IInv, NEW p \in Procs, WriteSSH(p)
  PROVE  Keeps(p)
<1>1. TypeOK /\ FsTyped /\ StateTyped /\ PairTyped /\ NamesTyped
  BY Parts DEF IInv
<1>2. pc[p] \in Working /\ UNCHANGED <<world, local, pos, mem>> /\ nextKey' \in Nat
  BY <1>1 DEF WriteSSH, TypeOK, Working
<1>3. SameEntry(p)
  BY <1>2 DEF SameEntry, local
<1>4. StateTyped' /\ pc'[p] \in Working \cup {"failed"} /\ \A q \in Procs \ {p} : pc'[q] = pc[q]
  BY <1>1 DEF WriteSSH, StateTyped, Goto, Fail, Working, Ended
<1>5. kp[p].cert.key \in Nat
  BY DEF WriteSSH, IInv, EntryInv, Holding, Passed, KeyPair, Certificate
<1>6. PublicHalf(keyPath[p]) \in Pubs
  BY DEF PublicHalf, Pubs
<1>7. FsTyped'
  BY <1>1, <1>5, <1>6, PutTyped DEF WriteSSH, Extensions, KeyForms, PFXForms, Pubs
<1>8. PairTyped' /\ UNCHANGED <<kp, keyPath, pfxPath, reused>>
  BY <1>1 DEF WriteSSH, PairTyped, entry
<1>9. NamesTyped'
  BY <1>1 DEF WriteSSH, NamesTyped
<1>10. Within(p)
  BY <1>2, <1>4, <1>7, <1>8, <1>9 DEF Within
<1>11. EntryInv(p)'
  BY <1>1, <1>3, <1>4, <1>8, EntryKept
  DEF WriteSSH, IInv, EntryInv, StateTyped, Goto, Fail, Working, Holding, Passed, Sound
<1> QED BY <1>10, <1>11, WithinKeeps

\* A failed operation on a file ends the run and changes no file.
LEMMA IOFailsKeeps ==
  ASSUME IInv, NEW p \in Procs, IOFails(p)
  PROVE  Keeps(p)
<1>1. TypeOK /\ FsTyped /\ StateTyped /\ PairTyped /\ NamesTyped
  BY Parts DEF IInv
<1>2. pc[p] \in Working /\ UNCHANGED <<world, local, pos, mem>> /\ nextKey' \in Nat
  BY <1>1 DEF IOFails, TypeOK, Working
<1>3. SameEntry(p)
  BY <1>2 DEF SameEntry, local
<1>4. StateTyped' /\ pc'[p] \in Working \cup {"failed"} /\ \A q \in Procs \ {p} : pc'[q] = pc[q]
  BY <1>1 DEF IOFails, StateTyped, Goto, Fail, Working, Ended
<1>5. FsTyped'
  BY <1>1 DEF IOFails, FsTyped
<1>6. PairTyped' /\ UNCHANGED <<kp, keyPath, pfxPath, reused>>
  BY <1>1 DEF IOFails, PairTyped, entry
<1>7. NamesTyped'
  BY <1>1 DEF IOFails, NamesTyped
<1>8. Within(p)
  BY <1>2, <1>4, <1>5, <1>6, <1>7 DEF Within
<1>9. EntryInv(p)'
  BY <1>1, <1>3, <1>4, <1>6, EntryKept
  DEF IOFails, IInv, EntryInv, StateTyped, Goto, Fail, Working, Holding, Passed, Sound
<1> QED BY <1>8, <1>9, WithinKeeps

\* Finishing an entry adds it to what is finished; its parent is there and stays.
LEMMA NextEntryKeeps ==
  ASSUME IInv, NEW p \in Procs, NextEntry(p)
  PROVE  Keeps(p)
<1>0. PICK e \in Nodes : e = Entry(p)
  BY EntryTyped DEF IInv
<1>1. /\ TypeOK /\ FsTyped /\ StateTyped /\ PairTyped /\ NamesTyped
      /\ CertSpec(p) \in CertificateSpec /\ e \in Nodes /\ pos[p] \in 1..Len(CertSpec(p).order)
  BY Parts, EntryTyped DEF IInv
<1>2. pc[p] = "next" /\ MemInv(p) /\ kp[p] \in KeyPair /\ Sound(p) /\ Finished(p) = Before(p)
  BY DEF NextEntry, IInv, MemInv, EntryInv, Holding, Passed, Working
<1>3. e \notin Finished(p) /\ (CertSpec(p).parent[e] # TopLevel => CertSpec(p).parent[e] \in Finished(p))
  BY <1>0, <1>1, <1>2, ParentBefore
<1>4. kp[p] # NoPair
  BY <1>2, SentinelAssumption
<1>5. UNCHANGED <<fs, nextKey, now, runs, edits, last, task, alone, repeat, filenames, why>>
  BY DEF NextEntry, world, local
<1>6. CertSpec(p)' = CertSpec(p) /\ Opt(p)' = Opt(p)
  BY <1>5 DEF CertSpec, Opt
<1>7. /\ mem' \in [Procs -> [Nodes -> KeyPair \cup {NoPair}]]
      /\ mem'[p][e] = kp[p]
      /\ \A n \in Nodes \ {e} : mem'[p][n] = mem[p][n]
      /\ \A q \in Procs \ {p} : mem'[q] = mem[q]
  BY <1>0, <1>1, <1>2 DEF NextEntry, TypeOK
<1>8. Finished(p)' = Finished(p) \cup {e}
  BY <1>1, <1>4, <1>7 DEF Finished
<1>9. Finished(p) \subseteq Nodes \ {e}
  BY <1>3 DEF Finished
<1>10. \A n \in Finished(p) : MemSound(p, n)'
  <2>1. \A n \in Finished(p) : MemSound(p, n) /\ mem'[p][n] = mem[p][n]
    BY <1>2, <1>7, <1>9 DEF MemInv
  <2> QED BY <1>6, <1>8, <2>1 DEF MemSound, SignerOf
<1>11. MemSound(p, e)'
  <2>1. CASE CertSpec(p).parent[e] = TopLevel
    <3>1. SelfSigned(p) <=> ~Opt(p).issuer
      BY <1>0, <2>1 DEF SelfSigned
    <3>2. Parent(p).key = IssuerKey
      BY <1>0, <2>1 DEF Parent, IssuerCertificate
    <3> QED BY <1>0, <1>2, <1>6, <1>7, <2>1, <3>1, <3>2 DEF MemSound, SignerOf, Sound, IsCA
  <2>2. CASE CertSpec(p).parent[e] # TopLevel
    <3>0. PICK n : n = CertSpec(p).parent[e]
      OBVIOUS
    <3>1. n \in Finished(p) /\ mem'[p][n] = mem[p][n]
      BY <1>3, <1>7, <1>9, <2>2, <3>0
    <3>2. ~SelfSigned(p) /\ Parent(p) = mem[p][n].cert
      BY <1>0, <2>2, <3>0 DEF SelfSigned, Parent
    <3> QED BY <1>0, <1>2, <1>6, <1>7, <1>8, <2>2, <3>0, <3>1, <3>2
    DEF MemSound, SignerOf, Sound, IsCA
  <2> QED BY <2>1, <2>2
<1>12. StateTyped' /\ pc'[p] \in {"done", "enter"} /\ \A q \in Procs \ {p} : pc'[q] = pc[q]
  BY <1>1, <1>5 DEF NextEntry, StateTyped, Goto, Working, Ended
<1>13. Len(CertSpec(p).order) \in Nat
  <2>1. CertSpec(p).order \in Seq(Nodes)
    BY <1>1 DEF CertificateSpec
  <2> QED BY <2>1
<1>14. /\ pos' \in [Procs -> Nat] /\ \A q \in Procs \ {p} : pos'[q] = pos[q]
       /\ pos'[p] \in 1..Len(CertSpec(p).order)
       /\ pc'[p] = "enter" => pos'[p] = pos[p] + 1
  BY <1>1, <1>12, <1>13 DEF NextEntry, TypeOK, StateTyped, Goto
<1>15. ASSUME pc'[p] = "enter" PROVE Before(p)' = Before(p) \cup {e}
  <2>1. 1..(pos'[p] - 1) = (1..(pos[p] - 1)) \cup {pos[p]}
    BY <1>1, <1>13, <1>14, <1>15
  <2>2. e = CertSpec(p).order[pos[p]]
    BY <1>0 DEF Entry
  <2> QED BY <1>6, <2>1, <2>2 DEF Before
<1>16. /\ PairTyped'
       /\ \A q \in Procs \ {p} : kp'[q] = kp[q] /\ keyPath'[q] = keyPath[q] /\ pfxPath'[q] = pfxPath[q]
  BY <1>1 DEF NextEntry, PairTyped
<1>17. TypeOK'
  <2>1. FsTyped' /\ NamesTyped'
    BY <1>1, <1>5 DEF FsTyped, NamesTyped
  <2>2. \A q \in Procs : (pos[q] \in 1..Len(CertSpec(q).order))'
    BY <1>1, <1>5, <1>14 DEF TypeOK, CertSpec
  <2> QED BY <1>1, <1>5, <1>7, <1>12, <1>14, <1>16, <2>1, <2>2
          DEF TypeOK, FsTyped, StateTyped, PairTyped, NamesTyped
<1>18. Others(p)
  BY <1>5, <1>7, <1>12, <1>14, <1>16 DEF Others, Same
<1>19. MemInv(p)'
  <2>1. ASSUME pc'[p] = "done" PROVE Finished(p)' = Entries(CertSpec(p))'
    <3>1. pos[p] = Len(CertSpec(p).order)
      BY <1>1, <2>1 DEF NextEntry, StateTyped, Goto
    <3>2. 1..Len(CertSpec(p).order) = (1..(pos[p] - 1)) \cup {pos[p]}
      BY <1>1, <1>13, <3>1
    <3>3. Entries(CertSpec(p)) = Before(p) \cup {e}
      BY <1>0, <3>2 DEF Before, Entries, Entry
    <3> QED BY <1>2, <1>6, <1>8, <3>3 DEF Entries
  <2> QED BY <1>2, <1>8, <1>10, <1>11, <1>12, <1>15, <2>1 DEF MemInv, Working
<1>20. EntryInv(p)'
  BY <1>12 DEF EntryInv, Holding, Passed
<1> QED BY <1>17, <1>18, <1>19, <1>20 DEF Keeps

-----------------------------------------------------------------------------
(* Runs begin and end.                                                     *)

\* A run begins with nothing finished, at the first entry.
LEMMA StartKeeps ==
  ASSUME IInv, NEW p \in Procs, Start(p)
  PROVE  Keeps(p)
<1>1. TypeOK /\ FsTyped /\ StateTyped /\ PairTyped /\ NamesTyped
  BY Parts DEF IInv
<1>2. PICK s \in Specs, o \in Options : task' = [task EXCEPT ![p] = [spec |-> s, opt |-> o]]
  BY DEF Start
<1>3. /\ pc[p] = "idle" /\ pc' = [pc EXCEPT ![p] = "enter"]
      /\ runs' = runs + 1 /\ last' = <<>>
      /\ UNCHANGED <<fs, now, nextKey, edits, pos, filenames, mem, kp, keyPath, pfxPath, reused, why>>
  BY DEF Start, Goto, entry
<1>4. pos[p] = 1 /\ Finished(p) = {}
  BY <1>3 DEF IInv, MemInv
<1>5. s.order \in Seq(Nodes) /\ s.order # <<>>
  BY SpecsAssumption DEF CertificateSpec, validateSpec
<1>6. /\ task' \in [Procs -> Task]
      /\ task'[p].spec = s
      /\ \A q \in Procs \ {p} : task'[q] = task[q]
  BY <1>1, <1>2 DEF TypeOK, Task
<1>7. StateTyped' /\ pc'[p] = "enter" /\ \A q \in Procs \ {p} : pc'[q] = pc[q]
  BY <1>1, <1>3 DEF StateTyped, Working
<1>8. alone' \in [Procs -> BOOLEAN] /\ repeat' \in [Procs -> BOOLEAN]
  BY DEF Start
<1>9. \A q \in Procs : (pos[q] \in 1..Len(CertSpec(q).order))'
  <2>1. 1 \in 1..Len(s.order)
    BY <1>5
  <2> QED BY <1>1, <1>3, <1>4, <1>6, <2>1 DEF TypeOK, CertSpec
<1>10. TypeOK'
  <2>1. FsTyped' /\ PairTyped' /\ NamesTyped'
    BY <1>1, <1>3 DEF FsTyped, PairTyped, NamesTyped
  <2>2. last' \in Seq(Task)
    BY <1>3
  <2>3. now' \in Nat /\ nextKey' \in Nat /\ runs' \in Nat /\ edits' \in Nat
    BY <1>1, <1>3 DEF TypeOK
  <2> QED BY <1>1, <1>3, <1>6, <1>7, <1>8, <1>9, <2>1, <2>2, <2>3
          DEF TypeOK, FsTyped, StateTyped, PairTyped, NamesTyped
<1>11. Others(p)
  BY <1>3, <1>6, <1>7 DEF Others, Same
<1>12. MemInv(p)'
  <2>1. Finished(p)' = {} /\ pos'[p] = 1
    BY <1>3, <1>4 DEF Finished
  <2>2. Before(p)' = {}
    BY <2>1 DEF Before
  <2> QED BY <1>7, <2>1, <2>2 DEF MemInv
<1>13. EntryInv(p)'
  BY <1>7 DEF EntryInv, Holding, Passed
<1> QED BY <1>10, <1>11, <1>12, <1>13 DEF Keeps

\* The process ends, one way or another.
LEMMA ForgetKeeps ==
  ASSUME IInv, NEW p \in Procs, Forget(p), last' \in Seq(Task),
         UNCHANGED <<fs, now, nextKey, runs, edits>>
  PROVE  Keeps(p)
<1>1. TypeOK /\ FsTyped /\ StateTyped /\ PairTyped /\ NamesTyped
  BY Parts DEF IInv
<1>2. NoTask \in Task /\ NoTask.spec \in Specs
  BY SpecsAssumption, OptionsAssumption DEF NoTask, Task
<1>3. NoTask.spec.order \in Seq(Nodes) /\ NoTask.spec.order # <<>>
  BY <1>2, SpecsAssumption DEF CertificateSpec, validateSpec
<1>4. /\ task' \in [Procs -> Task] /\ alone' \in [Procs -> BOOLEAN] /\ repeat' \in [Procs -> BOOLEAN]
      /\ task'[p] = NoTask
      /\ \A q \in Procs \ {p} : task'[q] = task[q]
  BY <1>1, <1>2 DEF Forget, TypeOK
<1>5. StateTyped' /\ pc'[p] = "idle" /\ \A q \in Procs \ {p} : pc'[q] = pc[q]
  BY <1>1 DEF Forget, Goto, StateTyped, Idle
<1>6. /\ PairTyped' /\ NamesTyped'
      /\ \A q \in Procs \ {p} : kp'[q] = kp[q] /\ keyPath'[q] = keyPath[q] /\ pfxPath'[q] = pfxPath[q]
  BY <1>1 DEF Forget, PairTyped, NamesTyped
<1>7. /\ mem' \in [Procs -> [Nodes -> KeyPair \cup {NoPair}]]
      /\ mem'[p] = [n \in Nodes |-> NoPair]
      /\ pos' \in [Procs -> Nat] /\ pos'[p] = 1
      /\ \A q \in Procs \ {p} : mem'[q] = mem[q] /\ pos'[q] = pos[q]
  BY <1>1 DEF Forget, TypeOK
<1>8. \A q \in Procs : (pos[q] \in 1..Len(CertSpec(q).order))'
  <2>1. 1 \in 1..Len(NoTask.spec.order)
    BY <1>3
  <2> QED BY <1>1, <1>4, <1>7, <2>1 DEF TypeOK, CertSpec
<1>9. TypeOK'
  <2>1. FsTyped'
    BY <1>1 DEF FsTyped
  <2> QED BY <1>1, <1>4, <1>5, <1>6, <1>7, <1>8, <2>1
    DEF TypeOK, FsTyped, StateTyped, PairTyped, NamesTyped
<1>10. Others(p)
  BY <1>4, <1>5, <1>6, <1>7 DEF Others, Same
<1>11. MemInv(p)'
  <2>1. Finished(p)' = {}
    BY <1>7 DEF Finished
  <2> QED BY <1>5, <1>7, <2>1 DEF MemInv, Working
<1>12. EntryInv(p)'
  BY <1>5 DEF EntryInv, Holding, Passed
<1> QED BY <1>9, <1>10, <1>11, <1>12 DEF Keeps

\* It ends by itself,
LEMMA ExitKeeps ==
  ASSUME IInv, NEW p \in Procs, Exit(p)
  PROVE  Keeps(p)
<1>1. task[p] \in Task
  BY DEF IInv, TypeOK
<1>2. last' \in Seq(Task)
  BY <1>1 DEF Exit
<1> QED BY <1>2, ForgetKeeps DEF Exit

\* or is killed.
LEMMA CrashKeeps ==
  ASSUME IInv, NEW p \in Procs, Crash(p)
  PROVE  Keeps(p)
<1>1. last' \in Seq(Task)
  BY DEF Crash, world, IInv, TypeOK
<1> QED BY <1>1, ForgetKeeps DEF Crash, world

-----------------------------------------------------------------------------
(* The inductive invariant.                                                *)

\* The invariant holds at first,
LEMMA InitIInv == Init => IInv
<1> SUFFICES ASSUME Init PROVE IInv
  OBVIOUS
<1>1. NoTask \in Task /\ NoTask.spec \in Specs
  BY SpecsAssumption, OptionsAssumption DEF NoTask, Task
<1>2. NoTask.spec.order \in Seq(Nodes) /\ NoTask.spec.order # <<>>
  BY <1>1, SpecsAssumption DEF CertificateSpec, validateSpec
<1>3. 1 \in 1..Len(NoTask.spec.order)
  BY <1>2
<1>4. FsTyped /\ StateTyped /\ PairTyped /\ NamesTyped
  BY DEF Init, FsTyped, StateTyped, PairTyped, NamesTyped, Extensions, KeyForms, PFXForms, Pubs, Idle
<1>5. now \in Nat /\ nextKey \in Nat /\ runs \in Nat /\ edits \in Nat /\ last \in Seq(Task)
  BY DEF Init
<1>6. /\ task \in [Procs -> Task] /\ alone \in [Procs -> BOOLEAN] /\ repeat \in [Procs -> BOOLEAN]
      /\ pos \in [Procs -> Nat] /\ \A p \in Procs : pos[p] \in 1..Len(CertSpec(p).order)
      /\ mem \in [Procs -> [Nodes -> KeyPair \cup {NoPair}]]
  BY <1>1, <1>3 DEF Init, CertSpec
<1>7. TypeOK
  BY <1>4, <1>5, <1>6 DEF TypeOK, FsTyped, StateTyped, PairTyped, NamesTyped
<1>8. ASSUME NEW p \in Procs PROVE MemInv(p) /\ EntryInv(p)
  BY DEF Init, MemInv, EntryInv, Finished, Working, Holding, Passed
<1> QED BY <1>7, <1>8 DEF IInv

\* A step of one run keeps the invariant of all.
LEMMA RunStep ==
  ASSUME IInv, NEW p \in Procs, Keeps(p)
  PROVE  IInv'
<1>1. ASSUME NEW q \in Procs \ {p} PROVE MemInv(q)' /\ EntryInv(q)'
  BY SameKeeps DEF Keeps, Others, IInv
<1> QED BY <1>1 DEF Keeps, IInv

\* So does a step of no run.
LEMMA QuietStep ==
  ASSUME IInv, FsTyped', now' \in Nat, edits' \in Nat, last' \in Seq(Task),
         repeat' \in [Procs -> BOOLEAN],
         UNCHANGED <<nextKey, runs, pc, task, alone, pos, filenames, mem, entry, why>>
  PROVE  IInv'
<1>1. \A q \in Procs : Same(q)
  BY DEF Same, entry
<1>2. \A q \in Procs : MemInv(q)' /\ EntryInv(q)'
  BY <1>1, SameKeeps DEF IInv
<1>3. TypeOK'
  <2>1. TypeOK
    BY DEF IInv
  <2>2. \A q \in Procs : (pos[q] \in 1..Len(CertSpec(q).order))'
    BY <2>1 DEF TypeOK, CertSpec
  <2> QED BY <2>1, <2>2 DEF TypeOK, FsTyped, entry
<1> QED BY <1>2, <1>3 DEF IInv

\* every step keeps it,
LEMMA StepIInv == IInv /\ [Next]_vars => IInv'
<1> SUFFICES ASSUME IInv, [Next]_vars PROVE IInv'
  OBVIOUS
<1>1. TypeOK /\ FsTyped
  BY Parts DEF IInv
<1>2. ASSUME NEW p \in Procs, Start(p) \/ Step(p) \/ Exit(p) \/ Crash(p) PROVE IInv'
  <2>1. Keeps(p)
    <3>1. ASSUME Step(p) PROVE Keeps(p)
      BY <3>1, EnterKeeps, StatKeyKeeps, StatCertKeeps, ReadCertKeeps, ReadKeyKeeps, CheckReusedKeeps,
         StatReusedPFXKeeps, ReadPFXKeeps, GenerateKeeps, GenerateFailsKeeps, RemoveKeyKeeps,
         RemovePFXKeeps, WriteCertKeeps, WriteKeyKeeps, StatPFXKeeps, WritePFXKeeps, WriteSSHKeeps,
         NextEntryKeeps, IOFailsKeeps DEF Step
    <3> QED BY <1>2, <3>1, StartKeeps, ExitKeeps, CrashKeeps
  <2> QED BY <2>1, RunStep
<1>3. ASSUME NEW b \in Basenames, DeletePair(b) PROVE IInv'
  <2>1. /\ edits' \in Nat /\ last' \in Seq(Task) /\ now' \in Nat /\ repeat' \in [Procs -> BOOLEAN]
        /\ UNCHANGED <<nextKey, runs, pc, task, alone, pos, filenames, mem, entry, why>>
    BY <1>1, <1>3 DEF DeletePair, TypeOK, local
  <2>2. FsTyped'
    BY <1>1, <1>3 DEF DeletePair, FsTyped, Extensions, KeyForms, PFXForms, Pubs
  <2> QED BY <2>1, <2>2, QuietStep
<1>4. ASSUME NEW b \in Basenames, NEW x \in Extensions, DeleteFile(b, x) PROVE IInv'
  <2>1. /\ edits' \in Nat /\ last' \in Seq(Task) /\ now' \in Nat /\ repeat' \in [Procs -> BOOLEAN]
        /\ UNCHANGED <<nextKey, runs, pc, task, alone, pos, filenames, mem, entry, why>>
    BY <1>1, <1>4 DEF DeleteFile, TypeOK, local
  <2>2. FsTyped'
    BY <1>1, <1>4 DEF DeleteFile, FsTyped, Extensions, KeyForms, PFXForms, Pubs
  <2> QED BY <2>1, <2>2, QuietStep
<1>5. CASE Tick
  <2>1. /\ edits' \in Nat /\ last' \in Seq(Task) /\ now' \in Nat /\ repeat' \in [Procs -> BOOLEAN]
        /\ UNCHANGED <<fs, nextKey, runs, pc, task, alone, pos, filenames, mem, entry, why>>
    BY <1>1, <1>5 DEF Tick, TypeOK, local
  <2>2. FsTyped'
    BY <1>1, <2>1 DEF FsTyped
  <2> QED BY <2>1, <2>2, QuietStep
<1>6. CASE UNCHANGED vars
  <2>1. /\ edits' \in Nat /\ last' \in Seq(Task) /\ now' \in Nat /\ repeat' \in [Procs -> BOOLEAN]
        /\ UNCHANGED <<fs, nextKey, runs, pc, task, alone, pos, filenames, mem, entry, why>>
    BY <1>1, <1>6 DEF vars, world, local, TypeOK
  <2>2. FsTyped'
    BY <1>1, <2>1 DEF FsTyped
  <2> QED BY <2>1, <2>2, QuietStep
<1> QED BY <1>2, <1>3, <1>4, <1>5, <1>6 DEF Next

\* and so it always holds.
LEMMA Invariance == Spec => []IInv
<1> QED BY InitIInv, StepIInv, PTL DEF Spec

-----------------------------------------------------------------------------
(* The theorems.                                                           *)

\* Every variable keeps its type, and a run's position is in its spec.
THEOREM TypeCorrect == Spec => []TypeOK
<1>1. IInv => TypeOK
  BY DEF IInv
<1> QED BY <1>1, Invariance, PTL

\* Whatever is in the directory and whatever overlapping runs do to it, each key
\* a run holds matches its certificate, which is the entry's and which the key
\* of the entry's parent in the same run signed.
THEOREM ChainSound == Spec => []MemoryChainSound
<1>1. IInv => MemoryChainSound
  BY DEF IInv, MemInv, MemSound, MemoryChainSound
<1> QED BY <1>1, Invariance, PTL

-----------------------------------------------------------------------------
(* What the file operations find and leave.                                *)

\* A write changes one file.
LEMMA PutAt ==
  ASSUME TypeOK, NEW p \in Procs, NEW x \in Extensions, NEW f, Put(p, x, f)
  PROVE  /\ \A b \in Basenames : b # Basename(p) => fs'[b] = fs[b]
         /\ \A y \in Extensions : fs'[Basename(p)][y] = IF y = x THEN f ELSE Dir(p)[y]
<1>1. Basename(p) \in Basenames
  BY EntryTyped
<1>2. DOMAIN fs = Basenames /\ \A b \in Basenames : DOMAIN fs[b] = Extensions
  BY DEF TypeOK
<1> QED BY <1>1, <1>2 DEF Put, Dir

\* The names that files have are different.
LEMMA Names ==
  ASSUME NEW o \in SpecOptions, NEW k \in {"key", "pfx"}
  PROVE  /\ path(o, "key") \in KeyForms /\ otherForm(o, "key") \in KeyForms
         /\ path(o, "pfx") \in PFXForms /\ otherForm(o, "pfx") \in PFXForms
         /\ KeyForms = {path(o, "key"), otherForm(o, "key")} /\ path(o, k) # otherForm(o, k)
         /\ KeyForms \cup PFXForms \cup Pubs \cup {"crt"} = Extensions
         /\ KeyForms \cap PFXForms = {} /\ KeyForms \cap Pubs = {} /\ PFXForms \cap Pubs = {}
         /\ "crt" \notin KeyForms \cup PFXForms \cup Pubs
BY DEF path, otherForm, Encrypted, KeyForms, PFXForms, Pubs, Extensions

-----------------------------------------------------------------------------
(* The tree of a spec: signsEmail is what its recursion says.  Children    *)
(* come after their parent in the order, so that a value for every node    *)
(* can be built from the last entry to the first.                          *)

\* Every set of naturals has a least element: no chain 1..n, 1..m, ... of finite
\* sets shrinks for ever.
LEMMA LeastNatural ==
  ASSUME NEW T \in SUBSET Nat, T # {}
  PROVE  \E m \in T : \A n \in T : m <= n
<1> DEFINE U == {1..n : n \in T}
<1>1. U \subseteq FiniteSubsetsOf(Nat)
  <2>1. ASSUME NEW n \in Nat PROVE 1..n \in SUBSET Nat /\ IsFiniteSet(1..n)
    BY FS_Interval
  <2> QED BY <2>1 DEF FiniteSubsetsOf
<1>2. IsWellFoundedOn(StrictSubsetOrdering(Nat), FiniteSubsetsOf(Nat))
  BY FS_StrictSubsetOrderingWellFounded
<1>3. PICK u \in U : \A v \in U : ~(<<v, u>> \in StrictSubsetOrdering(Nat))
  <2>1. U # {}
    OBVIOUS
  <2> HIDE DEF U
  <2> QED BY <1>1, <1>2, <2>1, WFMin
<1>4. PICK m \in T : u = 1..m
  OBVIOUS
<1>5. ASSUME NEW n \in T, n < m PROVE FALSE
  <2>1. m \in 1..m /\ m \notin 1..n
    BY <1>5
  <2>2. 1..n \in U
    OBVIOUS
  <2>3. 1..n \subseteq 1..m /\ 1..n \in SUBSET Nat /\ 1..m \in SUBSET Nat
    BY <1>5
  <2>4. 1..n # 1..m
    BY <2>1
  <2> HIDE DEF U
  <2> QED BY <1>3, <1>4, <2>2, <2>3, <2>4 DEF StrictSubsetOrdering
<1>6. ASSUME NEW n \in T PROVE m <= n
  BY <1>5
<1> QED BY <1>6

\* What the recursion of signsEmail says of g at n.
EmailBelow(s, g, n) == \E c \in Children(s, n) : c \in s.emailAddresses \/ g[c]
\* g satisfies the recursion at every node but the first k entries.
SignsAfter(s, k, g) ==
  /\ g \in [Nodes -> BOOLEAN]
  /\ \A n \in Nodes : (\A i \in 1..k : s.order[i] # n) => (g[n] <=> EmailBelow(s, g, n))

\* A child comes after its parent.
LEMMA ChildrenAfter ==
  ASSUME NEW s \in CertificateSpec, validateSpec(s), NEW n \in Nodes, NEW c \in Children(s, n)
  PROVE  \E i \in 1..Len(s.order) : s.order[i] = c /\ \E j \in 1..(i - 1) : s.order[j] = n
<1>1. PICK i \in 1..Len(s.order) : s.order[i] = c
  BY DEF Children, Entries
<1>2. s.parent[c] = n /\ n # TopLevel
  BY SentinelAssumption DEF Children
<1> QED BY <1>1, <1>2 DEF validateSpec

\* From a value at all but the first k entries to one at all but the first k - 1.
LEMMA SignsOneMore ==
  ASSUME NEW s \in CertificateSpec, validateSpec(s), NEW k \in 1..Len(s.order),
         NEW g, SignsAfter(s, k, g)
  PROVE  \E h : SignsAfter(s, k - 1, h)
<1> DEFINE e == s.order[k]
           h == [g EXCEPT ![e] = EmailBelow(s, g, e)]
<1>1. s.order \in Seq(Nodes) /\ Len(s.order) \in Nat /\ e \in Nodes
  <2>1. s.order \in Seq(Nodes)
    BY DEF CertificateSpec
  <2> QED BY <2>1
<1>2. g \in [Nodes -> BOOLEAN] /\ h \in [Nodes -> BOOLEAN]
  <2>1. EmailBelow(s, g, e) \in BOOLEAN
    BY DEF EmailBelow
  <2>2. g \in [Nodes -> BOOLEAN]
    BY DEF SignsAfter
  <2> QED BY <2>1, <2>2
<1>3. ASSUME NEW n \in Nodes, \A i \in 1..(k - 1) : s.order[i] # n PROVE e \notin Children(s, n)
  <2> SUFFICES ASSUME e \in Children(s, n) PROVE FALSE
    OBVIOUS
  <2>1. PICK i \in 1..Len(s.order) : s.order[i] = e /\ \E j \in 1..(i - 1) : s.order[j] = n
    BY ChildrenAfter
  <2>2. i = k
    BY <1>1, <2>1 DEF validateSpec
  <2> QED BY <1>3, <2>1, <2>2
<1>4. ASSUME NEW n \in Nodes, \A i \in 1..(k - 1) : s.order[i] # n
      PROVE  h[n] <=> EmailBelow(s, h, n)
  <2>1. Children(s, n) \subseteq Nodes \ {e}
    BY <1>1, <1>3, <1>4 DEF Children, Entries
  <2>2. EmailBelow(s, h, n) <=> EmailBelow(s, g, n)
    BY <1>2, <2>1 DEF EmailBelow
  <2>3. CASE n = e
    BY <1>1, <1>2, <2>2, <2>3
  <2>4. CASE n # e
    <3>1. \A i \in 1..k : s.order[i] # n
      BY <1>4, <2>4
    <3> QED BY <1>2, <2>2, <2>4, <3>1 DEF SignsAfter
  <2> QED BY <2>3, <2>4
<1> HIDE DEF h
<1>5. SignsAfter(s, k - 1, h)
  BY <1>2, <1>4 DEF SignsAfter
<1> QED BY <1>5

\* So signsEmail satisfies its recursion at every node.
LEMMA SignsEmailDefined ==
  ASSUME NEW s \in CertificateSpec, validateSpec(s), NEW n \in Nodes
  PROVE  signsEmail(s)[n] <=> EmailBelow(s, signsEmail(s), n)
<1>1. Len(s.order) \in Nat
  <2>1. s.order \in Seq(Nodes)
    BY DEF CertificateSpec
  <2> QED BY <2>1
<1>2. \E g : SignsAfter(s, Len(s.order), g)
  <2> DEFINE g == [m \in Nodes |-> FALSE]
  <2>1. ASSUME NEW m \in Nodes, \A i \in 1..Len(s.order) : s.order[i] # m PROVE ~EmailBelow(s, g, m)
    <3>1. Children(s, m) = {}
      BY <1>1, <2>1, ChildrenAfter
    <3> QED BY <3>1 DEF EmailBelow
  <2> HIDE DEF g
  <2>2. SignsAfter(s, Len(s.order), g)
    BY <2>1 DEF SignsAfter, g
  <2> QED BY <2>2
<1> DEFINE T == {k \in 0..Len(s.order) : \E g : SignsAfter(s, k, g)}
<1>3. PICK k \in T : \A j \in T : k <= j
  <2>1. T \in SUBSET Nat /\ T # {}
    BY <1>1, <1>2
  <2> HIDE DEF T
  <2> QED BY <2>1, LeastNatural
<1>4. k = 0
  <2> SUFFICES ASSUME k # 0 PROVE FALSE
    OBVIOUS
  <2>1. k \in 1..Len(s.order)
    BY <1>1
  <2>2. \E h : SignsAfter(s, k - 1, h)
    BY <2>1, SignsOneMore
  <2>3. k - 1 \in T
    BY <1>1, <2>1, <2>2
  <2> QED BY <1>1, <1>3, <2>1, <2>3
<1>5. PICK g : SignsAfter(s, 0, g)
  BY <1>4
<1>6. g = [m \in Nodes |-> \E c \in Children(s, m) : c \in s.emailAddresses \/ g[c]]
  BY <1>5 DEF SignsAfter, EmailBelow
<1>7. signsEmail(s) = [m \in Nodes |-> \E c \in Children(s, m) :
                                         c \in s.emailAddresses \/ signsEmail(s)[c]]
  BY <1>6 DEF signsEmail
<1> QED BY <1>7 DEF EmailBelow

-----------------------------------------------------------------------------
(* The certificates there are: in files, at hand, in memory.  Keys are     *)
(* generated afresh, so one key has one certificate, and what was issued   *)
(* below a certificate never outlives it and is a CA only where there is   *)
(* room for one, whenever it is reused.                                    *)

Issued ==
  {IssuerCertificate}
  \cup ({fs[b]["crt"] : b \in Basenames} \ {Absent})
  \cup {kp[p].cert : p \in {q \in Procs : kp[q] # NoPair}}
  \cup (UNION {{mem[p][n].cert : n \in Finished(p)} : p \in Procs})

IssuedInv ==
  \A c, d \in Issued :
    /\ c.key < nextKey /\ c.signer < nextKey
    /\ c.key = d.key => c = d
    /\ c.signer = d.key => c.notAfter <= d.notAfter
    /\ c.signer = d.key /\ c # d /\ c.ca => d.pathLen # 0

\* Certificate c of entry n, below certificate up, is what spec s and options o
\* ask for: Fits without the key and the time.
FitsBelow(s, o, n, c, up) ==
  LET self == s.parent[n] = TopLevel /\ ~o.issuer
      want == IF s.permitted[n] = {} /\ ~self THEN up.permitted ELSE s.permitted[n]
      isCA == n \in s.certificateAuthority
  IN /\ c.cn = n /\ (c.ca <=> isCA)
     /\ isCA /\ signsEmail(s)[n] => c.email
     /\ IF self THEN c.signer = c.key ELSE up.ca /\ c.signer = up.key
     /\ isCA => /\ self \/ up.permitted = {} \/ want \subseteq up.permitted
                /\ c.permitted = want
                /\ c.pathLen = pathLen(s, n)

\* A certificate of entry n has the place in the tree that the run's spec gives it.
FitsTree(p, n, c) ==
  FitsBelow(CertSpec(p), Opt(p), n, c,
            IF CertSpec(p).parent[n] = TopLevel THEN IssuerCertificate
            ELSE mem[p][CertSpec(p).parent[n]].cert)

TreeInv(p) ==
  /\ \A n \in Finished(p) : FitsTree(p, n, mem[p][n].cert)
  /\ pc[p] \in Passed => FitsTree(p, Entry(p), kp[p].cert)

HistoryInv == IssuedInv /\ \A p \in Procs : TreeInv(p)

LEMMA IssuedTyped ==
  ASSUME TypeOK, NEW c \in Issued
  PROVE  c.key \in Nat /\ c.signer \in Nat /\ c.notAfter \in Nat
<1>1. CASE c = IssuerCertificate
  BY <1>1, IssuerAssumption DEF IssuerCertificate, IssuerKey
<1>2. CASE c # IssuerCertificate
  <2>1. c \in Certificate
    BY <1>2 DEF Issued, TypeOK, Finished, KeyPair
  <2> QED BY <2>1 DEF Certificate
<1> QED BY <1>1, <1>2

\* Where a certificate that there is can be.
LEMMA IssuedWhere ==
  ASSUME NEW c
  PROVE  c \in Issued <=>
           \/ c = IssuerCertificate
           \/ \E b \in Basenames : c = fs[b]["crt"] /\ c # Absent
           \/ \E p \in Procs : kp[p] # NoPair /\ c = kp[p].cert
           \/ \E p \in Procs : \E n \in Finished(p) : c = mem[p][n].cert
BY DEF Issued

\* A step that puts no new certificate anywhere adds none to those there are.
LEMMA IssuedNoMore ==
  ASSUME \A b \in Basenames : fs'[b]["crt"] \in Issued \cup {Absent},
         \A p \in Procs : kp'[p] # NoPair => kp'[p].cert \in Issued,
         \A p \in Procs, n \in Nodes : mem'[p][n] # NoPair => mem'[p][n].cert \in Issued
  PROVE  Issued' \subseteq Issued
<1>1. IssuerCertificate' = IssuerCertificate /\ IssuerCertificate \in Issued
  BY DEF IssuerCertificate, Issued
<1> QED BY <1>1 DEF Issued, Finished

\* It keeps what is said of them.
LEMMA IssuedKept ==
  ASSUME IssuedInv, Issued' \subseteq Issued, nextKey' = nextKey
  PROVE  IssuedInv'
BY DEF IssuedInv

LEMMA HereIssued ==
  /\ \A b \in Basenames : fs[b]["crt"] \in Issued \cup {Absent}
  /\ \A p \in Procs : kp[p] # NoPair => kp[p].cert \in Issued
  /\ \A p \in Procs, n \in Nodes : mem[p][n] # NoPair => mem[p][n].cert \in Issued
BY DEF Issued, Finished

\* Generate adds one certificate, with a key of its own, that does not outlive
\* its issuer.
LEMMA GenerateIssued ==
  ASSUME IInv, IssuedInv, NEW p \in Procs, Generate(p)
  PROVE  IssuedInv'
<1> DEFINE c == NewCertificate(p)
<1>1. /\ TypeOK /\ nextKey \in Nat /\ nextKey' = nextKey + 1 /\ fs' = fs /\ mem' = mem
      /\ c \in Certificate /\ pc[p] \in Working
  BY NewCertificateTyped DEF IInv, TypeOK, Generate, Working
<1>2. kp'[p].cert = c /\ \A q \in Procs \ {p} : kp'[q] = kp[q]
  BY <1>1 DEF Generate, TypeOK
<1>3. Issued' \subseteq Issued \cup {c}
  <2>1. IssuerCertificate' = IssuerCertificate
    BY DEF IssuerCertificate
  <2> HIDE DEF c
  <2> QED BY <1>1, <1>2, <2>1 DEF Issued, Finished
<1>4. c.key = nextKey /\ c.signer = IF SelfSigned(p) THEN nextKey ELSE Parent(p).key
  BY DEF NewCertificate
<1>5. ~SelfSigned(p) => Parent(p) \in Issued
  <2>1. CASE CertSpec(p).parent[Entry(p)] = TopLevel
    BY <2>1 DEF Parent, Issued
  <2>2. CASE CertSpec(p).parent[Entry(p)] # TopLevel
    <3>1. CertSpec(p).parent[Entry(p)] \in Finished(p)
      BY <1>1, <2>2, ParentBefore DEF IInv, MemInv
    <3> QED BY <2>2, <3>1, HereIssued DEF Parent, Finished
  <2> QED BY <2>1, <2>2
<1>6. ~SelfSigned(p) => c.notAfter <= Parent(p).notAfter /\ Parent(p).key < nextKey
  <2> SUFFICES ASSUME ~SelfSigned(p) PROVE c.notAfter <= Parent(p).notAfter /\ Parent(p).key < nextKey
    OBVIOUS
  <2>1. Parent(p).notAfter \in Nat /\ now \in Nat
    BY <1>1, <1>5, IssuedTyped DEF TypeOK
  <2>2. CertSpec(p).validity[Entry(p)] \in Nat
    BY <1>1, EntryTyped DEF CertificateSpec
  <2>3. c.notAfter <= Parent(p).notAfter
    BY <2>1, <2>2 DEF NewCertificate, NotAfter
  <2> QED BY <1>5, <2>3 DEF IssuedInv
<1>a. ~SelfSigned(p) /\ c.ca => Parent(p).pathLen # 0
  BY DEF NewCertificate, Generate, CanIssue
<1>7. c.key \in Nat /\ c.signer \in Nat /\ c.notAfter \in Nat
  BY <1>1 DEF Certificate
<1> HIDE DEF c
<1>8. \A d \in Issued : d.key \in Nat /\ d.signer \in Nat /\ d.key < nextKey /\ d.signer < nextKey
  BY <1>1, IssuedTyped DEF IssuedInv
<1>9. ASSUME NEW a \in Issued', NEW d \in Issued'
      PROVE  /\ a.key < nextKey + 1 /\ a.signer < nextKey + 1
             /\ a.key = d.key => a = d
             /\ a.signer = d.key => a.notAfter <= d.notAfter
             /\ a.signer = d.key /\ a # d /\ a.ca => d.pathLen # 0
  <2>1. (a = c \/ a \in Issued) /\ (d = c \/ d \in Issued)
    BY <1>3
  <2>2. a.key < nextKey + 1 /\ a.signer < nextKey + 1
    BY <1>1, <1>4, <1>5, <1>6, <1>7, <1>8, <2>1
  <2>3. a.key = d.key => a = d
    BY <1>1, <1>4, <1>8, <2>1 DEF IssuedInv
  <2>4. ASSUME a.signer = d.key PROVE a.notAfter <= d.notAfter
    <3>1. CASE a \in Issued
      <4>1. d # c
        BY <1>1, <1>4, <1>8, <2>4, <3>1
      <4> QED BY <2>1, <2>4, <3>1, <4>1 DEF IssuedInv
    <3>2. CASE a = c /\ SelfSigned(p)
      <4>1. d = c
        BY <1>1, <1>4, <1>8, <2>1, <2>4, <3>2
      <4> QED BY <1>7, <3>2, <4>1
    <3>3. CASE a = c /\ ~SelfSigned(p)
      <4>1. d \in Issued /\ d.key = Parent(p).key
        BY <1>1, <1>4, <1>6, <1>7, <2>1, <2>4, <3>3
      <4>2. d = Parent(p)
        BY <1>5, <3>3, <4>1 DEF IssuedInv
      <4> QED BY <1>6, <3>3, <4>2
    <3> QED BY <2>1, <3>1, <3>2, <3>3
  <2>5. ASSUME a.signer = d.key, a # d, a.ca PROVE d.pathLen # 0
    <3>1. CASE a \in Issued
      <4>1. d # c
        BY <1>1, <1>4, <1>8, <2>5, <3>1
      <4> QED BY <2>1, <2>5, <3>1, <4>1 DEF IssuedInv
    <3>2. CASE a = c /\ ~SelfSigned(p)
      <4>1. d \in Issued /\ d.key = Parent(p).key
        BY <1>4, <2>1, <2>5, <3>2
      <4>2. d = Parent(p)
        BY <1>5, <3>2, <4>1 DEF IssuedInv
      <4> QED BY <1>a, <2>5, <3>2, <4>2
    <3>3. CASE a = c /\ SelfSigned(p)
      <4>1. d \notin Issued
        BY <1>1, <1>4, <1>8, <2>5, <3>3
      <4> QED BY <2>1, <2>5, <3>3, <4>1
    <3> QED BY <2>1, <3>1, <3>2, <3>3
  <2> QED BY <2>2, <2>3, <2>4, <2>5
<1> QED BY <1>1, <1>9 DEF IssuedInv

\* No other step adds one.
LEMMA StepIssued == IInv /\ IssuedInv /\ [Next]_vars => IssuedInv'
<1> SUFFICES ASSUME IInv, IssuedInv, [Next]_vars PROVE IssuedInv'
  OBVIOUS
<1>1. TypeOK
  BY DEF IInv
<1>2. ASSUME nextKey' = nextKey,
             \A b \in Basenames : fs'[b]["crt"] \in Issued \cup {Absent},
             \A p \in Procs : kp'[p] # NoPair => kp'[p].cert \in Issued,
             \A p \in Procs, n \in Nodes : mem'[p][n] # NoPair => mem'[p][n].cert \in Issued
      PROVE  IssuedInv'
  BY <1>2, IssuedNoMore, IssuedKept
<1>3. CASE UNCHANGED <<fs, nextKey, kp, mem>>
  BY <1>2, <1>3, HereIssued
<1>4. ASSUME NEW p \in Procs, Step(p) PROVE IssuedInv'
  <2>1. pc[p] \in Holding => kp[p] \in KeyPair /\ kp[p] # NoPair /\ kp[p].cert \in Issued
    BY HereIssued, SentinelAssumption DEF IInv, EntryInv
  <2>2. ASSUME NEW x \in Extensions \ {"crt"}, NEW f, Put(p, x, f), UNCHANGED <<nextKey, kp, mem>>
        PROVE  IssuedInv'
    <3>1. \A b \in Basenames : fs'[b]["crt"] = fs[b]["crt"]
      <4>1. x \in Extensions /\ "crt" \in Extensions /\ x # "crt"
        BY DEF Extensions
      <4>2. /\ \A b \in Basenames : b # Basename(p) => fs'[b] = fs[b]
            /\ \A y \in Extensions : fs'[Basename(p)][y] = IF y = x THEN f ELSE Dir(p)[y]
        BY <1>1, <2>2, <4>1, PutAt
      <4> QED BY <4>1, <4>2 DEF Dir
    <3> QED BY <1>2, <2>2, <3>1, HereIssued
  <2>3. CASE ReadCert(p)
    <3>1. UNCHANGED <<fs, nextKey, mem>>
      BY <2>3 DEF ReadCert
    <3>2. \A q \in Procs : kp'[q] # NoPair => kp'[q].cert \in Issued
      <4>1. Basename(p) \in Basenames
        BY <1>1, EntryTyped
      <4> QED BY <1>1, <2>3, <4>1, HereIssued DEF ReadCert, TypeOK, Dir
    <3> QED BY <1>2, <3>1, <3>2, HereIssued
  <2>4. CASE ReadKey(p) \/ StatReusedPFX(p) \/ ReadPFX(p)
    <3>1. UNCHANGED <<fs, nextKey, mem>> /\ pc[p] \in Holding
      BY <2>4 DEF ReadKey, StatReusedPFX, ReadPFX, Holding, Passed
    <3>2. kp'[p].cert = kp[p].cert /\ \A q \in Procs \ {p} : kp'[q] = kp[q]
      BY <1>1, <2>1, <2>4, <3>1 DEF ReadKey, StatReusedPFX, ReadPFX, TypeOK, KeyPair
    <3> QED BY <1>2, <2>1, <3>1, <3>2, HereIssued
  <2>5. CASE WriteCert(p)
    <3>1. UNCHANGED <<nextKey, kp, mem>> /\ kp[p].cert \in Issued /\ "crt" \in Extensions
      BY <2>1, <2>5 DEF WriteCert, entry, Holding, Passed, Extensions
    <3>2. /\ \A b \in Basenames : b # Basename(p) => fs'[b] = fs[b]
          /\ fs'[Basename(p)]["crt"] = kp[p].cert
      BY <1>1, <2>5, <3>1, PutAt DEF WriteCert
    <3>3. \A b \in Basenames : fs'[b]["crt"] \in Issued \cup {Absent}
      BY <3>1, <3>2, HereIssued
    <3> QED BY <1>2, <3>1, <3>3, HereIssued
  <2>6. CASE RemoveKey(p) \/ RemovePFX(p) \/ WriteKey(p) \/ WritePFX(p)
    <3>1. Opt(p) \in SpecOptions /\ UNCHANGED <<nextKey, kp, mem>>
      BY <1>1, <2>6, EntryTyped DEF RemoveKey, RemovePFX, WriteKey, WritePFX, entry
    <3>2. \A k \in {"key", "pfx"} : /\ path(Opt(p), k) \in Extensions \ {"crt"}
                                    /\ otherForm(Opt(p), k) \in Extensions \ {"crt"}
      BY <3>1, Names
    <3> QED BY <2>2, <2>6, <3>1, <3>2 DEF RemoveKey, RemovePFX, WriteKey, WritePFX
  <2>7. CASE WriteSSH(p)
    <3>1. PublicHalf(keyPath[p]) \in Extensions \ {"crt"} /\ UNCHANGED <<nextKey, kp, mem>>
      BY <2>7 DEF WriteSSH, PublicHalf, Extensions, Pubs, entry
    <3>2. Put(p, PublicHalf(keyPath[p]), kp[p].cert.key)
      BY <2>7 DEF WriteSSH
    <3> QED BY <2>2, <3>1, <3>2
  <2>8. CASE NextEntry(p)
    <3>1. UNCHANGED <<fs, nextKey>> /\ Entry(p) \in Nodes /\ kp[p].cert \in Issued
      BY <1>1, <2>1, <2>8, EntryTyped DEF NextEntry, Holding, Passed
    <3>2. /\ kp'[p] = NoPair /\ \A q \in Procs \ {p} : kp'[q] = kp[q]
          /\ \A q \in Procs, n \in Nodes : mem'[q][n] = IF q = p /\ n = Entry(p) THEN kp[p] ELSE mem[q][n]
      BY <1>1, <2>8, <3>1 DEF NextEntry, TypeOK
    <3> QED BY <1>2, <3>1, <3>2, HereIssued
  <2> QED BY <1>3, <1>4, <2>3, <2>4, <2>5, <2>6, <2>7, <2>8, GenerateIssued
      DEF Step, Enter, StatKey, StatCert, CheckReused, GenerateFails, StatPFX, IOFails, entry
<1>5. ASSUME NEW p \in Procs, Forget(p), UNCHANGED <<fs, nextKey>> PROVE IssuedInv'
  <2>1. /\ \A q \in Procs : kp'[q] = IF q = p THEN NoPair ELSE kp[q]
        /\ \A q \in Procs, n \in Nodes : mem'[q][n] = IF q = p THEN NoPair ELSE mem[q][n]
    BY <1>1, <1>5 DEF Forget, TypeOK
  <2> QED BY <1>2, <1>5, <2>1, HereIssued
<1>6. ASSUME NEW b \in Basenames, DeletePair(b) PROVE IssuedInv'
  <2>1. /\ \A c \in Basenames : fs'[c]["crt"] = fs[c]["crt"] \/ fs'[c]["crt"] = Absent
        /\ UNCHANGED <<nextKey, kp, mem>>
    BY <1>1, <1>6 DEF DeletePair, TypeOK, Extensions, entry
  <2> QED BY <1>2, <2>1, HereIssued
<1>7. ASSUME NEW b \in Basenames, NEW x \in Extensions, DeleteFile(b, x) PROVE IssuedInv'
  <2>1. /\ \A c \in Basenames : fs'[c]["crt"] = fs[c]["crt"] \/ fs'[c]["crt"] = Absent
        /\ UNCHANGED <<nextKey, kp, mem>>
    BY <1>1, <1>7 DEF DeleteFile, TypeOK, Extensions, entry
  <2> QED BY <1>2, <2>1, HereIssued
<1> QED BY <1>3, <1>4, <1>5, <1>6, <1>7
    DEF Next, Start, Exit, Crash, Tick, vars, entry

\* A step keeps TreeInv when a pair that passes has the place the spec gives it.
LEMMA TreeKept ==
  ASSUME NEW p \in Procs, SameEntry(p), TreeInv(p),
         pc'[p] \in Passed => \/ pc[p] \in Passed /\ kp'[p].cert = kp[p].cert
                              \/ FitsTree(p, Entry(p), kp'[p].cert)
  PROVE  TreeInv(p)'
<1>1. /\ Entry(p)' = Entry(p) /\ Finished(p)' = Finished(p) /\ mem'[p] = mem[p]
  BY EntryKept DEF SameEntry
<1>2. ASSUME NEW n \in Finished(p) PROVE FitsTree(p, n, mem[p][n].cert)'
  <2>1. FitsTree(p, n, mem[p][n].cert)
    BY DEF TreeInv
  <2>2. FitsTree(p, n, mem[p][n].cert)' <=> FitsTree(p, n, mem'[p][n].cert)
    BY EntryKept DEF FitsTree, SameEntry, IssuerCertificate
  <2> QED BY <1>1, <2>1, <2>2
<1>3. ASSUME pc'[p] \in Passed PROVE FitsTree(p, Entry(p), kp[p].cert)'
  <2>1. FitsTree(p, Entry(p), kp'[p].cert)
    BY <1>3 DEF TreeInv
  <2>2. FitsTree(p, Entry(p), kp[p].cert)' <=> FitsTree(p, Entry(p), kp'[p].cert)
    BY EntryKept DEF FitsTree, SameEntry, IssuerCertificate
  <2> QED BY <2>1, <2>2
<1> QED BY <1>1, <1>2, <1>3 DEF TreeInv

\* A new certificate has its place,
LEMMA NewFitsTree ==
  ASSUME NEW p \in Procs, CanIssue(p)
  PROVE  FitsTree(p, Entry(p), NewCertificate(p))
<1>1. /\ NewCertificate(p).cn = Entry(p)
      /\ NewCertificate(p).ca <=> IsCA(p)
      /\ IsCA(p) => /\ NewCertificate(p).permitted = WantPermitted(p)
                    /\ NewCertificate(p).pathLen = pathLen(CertSpec(p), Entry(p))
                    /\ ~SelfSigned(p) => ConstraintsFit(p)
      /\ EmailProtection(p) => NewCertificate(p).email
      /\ IF SelfSigned(p) THEN NewCertificate(p).signer = NewCertificate(p).key
         ELSE Parent(p).ca /\ NewCertificate(p).signer = Parent(p).key
  BY DEF NewCertificate, CanIssue, IsCA, EmailProtection
<1> DEFINE c == NewCertificate(p)
<1> HIDE DEF c
<1> QED BY <1>1
    DEF FitsTree, FitsBelow, IsCA, SelfSigned, Parent, WantPermitted, ConstraintsFit, EmailProtection

\* and so has one that is reused.
LEMMA ReusedFitsTree ==
  ASSUME NEW p \in Procs, Fits(p)
  PROVE  FitsTree(p, Entry(p), kp[p].cert)
BY DEF Fits, FitsTree, FitsBelow, IsCA, SelfSigned, Parent, WantPermitted, ConstraintsFit, EmailProtection

\* A finished entry keeps its place: its parent was finished before it.
LEMMA NextEntryTree ==
  ASSUME IInv, NEW p \in Procs, TreeInv(p), NextEntry(p)
  PROVE  TreeInv(p)'
<1>0. PICK e \in Nodes : e = Entry(p)
  BY EntryTyped DEF IInv
<1>1. /\ TypeOK /\ pc[p] = "next" /\ Finished(p) = Before(p) /\ kp[p] # NoPair
      /\ CertSpec(p)' = CertSpec(p) /\ Opt(p)' = Opt(p)
  BY SentinelAssumption
  DEF NextEntry, IInv, MemInv, EntryInv, Holding, Passed, Working, local, CertSpec, Opt
<1>2. /\ mem'[p][e] = kp[p] /\ \A n \in Nodes \ {e} : mem'[p][n] = mem[p][n]
      /\ pc'[p] \notin Passed
  BY <1>0, <1>1 DEF NextEntry, TypeOK, Goto, Passed
<1>3. e \notin Finished(p) /\ Finished(p)' = Finished(p) \cup {e}
  BY <1>0, <1>1, <1>2, ParentBefore DEF Finished
<1>4. ASSUME NEW n \in Finished(p) \cup {e}, CertSpec(p).parent[n] # TopLevel
      PROVE  /\ CertSpec(p).parent[n] \in Nodes \ {e}
             /\ mem'[p][CertSpec(p).parent[n]] = mem[p][CertSpec(p).parent[n]]
  <2>1. CertSpec(p).parent[n] \in Finished(p)
    <3>1. CASE n \in Finished(p)
      BY <1>4, <3>1 DEF IInv, MemInv, MemSound
    <3>2. CASE n = e
      BY <1>0, <1>1, <1>4, <3>2, ParentBefore
    <3> QED BY <3>1, <3>2
  <2> QED BY <1>2, <1>3, <2>1 DEF Finished
<1>5. ASSUME NEW n \in Finished(p) PROVE FitsTree(p, n, mem[p][n].cert)'
  <2>1. FitsTree(p, n, mem[p][n].cert) /\ n # e /\ n \in Nodes
    BY <1>3 DEF TreeInv, Finished
  <2>2. mem'[p][n] = mem[p][n]
    BY <1>2, <2>1
  <2> QED BY <1>1, <1>4, <2>1, <2>2 DEF FitsTree, IssuerCertificate
<1>6. FitsTree(p, e, mem[p][e].cert)'
  <2>1. FitsTree(p, e, kp[p].cert)
    BY <1>0, <1>1 DEF TreeInv, Passed
  <2> QED BY <1>1, <1>2, <1>4, <2>1 DEF FitsTree, IssuerCertificate
<1> QED BY <1>2, <1>3, <1>5, <1>6 DEF TreeInv

\* Every step of a run keeps what is said of it.
LEMMA RunTree ==
  ASSUME IInv, NEW p \in Procs, TreeInv(p), Step(p)
  PROVE  TreeInv(p)'
<1>1. TypeOK /\ (pc[p] \in Holding => kp[p] \in KeyPair)
  BY DEF IInv, EntryInv
<1>2. CASE NextEntry(p)
  BY <1>2, NextEntryTree
<1>3. CASE ~NextEntry(p)
  <2>1. SameEntry(p)
    BY <1>3 DEF Step, SameEntry, local, Enter, StatKey, StatCert, ReadCert, ReadKey, CheckReused,
       StatReusedPFX, ReadPFX, Generate, GenerateFails, RemoveKey, RemovePFX, WriteCert, WriteKey,
       StatPFX, WritePFX, WriteSSH, IOFails
  <2>2. CASE pc'[p] \notin Passed
    BY <2>1, <2>2, TreeKept
  <2>3. CASE CheckReused(p) /\ pc'[p] \in Passed
    <3>1. Fits(p) /\ kp' = kp
      BY <1>1, <2>3 DEF CheckReused, Fail, Goto, Passed, TypeOK
    <3> QED BY <2>1, <3>1, ReusedFitsTree, TreeKept
  <2>4. CASE Generate(p)
    <3>1. CanIssue(p) /\ kp'[p].cert = NewCertificate(p)
      BY <1>1, <2>4 DEF Generate, TypeOK
    <3> QED BY <2>1, <3>1, NewFitsTree, TreeKept
  <2>5. CASE StatReusedPFX(p) \/ ReadPFX(p)
    <3>1. pc[p] \in Passed /\ kp[p] \in KeyPair
      BY <1>1, <2>5 DEF StatReusedPFX, ReadPFX, Passed, Holding
    <3>2. kp'[p].cert = kp[p].cert
      BY <1>1, <2>5, <3>1 DEF StatReusedPFX, ReadPFX, TypeOK, KeyPair
    <3> QED BY <2>1, <3>1, <3>2, TreeKept
  <2>6. CASE \/ RemoveKey(p) \/ RemovePFX(p) \/ WriteCert(p) \/ WriteKey(p) \/ StatPFX(p)
             \/ WritePFX(p) \/ WriteSSH(p)
    <3>1. pc[p] \in Passed /\ kp' = kp
      BY <2>6 DEF RemoveKey, RemovePFX, WriteCert, WriteKey, StatPFX, WritePFX, WriteSSH, entry, Passed
    <3> QED BY <2>1, <3>1, TreeKept
  <2>7. CASE Enter(p) \/ StatKey(p) \/ StatCert(p) \/ ReadCert(p) \/ ReadKey(p) \/ GenerateFails(p) \/ IOFails(p)
    <3>1. pc'[p] \notin Passed
      BY <1>1, <2>7 DEF Enter, StatKey, StatCert, ReadCert, ReadKey, GenerateFails, IOFails, Goto, Fail,
         Passed, TypeOK
    <3> QED BY <2>1, <3>1, TreeKept
  <2> QED BY <1>3, <2>2, <2>3, <2>4, <2>5, <2>6, <2>7 DEF Step
<1> QED BY <1>2, <1>3

\* A run that is where it was keeps it too.
LEMMA SameTree ==
  ASSUME NEW q \in Procs, TreeInv(q), Same(q)
  PROVE  TreeInv(q)'
BY TreeKept DEF Same, SameEntry

\* The history is kept by every step.
LEMMA StepHistory == IInv /\ HistoryInv /\ [Next]_vars => HistoryInv'
<1> SUFFICES ASSUME IInv, HistoryInv, [Next]_vars PROVE HistoryInv'
  OBVIOUS
<1>1. IssuedInv'
  BY StepIssued DEF HistoryInv
<1>2. ASSUME NEW p \in Procs, Start(p) \/ Step(p) \/ Exit(p) \/ Crash(p)
      PROVE  \A q \in Procs : TreeInv(q)'
  <2>1. Keeps(p)
    <3>1. ASSUME Step(p) PROVE Keeps(p)
      BY <3>1, EnterKeeps, StatKeyKeeps, StatCertKeeps, ReadCertKeeps, ReadKeyKeeps, CheckReusedKeeps,
         StatReusedPFXKeeps, ReadPFXKeeps, GenerateKeeps, GenerateFailsKeeps, RemoveKeyKeeps,
         RemovePFXKeeps, WriteCertKeeps, WriteKeyKeeps, StatPFXKeeps, WritePFXKeeps, WriteSSHKeeps,
         NextEntryKeeps, IOFailsKeeps DEF Step
    <3> QED BY <1>2, <3>1, StartKeeps, ExitKeeps, CrashKeeps
  <2>2. \A q \in Procs \ {p} : TreeInv(q)'
    BY <2>1, SameTree DEF Keeps, Others, HistoryInv
  <2>3. CASE Step(p)
    BY <2>2, <2>3, RunTree DEF HistoryInv
  <2>4. CASE Exit(p) \/ Crash(p)
    <3>1. pc'[p] = "idle"
      BY <2>4 DEF Exit, Crash, Forget, Goto, IInv, TypeOK
    <3>2. Finished(p)' = {} /\ pc'[p] \notin Passed
      BY <2>1, <3>1 DEF Keeps, MemInv, Passed
    <3> QED BY <2>2, <3>2 DEF TreeInv
  <2>5. CASE Start(p)
    <3>1. pc'[p] = "enter" /\ pos'[p] = 1
      BY <2>5 DEF Start, Goto, IInv, TypeOK, MemInv
    <3>2. Finished(p)' = {} /\ pc'[p] \notin Passed
      BY <2>1, <3>1 DEF Keeps, MemInv, Passed, Working, Before
    <3> QED BY <2>2, <3>2 DEF TreeInv
  <2> QED BY <1>2, <2>3, <2>4, <2>5
<1>3. ASSUME UNCHANGED <<pc, task, pos, mem, kp, keyPath, pfxPath>> PROVE \A q \in Procs : TreeInv(q)'
  BY <1>3, SameTree DEF HistoryInv, Same
<1>4. \A q \in Procs : TreeInv(q)'
  BY <1>2, <1>3 DEF Next, DeletePair, DeleteFile, Tick, vars, local, entry
<1> QED BY <1>1, <1>4 DEF HistoryInv

\* No certificate but the issuer's is there at first.
LEMMA InitHistory == Init => HistoryInv
<1> SUFFICES ASSUME Init PROVE HistoryInv
  OBVIOUS
<1>1. \A p \in Procs : Finished(p) = {} /\ pc[p] \notin Passed
  BY DEF Init, Finished, Passed
<1>2. Issued = {IssuerCertificate}
  <2>1. (\A b \in Basenames : fs[b]["crt"] = Absent) /\ \A p \in Procs : kp[p] = NoPair
    BY DEF Init, Extensions
  <2> QED BY <1>1, <2>1 DEF Issued
<1>3. IssuedInv
  <2>1. IssuerCertificate.key = 1 /\ IssuerCertificate.signer = 1 /\ IssuerCertificate.notAfter \in Nat
    BY IssuerAssumption DEF IssuerCertificate, IssuerKey
  <2>2. nextKey = 2
    BY DEF Init
  <2> QED BY <1>2, <2>1, <2>2 DEF IssuedInv
<1> QED BY <1>1, <1>3 DEF HistoryInv, TreeInv

\* The parent of an entry with email addresses allows email: it signs email.
LEMMA ParentAllowsEmail ==
  ASSUME IInv, NEW p \in Procs, TreeInv(p), NEW n \in Finished(p), n \in Entries(CertSpec(p)),
         n \in CertSpec(p).emailAddresses, CertSpec(p).parent[n] # TopLevel
  PROVE  mem[p][CertSpec(p).parent[n]].cert.email
<1> DEFINE m == CertSpec(p).parent[n]
           s == CertSpec(p)
<1>1. m \in Finished(p) /\ m \in Nodes
  BY DEF IInv, MemInv, MemSound, Finished
<1>2. s \in CertificateSpec /\ validateSpec(s)
  BY EntryTyped DEF IInv
<1>3. mem[p][m].cert.ca
  <2>1. m \in s.certificateAuthority
    BY <1>2 DEF validateSpec, Entries
  <2> QED BY <1>1, <2>1 DEF IInv, MemInv, MemSound
<1>4. n \in Children(s, m)
  BY DEF Children
<1>5. signsEmail(s)[m]
  BY <1>1, <1>2, <1>4, SignsEmailDefined DEF EmailBelow
<1>6. FitsTree(p, m, mem[p][m].cert)
  BY <1>1 DEF TreeInv
<1> QED BY <1>3, <1>5, <1>6 DEF FitsTree, FitsBelow

\* What a successful run leaves fits the spec as it is now, also where files of
\* earlier versions of the spec were reused: path lengths and room for another CA,
\* name constraints, validity within the issuer's, and email where it is signed.
THEOREM FitsTheSpec == Spec => []HierarchyFitsSpec
<1>1. IInv /\ HistoryInv => HierarchyFitsSpec
  <2> SUFFICES ASSUME IInv, HistoryInv, NEW p \in Procs, pc[p] = "done",
                      NEW n \in Entries(CertSpec(p))
               PROVE  LET c == mem[p][n].cert
                          top == CertSpec(p).parent[n] = TopLevel
                          up == IF top THEN IssuerCertificate ELSE mem[p][CertSpec(p).parent[n]].cert
                          nested == ~top \/ Opt(p).issuer
                      IN /\ c.ca => c.pathLen = pathLen(CertSpec(p), n)
                         /\ c.ca /\ CertSpec(p).permitted[n] # {} => c.permitted = CertSpec(p).permitted[n]
                         /\ c.ca /\ nested /\ up.permitted # {} =>
                              c.permitted # {} /\ c.permitted \subseteq up.permitted
                         /\ c.ca /\ nested => up.pathLen # 0
                         /\ nested => c.notAfter <= up.notAfter
                         /\ n \in CertSpec(p).emailAddresses /\ nested => up.email
    BY DEF HierarchyFitsSpec
  <2> DEFINE c == mem[p][n].cert
             top == CertSpec(p).parent[n] = TopLevel
             up == IF top THEN IssuerCertificate ELSE mem[p][CertSpec(p).parent[n]].cert
             nested == ~top \/ Opt(p).issuer
  <2>1. n \in Finished(p) /\ TreeInv(p) /\ MemSound(p, n)
    BY DEF HistoryInv, IInv, MemInv
  <2>2. FitsTree(p, n, c)
    BY <2>1 DEF TreeInv
  <2>3. nested => c.notAfter <= up.notAfter /\ (c.ca => up.pathLen # 0)
    <3>1. c \in Issued /\ c.cn = n
      BY <2>1, HereIssued DEF Finished, MemSound
    <3>2. nested => up \in Issued /\ c.signer = up.key
      <4>1. CASE top
        BY <2>1, <4>1, IssuedWhere DEF MemSound, SignerOf, IssuerCertificate
      <4>2. CASE ~top
        <5>1. CertSpec(p).parent[n] \in Finished(p) /\ up = mem[p][CertSpec(p).parent[n]].cert
          BY <2>1, <4>2 DEF MemSound
        <5> QED BY <2>1, <4>2, <5>1, HereIssued DEF Finished, MemSound, SignerOf
      <4> QED BY <4>1, <4>2
    <3>3. up.cn # n
      <4>1. CASE top
        BY <2>1, <4>1, SentinelAssumption DEF IssuerCertificate, Finished
      <4>2. CASE ~top
        <5>1. validateSpec(CertSpec(p))
          BY EntryTyped DEF IInv
        <5>2. CertSpec(p).parent[n] # n
          BY <4>2, <5>1 DEF validateSpec, Entries
        <5>3. CertSpec(p).parent[n] \in Finished(p) /\ MemSound(p, CertSpec(p).parent[n])
          BY <2>1, <4>2 DEF MemSound, IInv, MemInv
        <5> QED BY <4>2, <5>2, <5>3 DEF MemSound
      <4> QED BY <4>1, <4>2
    <3> QED BY <3>1, <3>2, <3>3 DEF HistoryInv, IssuedInv
  <2>4. n \in CertSpec(p).emailAddresses /\ nested => up.email
    <3>1. CASE top
      BY <3>1 DEF IssuerCertificate
    <3>2. CASE ~top
      BY <2>1, <3>2, ParentAllowsEmail
    <3> QED BY <3>1, <3>2
  <2>5. /\ c.ca => c.pathLen = pathLen(CertSpec(p), n)
        /\ c.ca /\ CertSpec(p).permitted[n] # {} => c.permitted = CertSpec(p).permitted[n]
        /\ c.ca /\ nested /\ up.permitted # {} => c.permitted # {} /\ c.permitted \subseteq up.permitted
    BY <2>2 DEF FitsTree, FitsBelow
  <2> QED BY <2>3, <2>4, <2>5
<1>2. Spec => []HistoryInv
  BY InitHistory, StepHistory, Invariance, PTL DEF Spec
<1> QED BY <1>1, <1>2, Invariance, PTL
=============================================================================
