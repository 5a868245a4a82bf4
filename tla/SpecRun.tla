------------------------------ MODULE SpecRun ------------------------------
(***************************************************************************)
(* GenerateFromSpecWithOptions: runs of --spec and --chain over one output *)
(* directory.  A run visits the entries of a spec in order; it reuses an   *)
(* entry's files or generates a key pair and writes them, one file at a    *)
(* time.  Runs follow one another with other options and edited specs, may *)
(* overlap, may fail at any file operation and may be killed between any   *)
(* two of them; between runs the user deletes files and time passes.       *)
(*                                                                         *)
(* One file operation (stat, read, remove, atomic write) is one step.  That*)
(* a write is one step is what module SafeFile shows of package safefile.  *)
(* Keys are numbers, so that "signed by" and "matches" are equalities.     *)
(***************************************************************************)
EXTENDS SpecTree

CONSTANTS Procs,       \* processes that may run at the same time
          Specs,       \* versions of the spec
          Options,     \* combinations of options a run may be given
          Recipients,  \* age recipients; an identity is named by its recipient
          Plain,       \* instead of a recipient: not encrypted
          Absent,      \* instead of a file: there is none
          NoPair,      \* instead of a key pair: none in memory
          IssuerNotAfter,             \* when the --yubikey issuer's certificate expires,
          IssuerPathLen,              \* its path length, and the names
          IssuerPermitted,            \* it permits
          MaxRuns, MaxNow, MaxEdits   \* bounds on runs, time and deletions

NoKey == 0
IssuerKey == 1      \* the key of the --yubikey issuer

\* The path lengths that some spec asks for.
PathLengths == {noLimit} \cup {pathLen(s, n) : s \in Specs, n \in Nodes}
\* What a certificate says, as far as a later run compares it.
Certificate == [key : Nat, signer : Nat, cn : Nodes, ca : BOOLEAN, permitted : SUBSET Domains,
                pathLen : PathLengths, email : BOOLEAN, notAfter : Nat]
PrivateFile == [key : Nat, to : Recipients \cup {Plain}]
KeyPair == [cert : Certificate, key : Nat, pfx : Nat]

SpecOptions == [overwrite : BOOLEAN, to : Recipients \cup {Plain}, ids : SUBSET Recipients,
                issuer : BOOLEAN, env : BOOLEAN]

ASSUME SpecsAssumption == Specs # {} /\ \A s \in Specs : s \in CertificateSpec /\ validateSpec(s)
ASSUME OptionsAssumption == Options # {} /\ Options \subseteq SpecOptions
ASSUME SentinelAssumption ==
  Plain \notin Recipients /\ TopLevel \notin Nodes /\ NoPair \notin KeyPair
  /\ Absent \notin Certificate \cup PrivateFile \cup Nat
ASSUME IssuerAssumption ==
  IssuerNotAfter \in Nat /\ IssuerPathLen \in Nat \cup {noLimit} /\ IssuerPermitted \subseteq Domains
ASSUME BoundAssumption == MaxRuns \in Nat /\ MaxNow \in Nat /\ MaxEdits \in Nat

Encrypted(k) == IF k = "key" THEN "key.age" ELSE "pfx.age"
PublicHalf(k) == IF k = "key" THEN "key.pub" ELSE "key.age.pub"
KeyForms == {"key", "key.age"}
PFXForms == {"pfx", "pfx.age"}
Pubs == {"key.pub", "key.age.pub"}
Extensions == {"crt"} \cup KeyForms \cup PFXForms \cup Pubs

VARIABLES
  fs,        \* [Basenames -> [Extensions -> file]]: the output directory
  now,       \* the clock
  nextKey,   \* the next key that key generation returns
  runs,      \* runs started
  edits,     \* deletions made by the user
  last,      \* the task of the last run, when it succeeded and no run or deletion followed
  pc,        \* pc[p]: the next step of generateSpec
  task,      \* task[p]: spec and options of the run
  pos,       \* pos[p]: the entry it is at
  filenames, \* filenames[p]: base names used so far
  mem,       \* mem[p]: the key pairs of the entries it has finished
  kp,        \* kp[p]: the key pair of the entry it is at
  keyPath,   \* keyPath[p]: the key file it found or wrote
  pfxPath,   \* pfxPath[p]: the .pfx file it found
  reused,    \* reused[p]: kp was found, not generated
  why,       \* why[p]: the reason a run failed
  alone,     \* alone[p]: no other run overlapped this one
  repeat     \* repeat[p]: this run repeats the last one, with no deletion in between

local == <<task, alone, repeat>>
entry == <<kp, keyPath, pfxPath, reused>>
world == <<now, runs, edits, last>>
vars == <<fs, nextKey, world, pc, local, pos, filenames, mem, entry, why>>

Idle == {"idle"}
Ended == {"done", "failed"}
Working == {"enter", "statKey", "statCert", "readCert", "readKey", "check", "statReusedPFX",
            "readPFX", "generate", "rmKey", "rmPFX", "writeCert", "writeKey", "statPFX",
            "writePFX", "writeSSH", "next"}
Task == [spec : Specs, opt : Options]
NoTask == [spec |-> CHOOSE s \in Specs : TRUE, opt |-> CHOOSE o \in Options : TRUE]

Init ==
  /\ fs = [b \in Basenames |-> [x \in Extensions |-> Absent]]
  /\ now = 0 /\ nextKey = 2 /\ runs = 0 /\ edits = 0 /\ last = <<>>
  /\ pc = [p \in Procs |-> "idle"]
  /\ task = [p \in Procs |-> NoTask]
  /\ pos = [p \in Procs |-> 1]
  /\ filenames = [p \in Procs |-> {}]
  /\ mem = [p \in Procs |-> [n \in Nodes |-> NoPair]]
  /\ kp = [p \in Procs |-> NoPair]
  /\ keyPath = [p \in Procs |-> "none"]
  /\ pfxPath = [p \in Procs |-> "none"]
  /\ reused = [p \in Procs |-> FALSE]
  /\ why = [p \in Procs |-> "none"]
  /\ alone = [p \in Procs |-> FALSE]
  /\ repeat = [p \in Procs |-> FALSE]

-----------------------------------------------------------------------------
(* The entry a run is at.                                                  *)

CertSpec(p) == task[p].spec
Opt(p) == task[p].opt
Entry(p) == CertSpec(p).order[pos[p]]
Basename(p) == CertSpec(p).filename[Entry(p)]
Dir(p) == fs[Basename(p)]
IsCA(p) == Entry(p) \in CertSpec(p).certificateAuthority

Goto(p, l) == pc' = [pc EXCEPT ![p] = l]
Fail(p, reason) == Goto(p, "failed") /\ why' = [why EXCEPT ![p] = reason]
Put(p, x, f) == fs' = [fs EXCEPT ![Basename(p)][x] = f]

\* KeyEncryption.path, and the form of the name that it does not write.
path(o, k) == IF o.to = Plain THEN k ELSE Encrypted(k)
otherForm(o, k) == IF o.to = Plain THEN Encrypted(k) ELSE k
\* Faulty variant: only the plain form is looked for.
existingPlainFile(d, k) == IF d[k] # Absent THEN k ELSE "none"

existingPrivateFile(d, k) ==
  IF d[k] # Absent /\ d[Encrypted(k)] # Absent THEN "both"
  ELSE IF d[Encrypted(k)] # Absent THEN Encrypted(k)
  ELSE IF d[k] # Absent THEN k ELSE "none"
\* ReadPrivateFile: f is there and can be read with the run's identities.
Readable(o, f) == f # Absent /\ f.to \in o.ids \cup {Plain}

\* A YubiKey root, with the limits that --yubikey-generate-root was given; its usages
\* have none.
IssuerCertificate == [key |-> IssuerKey, signer |-> IssuerKey, cn |-> TopLevel, ca |-> TRUE, permitted |-> IssuerPermitted,
                      pathLen |-> IssuerPathLen, email |-> TRUE, notAfter |-> IssuerNotAfter]
SelfSigned(p) == CertSpec(p).parent[Entry(p)] = TopLevel /\ ~Opt(p).issuer
Parent(p) == IF CertSpec(p).parent[Entry(p)] = TopLevel THEN IssuerCertificate
             ELSE mem[p][CertSpec(p).parent[Entry(p)]].cert

\* inheritNameConstraints: a CA without constraints gets its issuer's; its own
\* must lie within them.
WantPermitted(p) == LET own == CertSpec(p).permitted[Entry(p)]
                    IN IF own = {} /\ ~SelfSigned(p) THEN Parent(p).permitted ELSE own
ConstraintsFit(p) ==
  SelfSigned(p) \/ Parent(p).permitted = {} \/ WantPermitted(p) \subseteq Parent(p).permitted
EmailProtection(p) == IsCA(p) /\ signsEmail(CertSpec(p))[Entry(p)]

-----------------------------------------------------------------------------
(* A run.                                                                  *)

SameButOverwrite(t, s, o) == t.spec = s /\ t.opt = [o EXCEPT !.overwrite = t.opt.overwrite]

Start(p) ==
  \E s \in Specs, o \in Options :
    /\ pc[p] = "idle"
    /\ runs < MaxRuns
    /\ Goto(p, "enter")
    /\ runs' = runs + 1
    /\ task' = [task EXCEPT ![p] = [spec |-> s, opt |-> o]]
    /\ alone' = [q \in Procs |-> q = p /\ \A r \in Procs : pc[r] = "idle"]
    /\ repeat' = [q \in Procs |-> /\ q = p /\ \A r \in Procs : pc[r] = "idle"
                                  /\ last # <<>> /\ SameButOverwrite(last[1], s, o)
                                  /\ ~o.overwrite]
    /\ last' = <<>>
    /\ UNCHANGED <<fs, now, nextKey, edits, pos, filenames, mem, entry, why>>

\* Faulty variant: file name collisions are not noticed.
EnterAnyName(p) ==
  /\ pc[p] = "enter"
  /\ filenames' = [filenames EXCEPT ![p] = @ \cup {Basename(p)}]
  /\ IF Entry(p) \in CertSpec(p).pfxPasswordEnv /\ ~Opt(p).env
     THEN Fail(p, "env")
     ELSE Goto(p, IF Opt(p).overwrite THEN "generate" ELSE "statKey") /\ UNCHANGED why
  /\ UNCHANGED <<fs, nextKey, world, local, pos, mem, entry>>

\* generateSpec begins an entry: its base name must be new in this run, and a
\* .pfx password that comes from the environment must be there.
Enter(p) ==
  /\ pc[p] = "enter"
  /\ \/ /\ Basename(p) \in filenames[p]
        /\ Fail(p, "collision")
        /\ UNCHANGED filenames
     \/ /\ Basename(p) \notin filenames[p]
        /\ filenames' = [filenames EXCEPT ![p] = @ \cup {Basename(p)}]
        /\ IF Entry(p) \in CertSpec(p).pfxPasswordEnv /\ ~Opt(p).env
           THEN Fail(p, "env")
           ELSE Goto(p, IF Opt(p).overwrite THEN "generate" ELSE "statKey") /\ UNCHANGED why
  /\ UNCHANGED <<fs, nextKey, world, local, pos, mem, entry>>

\* reuseKeyPair: which form of the key is there ...
StatKey(p) ==
  LET x == existingPrivateFile(Dir(p), "key")
  IN /\ pc[p] = "statKey"
     /\ IF x = "both" THEN Fail(p, "existing") /\ UNCHANGED keyPath
        ELSE /\ keyPath' = [keyPath EXCEPT ![p] = x]
             /\ Goto(p, "statCert") /\ UNCHANGED why
     /\ UNCHANGED <<fs, nextKey, world, local, pos, filenames, mem, kp, pfxPath, reused>>

\* Faulty variant: half a pair is generated again instead of refused.
StatCertLenient(p) ==
  /\ pc[p] = "statCert"
  /\ Goto(p, IF Dir(p)["crt"] # Absent /\ keyPath[p] # "none" THEN "readCert" ELSE "generate")
  /\ UNCHANGED <<fs, nextKey, world, local, pos, filenames, mem, entry, why>>

\* ... and is its certificate: both are reused, neither is generated, and
\* anything else is an error.
StatCert(p) ==
  LET hasCert == Dir(p)["crt"] # Absent
      hasKey == keyPath[p] # "none"
  IN /\ pc[p] = "statCert"
     /\ IF hasCert # hasKey THEN Fail(p, "existing")
        ELSE Goto(p, IF hasKey THEN "readCert" ELSE "generate") /\ UNCHANGED why
     /\ UNCHANGED <<fs, nextKey, world, local, pos, filenames, mem, entry>>

ReadCert(p) ==
  /\ pc[p] = "readCert"
  /\ IF Dir(p)["crt"] = Absent THEN Fail(p, "existing") /\ UNCHANGED kp
     ELSE /\ kp' = [kp EXCEPT ![p] = [cert |-> Dir(p)["crt"], key |-> NoKey, pfx |-> NoKey]]
          /\ Goto(p, "readKey") /\ UNCHANGED why
  /\ UNCHANGED <<fs, nextKey, world, local, pos, filenames, mem, keyPath, pfxPath, reused>>

ReadKey(p) ==
  LET f == Dir(p)[keyPath[p]]
  IN /\ pc[p] = "readKey"
     /\ IF ~Readable(Opt(p), f) THEN Fail(p, "existing") /\ UNCHANGED kp
        ELSE /\ kp' = [kp EXCEPT ![p].key = f.key]
             /\ Goto(p, "check") /\ UNCHANGED why
     /\ UNCHANGED <<fs, nextKey, world, local, pos, filenames, mem, keyPath, pfxPath, reused>>

\* Faulty variants: the key is not compared with the certificate; the
\* signature is not checked; the CA's constraints and path length are not.
FitsAnyKey(p) ==
  LET c == kp[p].cert
  IN /\ c.cn = Entry(p) /\ c.ca = IsCA(p) /\ now <= c.notAfter
     /\ EmailProtection(p) => c.email
     /\ IF SelfSigned(p) THEN c.signer = c.key ELSE Parent(p).ca /\ c.signer = Parent(p).key
     /\ IsCA(p) => /\ ConstraintsFit(p) /\ c.permitted = WantPermitted(p)
                   /\ c.pathLen = pathLen(CertSpec(p), Entry(p))
FitsAnySigner(p) ==
  LET c == kp[p].cert
  IN /\ c.key = kp[p].key /\ c.cn = Entry(p) /\ c.ca = IsCA(p) /\ now <= c.notAfter
     /\ EmailProtection(p) => c.email
     /\ IsCA(p) => /\ ConstraintsFit(p) /\ c.permitted = WantPermitted(p)
                   /\ c.pathLen = pathLen(CertSpec(p), Entry(p))
FitsAnyLimits(p) ==
  LET c == kp[p].cert
  IN /\ c.key = kp[p].key /\ c.cn = Entry(p) /\ c.ca = IsCA(p) /\ now <= c.notAfter
     /\ EmailProtection(p) => c.email
     /\ IF SelfSigned(p) THEN c.signer = c.key ELSE Parent(p).ca /\ c.signer = Parent(p).key

\* checkReusedKeyPair and reusedCAConstraints: the pair still fits the spec and
\* its place in the hierarchy.
Fits(p) ==
  LET c == kp[p].cert
  IN /\ c.key = kp[p].key
     /\ c.cn = Entry(p)
     /\ c.ca = IsCA(p)
     /\ now <= c.notAfter
     /\ EmailProtection(p) => c.email
     /\ IF SelfSigned(p) THEN c.signer = c.key ELSE Parent(p).ca /\ c.signer = Parent(p).key
     /\ IsCA(p) => /\ ConstraintsFit(p)
                   /\ c.permitted = WantPermitted(p)
                   /\ c.pathLen = pathLen(CertSpec(p), Entry(p))

AfterPFX(p) == IF Entry(p) \in CertSpec(p).sshPublicKey THEN "writeSSH" ELSE "next"
MakesPFX(p) == Entry(p) \in CertSpec(p).pfx

CheckReused(p) ==
  /\ pc[p] = "check"
  /\ IF Fits(p)
     THEN /\ reused' = [reused EXCEPT ![p] = TRUE]
          /\ Goto(p, IF MakesPFX(p) THEN "statReusedPFX" ELSE AfterPFX(p))
          /\ UNCHANGED why
     ELSE Fail(p, "existing") /\ UNCHANGED reused
  /\ UNCHANGED <<fs, nextKey, world, local, pos, filenames, mem, kp, keyPath, pfxPath>>

\* The .pfx of a reused pair is read when there is one and rebuilt when not.
StatReusedPFX(p) ==
  LET x == existingPrivateFile(Dir(p), "pfx")
  IN /\ pc[p] = "statReusedPFX"
     /\ IF x = "both" THEN Fail(p, "existing") /\ UNCHANGED <<kp, pfxPath>>
        ELSE /\ pfxPath' = [pfxPath EXCEPT ![p] = x]
             /\ kp' = IF x = "none" THEN [kp EXCEPT ![p].pfx = kp[p].key] ELSE kp
             /\ Goto(p, IF x = "none" THEN "statPFX" ELSE "readPFX") /\ UNCHANGED why
     /\ UNCHANGED <<fs, nextKey, world, local, pos, filenames, mem, keyPath, reused>>

ReadPFX(p) ==
  LET f == Dir(p)[pfxPath[p]]
  IN /\ pc[p] = "readPFX"
     /\ IF ~Readable(Opt(p), f) THEN Fail(p, "existing") /\ UNCHANGED kp
        ELSE /\ kp' = [kp EXCEPT ![p].pfx = f.key]
             /\ Goto(p, "statPFX") /\ UNCHANGED why
     /\ UNCHANGED <<fs, nextKey, world, local, pos, filenames, mem, keyPath, pfxPath, reused>>

\* checkIssuer, as far as the entries of a spec can differ in it.
CanIssue(p) ==
  \/ SelfSigned(p)
  \/ /\ Parent(p).ca
     /\ now <= Parent(p).notAfter
     /\ IsCA(p) => Parent(p).pathLen # 0 /\ ConstraintsFit(p)
     /\ Entry(p) \in CertSpec(p).emailAddresses \/ EmailProtection(p) => Parent(p).email

\* A certificate must not claim to outlive its issuer.
NotAfter(p) == LET t == now + CertSpec(p).validity[Entry(p)]
               IN IF ~SelfSigned(p) /\ t > Parent(p).notAfter THEN Parent(p).notAfter ELSE t

NewCertificate(p) ==
  [key |-> nextKey, signer |-> IF SelfSigned(p) THEN nextKey ELSE Parent(p).key,
   cn |-> Entry(p), ca |-> IsCA(p),
   permitted |-> IF IsCA(p) THEN WantPermitted(p) ELSE {},
   pathLen |-> IF IsCA(p) THEN pathLen(CertSpec(p), Entry(p)) ELSE noLimit,
   email |-> EmailProtection(p) \/ Entry(p) \in CertSpec(p).emailAddresses,
   notAfter |-> NotAfter(p)]

Generate(p) ==
  /\ pc[p] = "generate"
  /\ CanIssue(p)
  /\ kp' = [kp EXCEPT ![p] = [cert |-> NewCertificate(p), key |-> nextKey,
                              pfx |-> IF MakesPFX(p) THEN nextKey ELSE NoKey]]
  /\ nextKey' = nextKey + 1
  /\ Goto(p, IF Opt(p).overwrite THEN "rmKey" ELSE "writeCert")
  /\ UNCHANGED <<fs, world, local, pos, filenames, mem, keyPath, pfxPath, reused, why>>

\* Also when names are not permitted, or the issuer's YubiKey does not sign.
GenerateFails(p) ==
  /\ pc[p] = "generate"
  /\ Fail(p, "generate")
  /\ UNCHANGED <<fs, nextKey, world, local, pos, filenames, mem, entry>>

\* Faulty variants: the other form stays.
RemoveKeySkipped(p) ==
  /\ pc[p] = "rmKey"
  /\ Goto(p, "rmPFX")
  /\ UNCHANGED <<fs, nextKey, world, local, pos, filenames, mem, entry, why>>
RemovePFXSkipped(p) ==
  /\ pc[p] = "rmPFX"
  /\ Goto(p, "writeCert")
  /\ UNCHANGED <<fs, nextKey, world, local, pos, filenames, mem, entry, why>>

\* With --overwrite, removeOtherForm for the key and for the .pfx.
RemoveKey(p) ==
  /\ pc[p] = "rmKey"
  /\ Put(p, otherForm(Opt(p), "key"), Absent)
  /\ Goto(p, "rmPFX")
  /\ UNCHANGED <<nextKey, world, local, pos, filenames, mem, entry, why>>

RemovePFX(p) ==
  /\ pc[p] = "rmPFX"
  /\ Put(p, otherForm(Opt(p), "pfx"), Absent)
  /\ Goto(p, "writeCert")
  /\ UNCHANGED <<nextKey, world, local, pos, filenames, mem, entry, why>>

\* WriteKeyPair: the certificate, then the key in the form the options ask for.
WriteCert(p) ==
  /\ pc[p] = "writeCert"
  /\ Put(p, "crt", kp[p].cert)
  /\ Goto(p, "writeKey")
  /\ UNCHANGED <<nextKey, world, local, pos, filenames, mem, entry, why>>

WriteKey(p) ==
  LET x == path(Opt(p), "key")
  IN /\ pc[p] = "writeKey"
     /\ Put(p, x, [key |-> kp[p].key, to |-> Opt(p).to])
     /\ keyPath' = [keyPath EXCEPT ![p] = x]
     /\ Goto(p, IF MakesPFX(p) THEN "statPFX" ELSE AfterPFX(p))
     /\ UNCHANGED <<nextKey, world, local, pos, filenames, mem, kp, pfxPath, reused, why>>

\* A .pfx is written for a new pair, and for a reused one that has none.
StatPFX(p) ==
  LET x == existingPrivateFile(Dir(p), "pfx")
  IN /\ pc[p] = "statPFX"
     /\ IF x = "both" THEN Fail(p, "existing")
        ELSE Goto(p, IF ~reused[p] \/ x = "none" THEN "writePFX" ELSE AfterPFX(p)) /\ UNCHANGED why
     /\ UNCHANGED <<fs, nextKey, world, local, pos, filenames, mem, entry>>

\* Faulty variant: the .pfx is looked for again instead of going on.
WritePFXAgain(p) ==
  /\ pc[p] = "writePFX"
  /\ Put(p, path(Opt(p), "pfx"), [key |-> kp[p].pfx, to |-> Opt(p).to])
  /\ Goto(p, "statPFX")
  /\ UNCHANGED <<nextKey, world, local, pos, filenames, mem, entry, why>>

WritePFX(p) ==
  /\ pc[p] = "writePFX"
  /\ Put(p, path(Opt(p), "pfx"), [key |-> kp[p].pfx, to |-> Opt(p).to])
  /\ Goto(p, AfterPFX(p))
  /\ UNCHANGED <<nextKey, world, local, pos, filenames, mem, entry, why>>

\* The public key goes next to the key file, under its name.
WriteSSH(p) ==
  /\ pc[p] = "writeSSH"
  /\ Put(p, PublicHalf(keyPath[p]), kp[p].cert.key)
  /\ Goto(p, "next")
  /\ UNCHANGED <<nextKey, world, local, pos, filenames, mem, entry, why>>

\* Faulty variant: one entry too far.
NextEntryPastEnd(p) ==
  /\ pc[p] = "next"
  /\ mem' = [mem EXCEPT ![p][Entry(p)] = kp[p]]
  /\ kp' = [kp EXCEPT ![p] = NoPair]
  /\ keyPath' = [keyPath EXCEPT ![p] = "none"]
  /\ pfxPath' = [pfxPath EXCEPT ![p] = "none"]
  /\ reused' = [reused EXCEPT ![p] = FALSE]
  /\ IF pos[p] > Len(CertSpec(p).order) THEN Goto(p, "done") /\ UNCHANGED pos
     ELSE Goto(p, "enter") /\ pos' = [pos EXCEPT ![p] = @ + 1]
  /\ UNCHANGED <<fs, nextKey, world, local, filenames, why>>

\* The entry is finished: on to its children, or to the next entry.
NextEntry(p) ==
  /\ pc[p] = "next"
  /\ mem' = [mem EXCEPT ![p][Entry(p)] = kp[p]]
  /\ kp' = [kp EXCEPT ![p] = NoPair]
  /\ keyPath' = [keyPath EXCEPT ![p] = "none"]
  /\ pfxPath' = [pfxPath EXCEPT ![p] = "none"]
  /\ reused' = [reused EXCEPT ![p] = FALSE]
  /\ IF pos[p] = Len(CertSpec(p).order) THEN Goto(p, "done") /\ UNCHANGED pos
     ELSE Goto(p, "enter") /\ pos' = [pos EXCEPT ![p] = @ + 1]
  /\ UNCHANGED <<fs, nextKey, world, local, filenames, why>>

\* A file operation fails; safefile leaves the file as it was.
IOFails(p) ==
  /\ pc[p] \in {"readCert", "readKey", "readPFX", "rmKey", "rmPFX",
                "writeCert", "writeKey", "writePFX", "writeSSH"}
  /\ Fail(p, "io")
  /\ UNCHANGED <<fs, nextKey, world, local, pos, filenames, mem, entry>>

Forget(p) ==
  /\ Goto(p, "idle")
  /\ task' = [task EXCEPT ![p] = NoTask]
  /\ pos' = [pos EXCEPT ![p] = 1]
  /\ filenames' = [filenames EXCEPT ![p] = {}]
  /\ mem' = [mem EXCEPT ![p] = [n \in Nodes |-> NoPair]]
  /\ kp' = [kp EXCEPT ![p] = NoPair]
  /\ keyPath' = [keyPath EXCEPT ![p] = "none"]
  /\ pfxPath' = [pfxPath EXCEPT ![p] = "none"]
  /\ reused' = [reused EXCEPT ![p] = FALSE]
  /\ why' = [why EXCEPT ![p] = "none"]
  /\ alone' = [alone EXCEPT ![p] = FALSE]
  /\ repeat' = [repeat EXCEPT ![p] = FALSE]

\* The process exits, successfully or not.
Exit(p) ==
  /\ pc[p] \in Ended
  /\ last' = IF pc[p] = "done" /\ alone[p] THEN <<task[p]>> ELSE <<>>
  /\ Forget(p)
  /\ UNCHANGED <<fs, now, nextKey, runs, edits>>

\* The process is killed between two steps.
Crash(p) ==
  /\ pc[p] \in Working
  /\ Forget(p)
  /\ UNCHANGED <<fs, nextKey, world>>

-----------------------------------------------------------------------------
(* Between runs.                                                           *)

AllIdle == \A p \in Procs : pc[p] = "idle"

\* docs/spec.md and the errors of reuseKeyPair: delete the .crt and the .key
\* to regenerate a certificate.
DeletePair(b) ==
  /\ AllIdle /\ edits < MaxEdits
  /\ \E x \in {"crt"} \cup KeyForms : fs[b][x] # Absent
  /\ fs' = [fs EXCEPT ![b] = [x \in Extensions |-> IF x \in {"crt"} \cup KeyForms THEN Absent
                                                   ELSE fs[b][x]]]
  /\ edits' = edits + 1 /\ last' = <<>>
  /\ UNCHANGED <<now, nextKey, runs, pc, local, pos, filenames, mem, entry, why>>

\* Or any one file.
DeleteFile(b, x) ==
  /\ AllIdle /\ edits < MaxEdits
  /\ fs[b][x] # Absent
  /\ fs' = [fs EXCEPT ![b][x] = Absent]
  /\ edits' = edits + 1 /\ last' = <<>>
  /\ UNCHANGED <<now, nextKey, runs, pc, local, pos, filenames, mem, entry, why>>

Tick ==
  /\ now < MaxNow
  /\ now' = now + 1
  /\ UNCHANGED <<fs, nextKey, runs, edits, last, pc, local, pos, filenames, mem, entry, why>>

Step(p) ==
  \/ Enter(p) \/ StatKey(p) \/ StatCert(p) \/ ReadCert(p) \/ ReadKey(p) \/ CheckReused(p)
  \/ StatReusedPFX(p) \/ ReadPFX(p) \/ Generate(p) \/ GenerateFails(p) \/ RemoveKey(p)
  \/ RemovePFX(p) \/ WriteCert(p) \/ WriteKey(p) \/ StatPFX(p) \/ WritePFX(p) \/ WriteSSH(p)
  \/ NextEntry(p) \/ IOFails(p)

Next == \/ \E p \in Procs : Start(p) \/ Step(p) \/ Exit(p) \/ Crash(p)
        \/ \E b \in Basenames : DeletePair(b) \/ \E x \in Extensions : DeleteFile(b, x)
        \/ Tick

Spec == Init /\ [][Next]_vars

\* The run's goroutine is scheduled; nothing obliges anyone to start one.
FairSpec == Spec /\ \A p \in Procs : WF_vars(Step(p)) /\ WF_vars(Exit(p))

-----------------------------------------------------------------------------
(* Properties.                                                             *)

\* Every file, key pair and variable has its type; a run's position is an entry
\* of its spec, and every path length one that some spec asks for.
TypeOK ==
  /\ DOMAIN fs = Basenames
  /\ \A b \in Basenames :
       /\ DOMAIN fs[b] = Extensions
       /\ fs[b]["crt"] \in Certificate \cup {Absent}
       /\ \A x \in KeyForms \cup PFXForms : fs[b][x] \in PrivateFile \cup {Absent}
       /\ \A x \in Pubs : fs[b][x] \in Nat \cup {Absent}
  /\ now \in Nat /\ nextKey \in Nat /\ runs \in Nat /\ edits \in Nat /\ last \in Seq(Task)
  /\ pc \in [Procs -> Idle \cup Ended \cup Working]
  /\ task \in [Procs -> Task]
  /\ pos \in [Procs -> Nat] /\ \A p \in Procs : pos[p] \in 1..Len(CertSpec(p).order)
  /\ filenames \in [Procs -> SUBSET Basenames]
  /\ mem \in [Procs -> [Nodes -> KeyPair \cup {NoPair}]]
  /\ kp \in [Procs -> KeyPair \cup {NoPair}]
  /\ keyPath \in [Procs -> KeyForms \cup {"none"}]
  /\ pfxPath \in [Procs -> PFXForms \cup {"none"}]
  /\ reused \in [Procs -> BOOLEAN] /\ alone \in [Procs -> BOOLEAN] /\ repeat \in [Procs -> BOOLEAN]
  /\ why \in [Procs -> {"none", "collision", "env", "existing", "generate", "io"}]

Finished(p) == {n \in Nodes : mem[p][n] # NoPair}

\* The signer an entry's certificate must have in the run of p.
SignerOf(p, n) == IF CertSpec(p).parent[n] # TopLevel THEN mem[p][CertSpec(p).parent[n]].cert.key
                  ELSE IF Opt(p).issuer THEN IssuerKey ELSE mem[p][n].key

\* Whatever is in the directory, and whatever other runs do to it meanwhile,
\* the key pairs a run holds form a hierarchy: each key matches its
\* certificate, which is the entry's, and the entry's parent signed it.
MemoryChainSound ==
  \A p \in Procs : \A n \in Finished(p) :
    LET c == mem[p][n].cert IN
      /\ c.key = mem[p][n].key /\ c.cn = n
      /\ c.ca <=> n \in CertSpec(p).certificateAuthority
      /\ CertSpec(p).parent[n] # TopLevel => CertSpec(p).parent[n] \in Finished(p)
      /\ c.signer = SignerOf(p, n)

\* The key files of entry n in the directory: those that exist.
KeyFiles(p, n) == {x \in KeyForms : fs[CertSpec(p).filename[n]][x] # Absent}

\* A run that succeeds with no other run beside it leaves the hierarchy of the
\* spec on disk, whatever crashes, failures, overlapping runs and deletions
\* came before it: for each entry the certificate it holds in memory and one
\* key file, with that certificate's key.
DoneConsistent ==
  \A p \in Procs : pc[p] = "done" /\ alone[p] =>
    \A n \in Entries(CertSpec(p)) :
      LET d == fs[CertSpec(p).filename[n]] IN
        /\ n \in Finished(p) /\ d["crt"] = mem[p][n].cert
        /\ \E x \in KeyForms : KeyFiles(p, n) = {x} /\ d[x].key = d["crt"].key
        /\ n \in CertSpec(p).pfx => \E x \in PFXForms : d[x] # Absent
        /\ n \in CertSpec(p).sshPublicKey => \E x \in Pubs : d[x] = d["crt"].key

\* What a successful run leaves fits the spec as it is now, also where files of
\* earlier versions of the spec were reused: every CA has the path length and
\* the name constraints the tree gives it, its constraints lie within its
\* parent's or those of the root on the YubiKey, whose path length leaves room for
\* it although reuse does not look at that (certtool.go:604), nothing outlives its
\* issuer, and every issuer of a certificate for email allows email.
HierarchyFitsSpec ==
  \A p \in Procs : pc[p] = "done" /\ alone[p] =>
    \A n \in Entries(CertSpec(p)) :
      LET c == mem[p][n].cert
          top == CertSpec(p).parent[n] = TopLevel
          up == IF top THEN IssuerCertificate ELSE mem[p][CertSpec(p).parent[n]].cert
          nested == ~top \/ Opt(p).issuer
      IN /\ c.ca => c.pathLen = pathLen(CertSpec(p), n)
         /\ c.ca /\ CertSpec(p).permitted[n] # {} => c.permitted = CertSpec(p).permitted[n]
         /\ c.ca /\ nested /\ up.permitted # {} => c.permitted # {} /\ c.permitted \subseteq up.permitted
         /\ c.ca /\ nested => up.pathLen # 0
         /\ nested => c.notAfter <= up.notAfter
         /\ n \in CertSpec(p).emailAddresses /\ nested => up.email

\* docs/use-cases/encrypted-keys.md:53: "a directory never holds both app.key
\* and app.key.age", whatever the order of plain and encrypting runs, with and
\* without --overwrite, and wherever they are killed.
KeyOneForm == \A b \in Basenames : \E x \in KeyForms : fs[b][x] = Absent

\* A run with --overwrite --encrypt-to that succeeds leaves no plain private
\* key or .pfx of its entries behind.
NoPlaintextLeft ==
  \A p \in Procs : pc[p] = "done" /\ alone[p] /\ Opt(p).overwrite /\ Opt(p).to # Plain =>
    \A n \in Entries(CertSpec(p)) :
      LET d == fs[CertSpec(p).filename[n]] IN d["key"] = Absent /\ d["pfx"] = Absent

\* "or pass --overwrite to regenerate every certificate", says the error about
\* files that cannot be reused (generateAndLogResults): with --overwrite no run
\* fails because of the files that are there.
OverwriteNeverBlocked ==
  \A p \in Procs : pc[p] = "failed" /\ alone[p] /\ Opt(p).overwrite => why[p] # "existing"

\* docs/spec.md:329: without --overwrite, a certificate and key that exist are
\* kept: no step of such a run changes or removes one (the doc's promise is for
\* a run that has the directory to itself).
ExistingKept ==
  [][\A p \in Procs : pc[p] \in Working /\ alone[p] /\ ~Opt(p).overwrite =>
       \A b \in Basenames, x \in {"crt"} \cup KeyForms :
         fs[b][x] # Absent => fs'[b][x] = fs[b][x]]_vars

\* None of the certificates that the entries of p's spec have has expired.
NoneExpired(p) ==
  \A n \in Entries(CertSpec(p)) :
    LET c == fs[CertSpec(p).filename[n]]["crt"] IN c # Absent => now <= c.notAfter

\* docs/scenarios.md:20: "Running the spec again reuses the certificates
\* already in the output directory".  A run without --overwrite that repeats
\* one that succeeded, with identities for what that run encrypted and nothing
\* changed since but the time, regenerates nothing and, unless a certificate
\* has expired, can fail for want of I/O only.
RerunReuses ==
  \A p \in Procs : repeat[p] /\ Opt(p).to \in Opt(p).ids \cup {Plain} /\ NoneExpired(p) =>
    /\ pc[p] \notin {"generate", "rmKey", "rmPFX", "writeCert", "writeKey"}
    /\ pc[p] = "failed" => why[p] = "io"

\* Every run ends, or is killed.
RunEnds == \A p \in Procs : pc[p] \in Working ~> pc[p] \notin Working

\* spec.go:671: "so the output directory never holds a stale key next to the
\* new one".  After a run with --overwrite every key of an entry's files is
\* the key of its certificate.
NoStaleKey ==
  \A p \in Procs : pc[p] = "done" /\ alone[p] /\ Opt(p).overwrite =>
    \A n \in Entries(CertSpec(p)) :
      LET d == fs[CertSpec(p).filename[n]] IN
        \A x \in KeyForms \cup PFXForms : d[x] = Absent \/ d[x].key = d["crt"].key
=============================================================================
