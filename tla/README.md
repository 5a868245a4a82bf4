# certtool in TLA+

A verification project for certtool: TLA+ models of its parts, TLC runs that
check them on small instances, and TLAPS proofs of what matters most for every
instance. Paths are relative to the repository. `PROJECT.json` maps every
definition to the lines it models and lists the runs, the findings, the hazards
and the theorems.

## The system

certtool makes TLS, email and code signing certificates. It is a Go library
(`pkg/certtool`, `pkg/yubikey`) with a command (`cmd/certtool`,
`internal/certtool`). It has no server and no database: its state is a directory of
files, a YubiKey, and the certificates in other people's hands.

| Part | State | Operations | Modelled in |
|---|---|---|---|
| **safefile** `internal/safefile` | the file system | `WritePrivate`, `WritePublic` | `SafeFile`, `AtomicFile` |
| **spec tree** `pkg/certtool/spec.go` | none | `validateSpec`, `caDepth`, `signsEmail` | `SpecTree` |
| **spec run** `spec.go`, `encrypt.go` | the output directory; per run the key pairs, file names and the entry it is at | `GenerateFromSpecWithOptions`, `generateSpec`, `reuseKeyPair`, `checkReusedKeyPair`, `KeyEncryption` | `SpecRun` |
| **issuing** `pkg/certtool/certtool.go` | none; the certificates issued | `GenerateKeyPair`, `CreateSelfSignedCertificate`, `checkIssuer` | `Issuance` |
| **YubiKey** `pkg/yubikey` | the slot, the PIN's retry counter, the management key; per `Token` `pinRejected` and the signers handed out | `Issuer`, `Sign`, `ECDH`, `GenerateRoot`, `Close` | `YubiKey` |
| **YubiKeys connected** `pkg/yubikey` | the YubiKey in each reader, the connections to them; what `Open` has found | `Open`, `cardSerial`, `Close` | `Readers` |
| **chain** `spec.go` | none | `ChainToSpec`, `slugify`, `specFilename` | `ChainSpec` |
| **options** `internal/certtool` | none | `validateModes`, `validateEncryption`, `validateScenario`, `certificateArgs` | `Options` |
| **command** `internal/certtool` | its position, the options left; the specs and certificates in the directory | `Run` and every mode | `Command` |
| **scenarios** `internal/certtool/scenario.go` | a spec file for each choice of scenarios | `runScenario`, `writeScenarioSpec` | `Options`, `Command` |
| **code signing profiles, PKCS#12, PEM, age format** | none | conversions | not modelled |
| **logging, version, options of `pkg/yubikey`, the stub build** | none | output, parsing | not modelled |

How they interact. The command picks one mode and calls the library. A spec run
calls issuing for each entry, below the key pair of the entry's parent, and
writes each file through safefile, plain or encrypted for age recipients. At the
top level a YubiKey may be the issuer: then `Token.Issuer` gives issuing the
slot's certificate and a signer that asks the YubiKey. A YubiKey may also hold the
age identity that decrypts the keys a run reuses. Everything is a synchronous
call; there are no callbacks but the PIN and touch prompts. What is concurrent is
outside the process: other runs in the same directory, readers of the files,
other programs on the YubiKey.

### What is hard, and what makes each part correct

- **safefile**: concurrent calls, readers in the middle of a file, a failure of any
  system call, a kill, a power failure that loses what was not synced. Correct
  when the path always holds one whole file, a private one is never readable by
  others, a link's target is untouched and no temporary file is forgotten.
- **spec run**: a run is a long sequence of file operations without a lock or a
  journal. It may be killed or fail after any of them, and the next run, with other
  options and an edited spec, must decide from the files alone what to keep.
  Correct when a key and its certificate are never parted, a successful run leaves
  the hierarchy the spec describes, nothing that is in use is overwritten without
  `--overwrite`, and no plain key stays beside an encrypted one.
- **issuing**: `checkIssuer` sees one issuer and one template; clients verify the
  whole chain. Correct when the first implies the second.
- **YubiKey**: the PIN is blocked after a few wrong attempts, a generated key
  destroys the one before it, keys and certificates are stored apart. Correct when
  one Token spends at most one attempt, nothing is signed that does not verify, and a
  certified key is lost only when the caller said so.
- **opening a YubiKey**: `Open` looks at every YubiKey, lets go of it and connects to the chosen one
  again, while YubiKeys come and go. Correct when only a change in that very reader can
  mislead it, and no YubiKey is held after the command.
- **command, scenarios**: seven modes, three dozen options, and commands that follow one another in one
  directory between edits of the user. Correct when no option is dropped silently, what is
  wrong is found before anything is destroyed, edits survive, and the certificates end up being
  those the options describe.

`PROJECT.json` lists each hazard at its line, with the properties that cover it.

## The models

Common to all of them: a kept file, key, name or certificate is a number, a record
or a model value; what only formats, logs or encodes is left out; each property's
comment quotes the line of the code or the documentation it is about. Operators
marked "Faulty variant" are not part of any specification: each is a plausible bug
that some property must catch when it takes the place of the definition after it.

### `SafeFile` and `AtomicFile`

`SafeFile` is `safefile.go` with one action per system call: `Lstat`, `CreateTemp`,
`Write` (a chunk at a time), `Chmod`, `Sync`, `Close`, `Rename`, `removeTemp`. Each may
fail (`StepFails`, ...), any caller may be killed before it (`Kill`), and readers
open and read the path a chunk at a time. `dir` and `ino` are the names and the inodes
processes see, `ddir` and `dino` those on disk; the kernel writes either back whenever it
likes and `PowerLoss` goes back to what is on disk. The file system is external: it
does what POSIX says of rename and fsync. `AtomicFile` is what the package comment
promises: a call replaces the whole file in one step or changes nothing.
`ImplementsAtomicFile` maps the path's inode to the file it holds once it is complete; a
partial file maps to nothing `AtomicFile` knows. Durability is not promised: the
directory is not synced (`safefile.go:72`), so `AtomicFile` lets a power failure return
to an older file, but only to a whole one.

Because of this refinement, `SpecRun` takes the write of a file as one step.

### `SpecTree` and `SpecRun`

`SpecTree` is a spec flattened into the order in which `generateSpec` visits it, with
what `validateSpec` accepts and what is derived from the tree: `caDepth`,
`signsEmail`, the path length. `filename` is the result of `specFilename`; two entries may
share one.

`SpecRun` has one action per file operation of `generateSpec`, in the code's order
(`Enter`, `StatKey`, `StatCert`, `ReadCert`, `ReadKey`, `CheckReused`, `StatReusedPFX`, `ReadPFX`,
`Generate`, `RemoveKey`, `RemovePFX`, `WriteCert`, `WriteKey`, `StatPFX`, `WritePFX`, `WriteSSH`,
`NextEntry`), each for process `p`, whose program counter is `pc[p]`. Variables of the
Go functions are `kp`, `keyPath`, `pfxPath`, `reused`; the map `filenames` of
`GenerateFromSpecWithOptions` is `filenames`; the parents on the recursion's stack are in
`mem`, with every finished entry. `fs` is the directory: for each base name the `.crt`, both
forms of key and `.pfx`, and the public half of the key. A file operation may fail
(`IOFails`) and a run may be killed (`Crash`); then `Start` begins another with any version of the
spec and any options. Between runs users delete files, as the documentation tells them
to, and time passes. A certificate is its key, its signer's key, and what a later run
compares: `c.signer = Parent(p).key` is `CheckSignatureFrom`. `IssuerCertificate` is the YubiKey's root, with
the path length and the name constraints that `--yubikey-generate-root` gave it, if any. `Fits` is `checkReusedKeyPair` with
`reusedCAConstraints`. `existingPrivateFile` looks at two names in one step.

`alone` and `repeat` are history: no other run overlapped this one; this run repeats
the last, which succeeded, and nothing has changed since but the time.

### `Issuance`

`newCertificateTemplate`, then `checkIssuer` (`maySign`, `namesFit`, `constraintsFit`, `usagesFit`), then
what it does to the template (`issued`: names dropped, constraints inherited,
expiry capped). `Sign` is `GenerateKeyPair` below any certificate that exists, `SelfSign` without
one, `CreateSelfSignedCertificate` the YubiKey's root. Certificates accumulate, so every
hierarchy that calls in some order can build is a state; some parents were made by other
tools (`Foreign`) and lack a key usage or are not valid yet. A domain name is the sequence
of its labels, top level first, and an address range the bits its mask keeps, so that
"within" is "has as prefix". `ClientPermits` and `Carries` are what clients check, and are
stated over the whole chain.

### `YubiKey`

A Token and its slot. `Issuer`, `Sign`, `ECDH` and the steps of `GenerateRoot` (`managementKey`, `GenerateKey`,
`SelfSign`, `SetCertificate`) in any order, over several sessions, each with a right, wrong, impossible
or missing PIN and management key; `Close` is also the death of the process in the middle of
`GenerateRoot`. `OtherProgram` changes the slot between sessions. `getPIN`
and `notePINFailure` are `PINPasses` and `PINFails`; when piv-go prompts (`Prompts`) and when the
device insists (`Insists`) is external, from how `signer` relies on it.

### `Readers`

`Open` and `Close` of `yubikey_piv.go` on readers whose YubiKeys change: `ListCards`, then for each
reader `ProbeOpen`, `ProbeSerial` and `ProbeClose` (`cardSerial`), `Decide`, `Reopen`, each of which may fail. `conn` is what
PC/SC grants: one connection to a YubiKey, whoever holds it. Users `Swap` YubiKeys, other programs `Take`
and `Release` them, a killed process loses its connections (`Killed`). `moved` and
`disturbed` are history: the readers in which the YubiKey changed, and those that gave `Open` any
reason to fail, since it began.

### `Options`, `ChainSpec` and `Command`

`Options` is what the command decides from its options alone. `Args` is the set of flags that differ from
their defaults, the set of those that are malformed, which only flags whose value is parsed or checked on use can be
(`Parsed`, and for `--scenario` `Text`), and which inputs of a spec have another value than before (`other`). Who
looks at a malformed value first matters: `certificateArgs` parses some (`ParsedByCertificateArgs`) and passes others on
to `newCertificateTemplate` (`ParsedByTemplate`), and the PIN and the management key are looked at when they are
used. `validateModes`, `validateEncryption`, `validateScenario` and
`scenarioOptions` are predicates on it in the code's terms, `Mode` is the branch `Run` takes, and
`Uses` the flags that branch reads. `AsSpec` is what `--scenario` turns into.

`ChainSpec` is `ChainToSpec` over names made of words, with `lineageName`, `caName`, the collision check,
`slugify` and `specFilename`. A word is the runs of characters between its dots, which is where `slugify` puts
dashes; a run is letters and digits, kept in lower case, or has none and is dropped. Numbers become text by
`Itoa`, of which only this is assumed: different numbers have different numerals, and `slugify` leaves a numeral
alone. The result is handed to `SpecTree`, so `validateSpec` and the path lengths are those the other models use.

`Command` runs commands one after the other: `runScenario`, `LookAtSpec`, `WriteSpec`, `RunModes`, `openYubiKeyStarts`,
`Issuer`, `keyEncryption`, then the mode (`ReadSpec`, `runChain`, `ExportSpec`, `GenerateSome` and `GenerateRest`, `generateKeyPair`,
`GenerateKey`, `SetCertificate` and `WriteCertificate`). It extends `Readers`: `yubikeyOpen` is the steps of `Open`. Any
step may fail (`Fails`) or be the last (`Kill`). A spec is the inputs it was made from, and whether a user edited it, in a
place reuse compares or in another. `GenerateSome` and `GenerateRest` stand for a whole
`SpecRun`, which may stop half way: `made` holds, for each entry (a scenario's files of fixed names, those of its
hosts, those of its clients), the spec its certificates were made from, the YubiKey that signed them, and whether the
CA that signed them is still there (`current`); `whole` the specs all of whose entries have their files.

`Compared` is what `checkReusedKeyPair` can see of a spec's inputs: the common names, the name constraints of CAs, and
the signature. Which inputs reach them is in the templates. The organization is in the common names of CAs and code signing
certificates (not of `local-dev` and `ssh`, whose names are fixed or the hosts'); the host names are the constraints of the CAs of
`web` and `mtls`, and the first of them is the common name in `local-dev`. Nothing else is compared: a
target, clients, a leaf's other host names, key types, validities and the rest of the subject may differ, and the old
certificate is reused. `roots` are the YubiKeys with the certificate of a root CA, `orphaned` those
of them whose key was replaced since: they have an issuer, and nothing it signs verifies.

## The runs

| Run | Instance | What it shows |
|---|---|---|
| `safefile` | 2 calls, 1 private; 1 reader; files of 2 chunks | all properties of `SafeFile` and that it implements `AtomicFile` |
| `forms` | 4 specs of 2 or 3 entries, 3 runs: plain or encrypting, with or without `--overwrite`, no identity, no password, colliding file names; a tick | what is on disk after any sequence of runs, failures and kills; every run ends |
| `growth` | 6 specs of up to 3 levels, 3 runs, a deletion, a tick, a YubiKey issuer of path length 1 and one permitted domain that has expired after it | an edited spec, expiry and reuse still give the spec's hierarchy, within the issuer's limits |
| `overlap` | 2 processes, 3 runs | interleaved runs: each run's own key pairs stay sound; a run alone repairs the rest |
| `issuing` | two families: up to 4 certificates with nested, sibling and dotted domains and addresses; up to 5 certificates of every kind at 3 times | constraints, usages and validity along whole chains, and no needless refusal |
| `yubikey` | 2 sessions, 3 keys, 2 PIN attempts, 1 outside change | all properties of `YubiKey` |
| `command` | 3 commands in a row and 1 edit, in seven parts: of one scenario with edited specs; with other values of its inputs for `code-sign`, `local-dev`, `mtls` and `ssh`; of one scenario beside two; with a root CA that is replaced, or fails to be. `Open` among 2 readers with 1 change; each mode with up to 2 more flags; chains; each scenario with up to 2 more flags; two scenarios at once. One flag at most is malformed | all properties of `Command` and `Readers` |

Why these bounds are enough. In `SafeFile` a third call adds no new kind of
interference (calls meet only at the path) and two chunks already make a partial file.
In `SpecRun` what a run sees of the past is one set of files: one run makes them, a second
is interrupted anywhere in replacing them, a third meets what is left. `forms` has one tick, within
the life of a certificate; expiry is in `growth`, and what it does to a run that is repeated in the proof of
`RerunReuses`. The
interleavings that matter need a parent and a child. In `Issuance` a chain of four has a CA that is
neither the root nor the issuer, in two places. In `YubiKey` two attempts tell one wrong
attempt from two, and three keys give the slot's, the certificate's and a replaced one. In
`Command` three commands are one that leaves something, one that fails over it or is killed, and one
that meets the result; an input has its first value, another or none, which is all that two specs can differ in; options interact in `validateModes` by twos and threes, and a mode with two more
flags is three. Two readers with two YubiKeys have the one wanted, another one, and none; the run
is small there because `ReadersProofs` covers every number of them. A part exists only in the MC module:
`Command` itself lets all of it mix. Every
bound is a constant and a conjunct of the guard of one action (`MaxRuns`, `MaxNow`,
`MaxEdits`, `MaxCerts`, `MaxKeys`, `MaxSessions`, `MaxChanges`,
`MaxCommands`). Deadlock is checked in
`safefile` only: elsewhere a user may stop at any time, and the bounds stop the model.

Fairness is assumed in `forms` only: weak fairness of `Step(p)` and `Exit(p)`, because the
goroutine of a run that can go on is scheduled. Nobody has to start a run. With it `RunEnds` holds: the
recursion over the spec and the searches for files come to an end.

### Where the code differs from what is said of it

Each of these runs checks one statement and finds a violation. The line quoted is in
the property's comment and in `PROJECT.json`.

- `stale_key`: when an entry stops making a `.pfx`, `--overwrite` leaves the old `.pfx`, with the
  old key, beside the new certificate; `spec.go:671` says there is no stale key.
- `rerun`: after the documented deletion of `.crt` and `.key`, a run in the other form leaves both
  forms of the `.pfx`, and repeating that successful run is refused; `docs/scenarios.md:20`
  says it reuses.
- `path_length`: only the issuer's path length is looked at, and only when it is 0, so
  a chain that no client accepts is issued; `certtool.go:604` says "in a way that
  clients will accept".
- `dot_domain`: an inherited domain with a leading dot is compared with itself
  without the dot and refused; `certtool.go:686` says it is inherited.
- `ignored_flag`: `--validity` and `--key-type` pass `validateScenario` for every scenario, and the
  spec of `proxy` has fixed ones; `docs/scenarios.md:16` says a flag that none of the chosen
  scenarios uses is an error.

Other differences need no model to see, or are the exceptions that properties of `Command` name:

- When `GenerateRoot` replaces a key and then fails, the old certificate stays (`orphaned`); the errors
  (`yubikey_piv.go:282`, `:287`) say the slot holds a key without one.
- Two malformed options of a root CA are found only after its old key is gone (`yubikey_piv.go:265`), for
  `newCertificateTemplate` (`:280`) is the first to look at them: `--permitted-dns-domains` (`pkg/certtool/certtool.go:563`), and,
  when `--yubikey-management-key` makes `managementKey` do without it, a PIN of impossible length. Elsewhere the PIN
  is looked at when something is signed or decrypted, which may be after some of a spec has been written (`CheckedLate`).
- `--scenario` over certificates whose spec was deleted, or after `--overwrite` was killed, reuses silently
  what reuse does not compare: `--target`, `--clients`, `--key-type`, `--validity` and a leaf's `--hostnames`
  (`docs/spec.md:345` says so for a spec). `CertsFollowOptions` promises only what is compared, and everything with `--overwrite`.
- `checkReusedKeyPair` does not look at the issuer's path length. `HierarchyFitsSpec` shows that what it
  keeps is never a CA below an issuer of path length 0 all the same, because `checkIssuer` has refused to make one.
- `encrypt.go:35` of `internal/certtool` says options that would be ignored are rejected, but `--age-identity-file` with
  `--overwrite`, which reads no key, is accepted. So are `--yubikey-management-key` with anything but
  a root CA, `--yubikey-slot` with only `--age-yubikey`, and `--overwrite` and the `--yubikey-*` options with
  `--export-spec` (`Tolerated`).
- `--parent-*` is ignored with `--spec`, `--chain` and `--export-spec`. `--export-spec` without a spec writes
  key types and validities it does not check.
- `--scenario` with `--yubikey-pin` and no YubiKey writes the spec and is refused then; the
  corrected command may find that spec different and be refused too (`RefusedHarmless`).
- A killed `--overwrite` leaves the new spec beside certificates of the old one, which the next run
  refuses or, where reuse does not compare, takes.
- A spec that appears between the look (`scenario.go:79`) and the write is replaced (`EditsKept`).
- A comment (`scenario.go:178`) says only subject fields the user chose go into the spec; the default
  organization goes into it too, so "needs --organization" is reported only for an empty one.
- `--validity` equal to the flag's default is taken for not given in a scenario.
- With `--encrypt-to` the SSH public key is written to `<filename>.key.age.pub` (`spec.go:711`),
  not to the `<filename>.key.pub` of `docs/spec.md:36`; the model writes it where the code does.
- A certificate that would outlive a YubiKey root is shortened to it (`certtool.go:454`), which
  `docs/use-cases/yubikey-root-ca.md:185` says does not happen.

## The proofs

For every value of the constants, checked by TLAPS. A theorem is named in `PROJECT.json` with
the property it states.

### Files: `SafeFileProofs`, `SpecRunProofs`, `DirectoryProofs`

- **`SafeFileProofs`**: `TypeOK`, `ReadsAreWhole`, `PrivateStaysPrivate`, `LinkTargetKept`,
  `TempsAccountedFor` and `ImplementsAtomicFile`, for any number of calls and readers and any file length. None is
  inductive alone. `IInv` adds what each program counter says of the call's inode, on disk
  and in memory (`CallInv`), and that any inode the path leads to or a reader has open is
  `Settled`: complete, synced, with its final mode and never to be touched again. A rename keeps
  this because the call synced and closed first; a power failure keeps it because
  a settled inode is the same on disk.
- **`SpecRunProofs`**: `TypeOK`, `MemoryChainSound` and `HierarchyFitsSpec`, for any specs, options and number of
  overlapping runs, and any failures and edits. The invariant says what a run knows
  without looking at the directory, for that can change under it: what it has finished
  is exactly what precedes its position in the spec's order (`MemInv`), so an entry's parent is
  there when the entry is checked or issued (`ParentBefore`, from `validateSpec`); and the pair
  at hand is `Sound` from the step at which `CheckReused` or `Generate` let it pass (`EntryInv`),
  because no later step touches its certificate or key. `WithinKeeps` does what is common to
  the seventeen steps inside an entry, `NextEntryKeeps` the one that records it.
  `HierarchyFitsSpec` needs two more invariants. Reuse does not compare validities, so that nothing
  outlives its issuer, nor a CA is below a path length of 0, has to come from history: `IssuedInv` says that, over all certificates in files, at
  hand and in memory, one key has one certificate and none outlives the certificate of
  the key that signed it, or is a CA if that has path length 0; `Issue` and a fresh `nextKey` keep it, and reuse only moves certificates.
  `TreeInv` says that every certificate that passed has the place in the tree the spec gives it; that the
  parent of an email certificate allows email follows only if `signsEmail` is defined by its recursion
  on every tree (`SignsEmailDefined`). A recursive function on a finite tree is defined if some function solves its
  equation; the lemma builds one, from the last entry of the order to the first, by a least
  counterexample (`LeastNatural`) in the place of induction.
- **`DirectoryProofs`**: what is on disk. `DoneConsistent`, `ExistingKept`, `NoPlaintextLeft`, `OverwriteNeverBlocked`,
  `KeyOneForm` and `RerunReuses`. None of them follows from the order of operations in one entry only: a
  finished entry's files must not be touched by the next one, which may have the same file name.
  `DirInv` has three parts for each run: the names it has used are those of the entries before (`NamesInv`);
  while it is alone, the files of the entry at hand are what its position, its options and its
  variables say (`EntryFiles`: without `--overwrite` it gets to `Generate` only where there is no certificate and no
  key, with it the other form has been removed before the own is written); and the files of each
  finished entry are its pair in one form (`FinishedFiles`). A run that is overlapped has lost `alone` and
  is promised nothing; `InsideKeeps` does what all steps inside an entry have in common.
  `KeyOneForm` is about every moment, kills in the middle included, and two overlapping runs do break it; so
  the theorem assumes `[]Solo` (two runs are never under way at once), and `OneProcessOneForm` shows that one
  process meets that.
  `RerunReuses` is proved for as long as no user has deleted a file (`edits = 0`): the run `rerun`
  shows that after a deletion the code does not do it. Its invariant `RerunInv` adds to `DirInv` that a `.pfx`
  comes after its certificate (`CertFirst`: this is what a deletion breaks), that a run leaves behind what
  the same spec and options can reuse (`ReuseInv`, `LastInv`: one form of key and `.pfx`, readable with the run's
  identities, below certificates that still fit), and where each step of a repetition can be
  (`RepeatInv`). Time may pass: a repetition regenerates nothing then either, but it may be refused for a certificate
  that has expired, which is why `RerunReuses` excuses only that.

### Certificates: `IssuanceProofs`

`TypeOK`, `ChainPermits`, `ValidWithinIssuers`, `ConstraintsCarried` and `RefusedForCause`, for any requests,
foreign parents, number of certificates and times. Signing establishes `Within` for the
issuer (`IssuedWithin`); `Within` is transitive (`WithinTransitive`), provided that the
certificate in the middle has a usage, for a CA without one restricts nothing below it.
Hence `UsagesGiven` in the invariant: `extKeyUsage` never yields the empty set, and the one place that
clears it, the YubiKey's root, has nothing above it. `RefusedForCause` is about each check of `checkIssuer`: what the code
finds not permitted is not permitted to clients, as no CA has a domain with a leading dot, and of the names
it compares only those asked for can fail, since `localhost` is dropped when it does.

### YubiKeys: `YubiKeyProofs`, `ReadersProofs`

- **`YubiKeyProofs`**: `TypeOK`, `OneWrongAttempt`, `IssuedVerifies`, `RootUsable`, `CertifiedKeyKept`, for any retry counter, keys,
  sessions and outside changes. `PINNoted` ties the attempts spent to `pinRejected` and to what the Token may
  still try: an attempt is spent only in the step that notes the rejection. `RootInv` follows the new key through
  `GenerateRoot` to the certificate made of it. A signature verifies because `Issuer` hands out the
  certificate and the signer together and the signer compares the slot's key with it.
- **`ReadersProofs`**: `ReadersTypeOK`, `RightCard` and `OpenRefusedForCause`, for any number of readers, YubiKeys and
  changes. The readers change after `Open` has looked, so what it knows is `Holds`: the YubiKey seen in
  a reader is there, and nowhere else, as far as readers did not change. Connections and
  matches keep it (`Connected`, `Matched`), and `Accounted` says that each YubiKey that could be the one
  wanted is still to be asked, being asked, matched, or to blame for a failure; `Decide` then
  finds one match only if there is one.

### The command: `CommandProofs`, `ChainProofs`

- **`CommandProofs`**: every step of `Command` is a step of `Readers` or leaves the readers alone
  (`ImplementsReaders`), so both theorems hold in every command. From where each step of `Open` can be
  (`CardsByPosition`) follows `CardReleased`, from what is known between look and write (`LookedFirst`)
  `EditsKept`. `RefusedHarmless` needs that `validateModes` refuses a `--scenario` command, once `validateScenario` has passed
  it, for one reason only (`ScenarioRefused`, for every set of options). `CertsFollowOptions` needs the path of a scenario
  through the command: it is `--spec` with the spec found or written (`ScenarioInv`), and nothing
  but a user comes between the reading and the certificates; and that what a run ends with fits, or is what was just
  made (`ReplacedFits`, `KeptOrigin`, `NothingRenewed`). `TypeOK` includes that each choice of scenarios has one
  spec file.
  `NothingIgnored`, `OptionsCheckedFirst` and `RepeatReuses` are proved for every set of options and of malformed ones; TLC
  tries each mode with two more. The lemmas about `Options` go through its predicates case by case: what
  `validateModes` accepts, the mode uses (`ModeUsesGiven`, `ScenarioUsesGiven`), and what the mode uses has been parsed, but for `CheckedLate`
  (`RootChecked`, `SingleChecked`, `SpecChecked`, `ScenarioChecked`; `PathLenChecked` and `CardOptionsChecked` for what
  `validateModes` and the YubiKey look at). `AcceptedInv` carries to each position of the command
  what has been accepted by then. `ScenarioChecked` is where it matters which flags can be malformed: `AsSpec` keeps
  an organization that only `--scenario` restricts. `RepeatReuses` needs that the success of a command settles every check of its
  options and the files it leaves (`SettledDone`), and that nothing else changes them while `settled` stays
  (`SettledFrame`).
- **`ChainProofs`**: `ChainFilesUnique`, `ChainRefusedForCause` and `ChainDepths`, for any number and width of layers, any
  names and prefixes. `ChainInv` says that a chain is what `ChainToSpec` returned; what remains is about functions.
  Files: two entries at one depth have names of the same length above each place, so that if their files
  are equal, so are the slugs, in them the lineages, and the paths, for a lineage leaves out only the layers
  of one (`FilesUnique`); a file of a deeper entry is longer, for even an empty slug adds its dash (`FilesOfDepth`). Names:
  those of two CAs differ, because `CA` is no numeral and the layers are numbered when there are several (`CaWordsDiffer`), and
  a leaf's equals a CA's only when the common name is the CA's without its lineage, or the organization, which is too
  short (`NamesUnlessCause`). Depths: the order visited is the order by the number of entries before (`Preorder*`), which puts
  a parent first, and the path length follows from that of the layer below, by induction over the layers
  (`TreeDepths`). `FlattenSeq`, a fold, is handled by one lemma that gives its equation
  (`FlattenJoins`), and `UpTo` is the induction, as a fact about sets of numbers.

### Assumptions

They are those the modules name: sentinels that are no data, bounds that are numbers, for a YubiKey at least one
attempt at the PIN and one key, specifications that `validateSpec` accepts, an issuer whose limits are a path length or none and names among `Domains`, names that are words, and numerals that tell
their number and that `slugify` leaves alone. TLC evaluates each of them.

### Model-checked only

- `RunEnds`, which is liveness. Every other property of a passing run is stated by a theorem.
- `RerunReuses` after a user has deleted a file, which is refuted, and the other expected violations.

## Not modelled

Cryptography, and with it age's format and what a signature is; key algorithms, serial
numbers, subjects, PEM; the contents of a `.pfx` that exists (`checkReusedKeyPair` does not
decode it either); the length of file names; code signing entries of a spec; the text of
specs (of the scenarios' templates, only which inputs reach what reuse compares); lists of host names or clients that
overlap (another value of a list shares no entry with the first, and differs in more than spelling); `AgeIdentities` of the YubiKey, which reads public keys; parsing of flag values;
specs of one's own and chains in what `Command` keeps of the directory (`SpecRun` has them);
excluded names, which certtool never writes; errors of `Stat` other than a missing file, which
`fileExists` takes for one; a negative `validity` in a spec; concurrent use of one `Token`,
which has no lock and which the command never makes.

## Plan

What is left, in order:

1. The name constraints a scenario derives from its host names (`hostnameConstraints`, `pkg/certtool/scenario.go:522`),
   handed to `Issuance`.
2. `Token.AgeIdentities` and the identities of `--age-yubikey` in `SpecRun`.
