------------------------------ MODULE Command ------------------------------
(***************************************************************************)
(* The command: Run from its options to its end, one command after the     *)
(* other in one directory and with the YubiKeys of Readers.  A command may *)
(* fail at any step or be killed; meanwhile a user edits, writes and       *)
(* deletes specs and certificates.                                         *)
(*                                                                         *)
(* A spec is the inputs it was written from and whether it was edited      *)
(* since; there is one file for each choice of scenarios.  What the        *)
(* certificates of the scenarios were made from is kept in "made"; how     *)
(* each of them is reused or replaced is SpecRun's.                        *)
(***************************************************************************)
EXTENDS Options, Readers, ChainSpec

CONSTANTS MaxCommands, MaxEdits     \* bounds

ASSUME CommandAssumption == MaxCommands \in Nat /\ MaxEdits \in Nat

Edit == {"none", "compared", "uncompared"}     \* an edit of what a reused certificate is compared with, or not
Body == [scenarios : SUBSET Scenario, inputs : SUBSET Input, other : SUBSET Input, edit : Edit]
NoBody == [scenarios |-> {}, inputs |-> {}, other |-> {}, edit |-> "none"]

\* Entries of a scenario with files of fixed names, or with those of the hosts or
\* clients they are for, in the first list of them or in another.
Entry == [scenario : Scenario, named : {"fixed", "hostnames", "clients"}, other : BOOLEAN]
\* What the certificates of an entry were made from, who signed the top ones, and
\* whether the certificates they were signed with are still there.
Origin == [entry : Entry, body : Body, issuer : Serial \cup {NoYubiKey}, current : BOOLEAN]
NoChain == [call |-> <<>>, names |-> <<>>]

VARIABLES
  pc, args, outcome,
  started,     \* the Args as they were given
  specs,       \* the scenarios' spec files
  looked,      \* what writeScenarioSpec found at the path
  body,        \* the spec this command generates from
  issuer,      \* the YubiKey that signs, or none
  made,        \* what the certificates come from,
  whole,       \* and the specs every entry of which has its files
  roots,       \* the YubiKeys with the certificate of a root CA,
  orphaned,    \* and those of them whose key is another one by now
  chain,       \* the call of ChainToSpec and the names it returned
  effects,     \* what this command changed
  settled,     \* the last command that succeeded, when no user interfered with it or since
  edited,      \* a user changed a file during or since the command
  commands, edits

process == <<pc, args, outcome, started, looked, body, issuer, chain, effects>>
files == <<specs, made, whole>>
slots == <<roots, orphaned>>
history == <<settled, edited, commands, edits>>
vars == <<process, files, slots, history, readerVars>>

Init ==
  /\ ReadersInit
  /\ pc = "idle" /\ args = NoArgs /\ outcome = "none" /\ started = NoArgs
  /\ specs = {} /\ looked = "none" /\ body = NoBody /\ issuer = NoYubiKey
  /\ made = {} /\ whole = {} /\ roots \in SUBSET Serial /\ orphaned = {}
  /\ chain = NoChain /\ effects = {}
  /\ settled = NoArgs /\ edited = FALSE /\ commands = 0 /\ edits = 0

-----------------------------------------------------------------------------
(* The start and the end of a command.                                     *)

Run(a) ==
  /\ a.bad \subseteq MayBeMalformed(a) /\ a.other \subseteq InputsGiven(a)
  /\ pc = "idle" /\ commands < MaxCommands /\ commands' = commands + 1
  /\ started' = a /\ args' = a /\ outcome' = "running" /\ effects' = {}
  /\ looked' = "none" /\ body' = NoBody /\ issuer' = NoYubiKey /\ chain' = NoChain
  /\ pc' = IF Has(a, "scenario") THEN "scenario" ELSE "modes"
  /\ settled' = IF a = settled THEN settled ELSE NoArgs
  /\ edited' = FALSE
  /\ UNCHANGED <<files, slots, edits, readerVars>>

Step(next) == pc' = next /\ UNCHANGED <<outcome, settled, readerVars>>

\* An error, or the end; a Token that is open is closed on the way out.
Return(result) ==
  /\ outcome' = result /\ pc' = IF at = "open" THEN "close" ELSE "idle"
  /\ settled' = IF result = "done" /\ ~edited THEN started ELSE settled
  /\ UNCHANGED readerVars

closeYubiKey ==
  /\ pc = "close" /\ CloseToken
  /\ pc' = "idle"
  /\ UNCHANGED <<args, outcome, started, looked, body, issuer, chain, effects, files, slots, history>>

\* Any other error: files, the environment, the PIN, the YubiKey.
Fails ==
  /\ pc \notin {"idle", "opening", "close"}
  /\ Return("failed")
  /\ UNCHANGED <<args, started, looked, body, issuer, chain, effects, files, slots, edited, commands, edits>>

Kill ==
  /\ pc # "idle"
  /\ pc' = "idle" /\ outcome' = "killed" /\ Killed
  /\ UNCHANGED <<args, started, looked, body, issuer, chain, effects, files, slots, history>>

-----------------------------------------------------------------------------
(* --scenario: the spec is written before the other options are checked.   *)

SpecOf(a) == [scenarios |-> a.scenarios, inputs |-> InputsGiven(a), other |-> a.other, edit |-> "none"]
SpecAt(scenarios) == {c \in specs : c.scenarios = scenarios}

runScenario ==
  /\ pc = "scenario"
  /\ IF validateScenario(args) /\ scenarioOptions(args)
     THEN Step(IF Has(args, "export-spec") THEN "export" ELSE "look")
     ELSE Return("refused")
  /\ UNCHANGED <<args, started, looked, body, issuer, chain, effects, files, slots, edited, commands, edits>>

\* Faulty variant: the spec is written whatever is there.
LookAtSpecNever ==
  /\ pc = "look"
  /\ Step("write") /\ looked' = "different" /\ UNCHANGED args
  /\ UNCHANGED <<started, body, issuer, chain, effects, files, slots, edited, commands, edits>>

\* Faulty variant: a spec that is there is different.
LookAtSpecAlwaysDifferent ==
  /\ pc = "look"
  /\ IF SpecAt(args.scenarios) = {}
     THEN Step("write") /\ looked' = "absent"
     ELSE /\ IF Has(args, "overwrite") THEN Step("write") ELSE Return("refused")
          /\ looked' = "different"
  /\ UNCHANGED <<args, started, body, issuer, chain, effects, files, slots, edited, commands, edits>>

\* writeScenarioSpec looks for the spec: the same is used, another one is
\* replaced with --overwrite only.
LookAtSpec ==
  /\ pc = "look"
  /\ \/ /\ SpecAt(args.scenarios) = {SpecOf(args)}
        /\ Step("modes") /\ looked' = "same" /\ args' = AsSpec(args)
     \/ /\ SpecAt(args.scenarios) = {}
        /\ Step("write") /\ looked' = "absent" /\ UNCHANGED args
     \/ /\ SpecAt(args.scenarios) \notin {{}, {SpecOf(args)}}
        /\ IF Has(args, "overwrite") THEN Step("write") ELSE Return("refused")
        /\ looked' = "different" /\ UNCHANGED args
  /\ UNCHANGED <<started, body, issuer, chain, effects, files, slots, edited, commands, edits>>

\* Faulty variant: the spec that was there stays.
WriteSpecBeside ==
  /\ pc = "write"
  /\ specs' = specs \cup {SpecOf(args)}
  /\ effects' = effects \cup {"spec"} /\ args' = AsSpec(args) /\ Step("modes")
  /\ UNCHANGED <<started, looked, body, issuer, chain, made, whole, slots, edited, commands, edits>>

\* ... and writes it.  The command goes on like --spec.
WriteSpec ==
  /\ pc = "write"
  /\ specs' = (specs \ SpecAt(args.scenarios)) \cup {SpecOf(args)}
  /\ effects' = effects \cup {"spec"} /\ args' = AsSpec(args) /\ Step("modes")
  /\ UNCHANGED <<started, looked, body, issuer, chain, made, whole, slots, edited, commands, edits>>

-----------------------------------------------------------------------------
(* Run: what is refused, and the YubiKey.                                  *)

\* Faulty variant: the options of a root CA are looked at when it is made.
RunModesRootLater ==
  /\ pc = "modes"
  /\ IF ~validateModes(args) THEN Return("refused")
     ELSE Step(IF OpensYubiKey(args) THEN "open" ELSE "keys")
  /\ UNCHANGED <<args, started, looked, body, issuer, chain, effects, files, slots, edited, commands, edits>>

\* validateModes; for a root CA then the touch policy and what certificateArgs parses.
RunModes ==
  /\ pc = "modes"
  /\ IF ~validateModes(args) THEN Return("refused")
     ELSE IF ForRoot(args) /\ args.bad \cap (ParsedByCertificateArgs \cup RootFlags) # {} THEN Return("failed")
     ELSE Step(IF OpensYubiKey(args) THEN "open" ELSE "keys")
  /\ UNCHANGED <<args, started, looked, body, issuer, chain, effects, files, slots, edited, commands, edits>>

\* yubiKeyConfig needs a serial number it can parse, yubikey.Open a slot.
openYubiKeyStarts ==
  /\ pc = "open" /\ args.bad \cap {"yubikey-serial", "yubikey-slot"} = {}
  /\ \E w \in IF Has(args, "yubikey-serial") THEN Serial ELSE {AnySerial} : Open(w)
  /\ pc' = "opening"
  /\ UNCHANGED <<args, outcome, started, looked, body, issuer, chain, effects, files, slots, history>>

yubikeyOpen ==
  /\ pc = "opening" /\ OpenStep
  /\ UNCHANGED <<process, files, slots, history>>

openYubiKeyReturns ==
  /\ pc = "opening" /\ at \in {"open", "refused"}
  /\ IF at = "refused" THEN Return("failed")
     ELSE Step(CASE ForRoot(args) -> "root" [] SignsWithYubiKey(args) -> "issuer" [] OTHER -> "keys")
  /\ UNCHANGED <<args, started, looked, body, issuer, chain, effects, files, slots, edited, commands, edits>>

\* The YubiKey the command has connected to, while it is in its reader.
Inserted == {s \in Serial : \E c \in conn : c.card = s /\ inReader[c.reader] = s}

\* The YubiKey signs when it holds the certificate of a root CA.
Issuer ==
  /\ pc = "issuer"
  /\ issuer' \in Inserted \cap roots
  /\ Step("keys")
  /\ UNCHANGED <<args, started, looked, body, chain, effects, files, slots, edited, commands, edits>>

\* keyEncryption parses recipients and identities; then the mode is chosen.
keyEncryption ==
  /\ pc = "keys" /\ args.bad \cap {"encrypt-to", "age-identity-file"} = {}
  /\ Step(Mode(args))
  /\ UNCHANGED <<args, started, looked, body, issuer, chain, effects, files, slots, edited, commands, edits>>

-----------------------------------------------------------------------------
(* The modes.                                                              *)

AfterSpec == IF Has(args, "export-spec") THEN "export" ELSE "generate"

\* runSpec reads the spec, whoever wrote it.
ReadSpec ==
  /\ pc = "spec" /\ "spec" \notin args.bad
  /\ \E c \in SpecAt(args.scenarios) : body' = c
  /\ Step(AfterSpec)
  /\ UNCHANGED <<args, started, looked, issuer, chain, effects, files, slots, edited, commands, edits>>

DefaultOrganization == Phrase(<<"cloudfra">>)

\* runChain calls ChainToSpec with what the flags say.
runChain(c) ==
  /\ pc = "chain" /\ "chain" \notin args.bad
  /\ Has(args, "common-name") <=> c.commonName # <<>>
  /\ Has(args, "organization") <=> c.organization # DefaultOrganization
  /\ Has(args, "name-prefix") <=> c.namePrefix # <<>>
  /\ chain' = [call |-> c, names |-> ChainToSpec(c)]
  /\ body' = NoBody
  /\ IF ChainToSpec(c) = <<>> THEN Return("failed") ELSE Step(AfterSpec)
  /\ UNCHANGED <<args, started, looked, issuer, effects, files, slots, edited, commands, edits>>

\* writeSpecData with --export-spec, of whatever the spec comes from.
ExportSpec ==
  /\ pc = "export"
  /\ Mode(args) = "export" => "hostnames" \notin args.bad
  /\ effects' = effects \cup {"export"} /\ Return("done")
  /\ UNCHANGED <<args, started, looked, body, issuer, chain, files, slots, edited, commands, edits>>

\* The entries that the templates of a body's scenarios write.
Names(s) == CASE s = "ssh" -> {"hostnames", "clients"} [] s = "mtls" -> {"fixed", "clients"} [] OTHER -> {"fixed"}
Entries(b) ==
  {e \in Entry : /\ e.scenario \in b.scenarios
                /\ e.named \in Names(e.scenario) \cap (b.inputs \cup {"fixed"})
                /\ e.other = (e.named \in b.other)}
\* Certificates named after clients are signed by the CA of their scenario.
Issues(d, e) == e.named # "fixed" /\ d = [e EXCEPT !.named = "fixed", !.other = FALSE]

\* checkReusedKeyPair compares the common name, the name constraints and who signed.
\* The templates put the organization into the common names of CAs and code signing
\* certificates (web.yaml.tmpl:13, 33, code-sign.yaml.tmpl:17), the hostnames into the
\* constraints of CAs (web.yaml.tmpl:14, 34), the first of them into the common name of
\* a server (local-dev.yaml.tmpl:14).  A target, clients, key types, validities, the
\* rest of the subject and a leaf's other hostnames are never compared.
ComparedInputs(e) ==
  CASE e.named # "fixed" -> {}
    [] e.named = "fixed" /\ e.scenario \in {"web", "mtls"} -> {"organization", "hostnames"}
    [] e.named = "fixed" /\ e.scenario = "local-dev" -> {"first-hostname"}
    [] OTHER -> {"organization"}
Compared(e, b) ==
  [inputs |-> b.inputs \cap ComparedInputs(e), other |-> b.other \cap ComparedInputs(e), edited |-> b.edit = "compared"]
Fits(o) == Compared(o.entry, o.body) = Compared(o.entry, body) /\ o.issuer = issuer /\ o.current

New == {[entry |-> e, body |-> body, issuer |-> issuer, current |-> TRUE] : e \in Entries(body)}
\* A YubiKey whose root CA has another key by now signs nothing that its certificate
\* verifies (verifySignature); CAs that are reused still sign what is below them.
CanSign(new) ==
  issuer \in orphaned =>
    \A n \in new : ~Has(args, "overwrite") /\ \E o \in made : o.entry.scenario = n.entry.scenario /\ Fits(o)
\* New certificates beside those that are kept, which a new CA has not signed.
Renewed(kept, new) ==
  new \cup {[o EXCEPT !.current = @ /\ ~\E n \in new : Issues(n.entry, o.entry) /\ \A k \in kept : k.entry # n.entry] :
           o \in kept}
Without(entries) == {o \in made : o.entry \notin entries}
OtherSpecs == {b \in whole : Entries(b) \cap Entries(body) = {}}

\* GenerateFromSpecWithOptions makes the certificates that are missing, and
\* with --overwrite all of them; it may get only so far.
GenerateSome ==
  /\ pc = "generate"
  /\ \E new \in SUBSET New :
       /\ CanSign(new)
       /\ \/ /\ Has(args, "overwrite")
             /\ made' \in {Renewed(made, new), Renewed(Without({n.entry : n \in new}), new)}
             /\ whole' = OtherSpecs
          \/ /\ ~Has(args, "overwrite") /\ (body \in whole => new = {})
             /\ made' = Renewed(made, new) /\ UNCHANGED whole
  /\ effects' = effects \cup {"certs"} /\ Step("generating")
  /\ UNCHANGED <<args, started, looked, body, issuer, chain, specs, slots, edited, commands, edits>>

\* What is missing is made, and all that is there must fit the spec.
Reuse ==
  /\ \E new \in SUBSET New :
       /\ CanSign(new) /\ (body \in whole => new = {})
       /\ made' = Renewed(made, new)
       /\ \A e \in Entries(body) : \E o \in made' : o.entry = e
       /\ \A o \in made' : o.entry \in Entries(body) => Fits(o)
  /\ whole' = whole \cup {body}

\* Faulty variant: --overwrite keeps what fits.
GenerateRestReuses ==
  /\ pc = "generating" /\ Reuse /\ Return("done")
  /\ UNCHANGED <<args, started, looked, body, issuer, chain, effects, specs, slots, edited, commands, edits>>

\* It ends when every certificate of the spec is there.
GenerateRest ==
  /\ pc = "generating"
  /\ \/ /\ Has(args, "overwrite") /\ CanSign(New)
        /\ made' = Renewed(Without(Entries(body)), New) /\ whole' = OtherSpecs \cup {body}
     \/ ~Has(args, "overwrite") /\ Reuse
  /\ Return("done")
  /\ UNCHANGED <<args, started, looked, body, issuer, chain, effects, specs, slots, edited, commands, edits>>

\* certificateArgs, then generateAndWriteKeyPair, which makes the template and signs
\* before it writes.
generateKeyPair ==
  /\ pc = "single" /\ args.bad \cap (ParsedByCertificateArgs \cup ParsedByTemplate(args)) = {}
  /\ issuer \notin orphaned
  /\ effects' = effects \cup {"pair"} /\ Return("done")
  /\ UNCHANGED <<args, started, looked, body, issuer, chain, files, slots, edited, commands, edits>>

\* Token.GenerateRoot on the YubiKey that is connected.  managementKey looks at the
\* management key, or without one at the PIN; then the key in the slot is replaced,
\* and its certificate, if there is one, stays.
GenerateKey ==
  /\ pc = "root"
  /\ "yubikey-management-key" \notin args.bad
  /\ "yubikey-pin" \in args.bad => Has(args, "yubikey-management-key")
  /\ \E s \in Inserted :
       /\ s \in roots => Has(args, "yubikey-overwrite")
       /\ orphaned' = orphaned \cup ({s} \cap roots)
  /\ effects' = effects \cup {"card"} /\ Step("selfsign")
  /\ UNCHANGED <<args, started, looked, body, issuer, chain, files, roots, edited, commands, edits>>

\* The template is made and signed, with the PIN, and the certificate stored: what the
\* root CA before it signed is signed by no YubiKey any more.
SetCertificate ==
  /\ pc = "selfsign"
  /\ args.bad \cap (ParsedByTemplate(args) \cup {"yubikey-pin"}) = {}
  /\ \E s \in Inserted :
       /\ roots' = roots \cup {s} /\ orphaned' = orphaned \ {s}
       /\ made' = {[o EXCEPT !.current = @ /\ o.issuer # s] : o \in made}
  /\ Step("certificate")
  /\ UNCHANGED <<args, started, looked, body, issuer, chain, effects, specs, whole, edited, commands, edits>>

WriteCertificate ==
  /\ pc = "certificate"
  /\ effects' = effects \cup {"certificate"} /\ Return("done")
  /\ UNCHANGED <<args, started, looked, body, issuer, chain, files, slots, edited, commands, edits>>

-----------------------------------------------------------------------------
(* Users.                                                                  *)

Edits ==
  /\ edits < MaxEdits /\ edits' = edits + 1 /\ edited' = TRUE /\ settled' = NoArgs
  /\ UNCHANGED <<process, slots, commands, readerVars>>

EditSpec(c, e) ==
  /\ specs' = (specs \ {c}) \cup {[c EXCEPT !.edit = e]}
  /\ Edits /\ UNCHANGED <<made, whole>>

WriteOwnSpec(scenarios) ==
  /\ SpecAt(scenarios) = {}
  /\ specs' = specs \cup {[NoBody EXCEPT !.scenarios = scenarios, !.edit = "compared"]}
  /\ Edits /\ UNCHANGED <<made, whole>>

DeleteSpec(c) ==
  /\ specs' = specs \ {c}
  /\ Edits /\ UNCHANGED <<made, whole>>

\* Some or all of the certificates that come from o.
DeleteCertificates(o) ==
  /\ made' \in {made, made \ {o}} /\ whole' = {b \in whole : o.entry \notin Entries(b)}
  /\ Edits /\ UNCHANGED specs

User ==
  \/ \E c \in specs : DeleteSpec(c) \/ \E e \in {"compared", "uncompared"} : EditSpec(c, e)
  \/ \E scenarios \in SUBSET Scenario : WriteOwnSpec(scenarios)
  \/ \E o \in made : DeleteCertificates(o)

CommandStep ==
  \/ runScenario \/ LookAtSpec \/ WriteSpec \/ RunModes \/ openYubiKeyStarts \/ yubikeyOpen \/ openYubiKeyReturns
  \/ Issuer \/ keyEncryption \/ ReadSpec \/ (\E c \in ChainCall : runChain(c)) \/ ExportSpec
  \/ GenerateSome \/ GenerateRest \/ generateKeyPair \/ GenerateKey \/ SetCertificate \/ WriteCertificate
  \/ closeYubiKey \/ Fails \/ Kill

Next ==
  \/ \E a \in Args : Run(a)
  \/ CommandStep
  \/ User
  \/ Others /\ UNCHANGED <<process, files, slots, history>>

Spec == Init /\ [][Next]_vars

-----------------------------------------------------------------------------
(* Properties.                                                             *)

Outcomes == {"none", "running", "done", "refused", "failed", "killed"}
Effects == {"spec", "export", "certs", "pair", "card", "certificate"}

\* Every variable keeps its type, and each choice of scenarios has one spec
\* file (scenario.go:56).
TypeOK ==
  /\ ReadersTypeOK
  /\ pc \in {"idle", "scenario", "look", "write", "modes", "open", "opening", "issuer", "keys", "spec", "chain",
             "export", "generate", "generating", "single", "root", "selfsign", "certificate", "close"}
  /\ args \in Args /\ started \in Args /\ settled \in Args /\ outcome \in Outcomes
  /\ specs \subseteq Body /\ \A c, d \in specs : c.scenarios = d.scenarios => c = d
  /\ looked \in {"none", "same", "absent", "different"} /\ body \in Body
  /\ issuer \in Serial \cup {NoYubiKey} /\ orphaned \subseteq roots /\ roots \subseteq Serial
  /\ made \subseteq Origin /\ whole \subseteq Body /\ effects \subseteq Effects
  /\ edited \in BOOLEAN /\ commands \in 0..MaxCommands /\ edits \in 0..MaxEdits

\* "Find the matching YubiKeys first, then reopen the chosen one, because each
\* open YubiKey holds an exclusive connection" (yubikey_piv.go:110): the command
\* holds one YubiKey at most, none before it needs one, and none when it has ended,
\* however it ends.
CardReleased ==
  /\ \A c, d \in conn : c = d
  /\ pc \in {"idle", "scenario", "look", "write", "modes", "open"} => conn = {} /\ at # "open"

\* "If the spec was edited, it stops and says to use --spec instead, so edits are
\* never lost" (docs/scenarios.md:13): an edited spec is replaced with --overwrite
\* only.  A spec that appears between the look (scenario.go:79) and the write is not
\* protected.
EditsKept ==
  [][\A c \in specs \ specs' :
       c.edit # "none" => Has(started, "overwrite") \/ edits' # edits \/ (pc = "write" /\ looked = "absent")]_vars

\* "Running the same --scenario command again reuses the spec and the certificates"
\* (docs/scenarios.md:13): it changes neither, even when it fails, and it is not
\* refused.
RepeatReuses ==
  [][/\ started = settled /\ settled' = settled /\ started' = started /\ pc # "idle"
     /\ Has(started, "scenario") /\ ~Has(started, "overwrite")
     => UNCHANGED <<specs, made, whole>> /\ outcome' # "refused"]_vars

\* After a --scenario command that generated, and unless a user interfered, each
\* certificate of its spec agrees with the options in all that reuse compares
\* (spec.go:763), whatever was there before, and is exactly what they describe with
\* --overwrite; it is signed by the root CA that the YubiKey has now, or by the spec's
\* own, and by the CA there is now.  Without --overwrite it need not agree in a target,
\* clients, key types, validities or a leaf's hostnames (docs/spec.md:345).
CertsFollowOptions ==
  outcome = "done" /\ "certs" \in effects /\ Has(started, "scenario") /\ ~edited =>
    /\ issuer # NoYubiKey <=> Has(started, "yubikey")
    /\ \A o \in {m \in made : m.entry \in Entries(SpecOf(started))} :
         /\ Compared(o.entry, o.body) = Compared(o.entry, SpecOf(started))
         /\ Has(started, "overwrite") => o.body = SpecOf(started)
         /\ o.issuer = issuer /\ o.current

\* What is looked at late: the names a root CA is constrained to and, with a management
\* key, the length of the PIN, which GenerateRoot reads when the old key is gone
\* (yubikey_piv.go:265, 280); elsewhere the PIN, which what is reused never needs.
CheckedLate(a) ==
  IF ForRoot(a) THEN {"permitted-dns-domains"} \cup (IF Has(a, "yubikey-management-key") THEN {"yubikey-pin"} ELSE {})
  ELSE {"yubikey-pin"}

\* But for those, the options the command uses are all checked before it makes a
\* certificate or a key pair, or replaces the key of a root CA: a malformed one leaves
\* none of them half done (certtool.go:354, 359, yubikey_piv.go:259).
OptionsCheckedFirst ==
  effects \cap {"certs", "pair", "card"} # {} =>
    started.bad \cap (IF Has(started, "scenario") THEN ScenarioUses(started) ELSE Uses(started)) \subseteq
      CheckedLate(started)

\* A command that is refused for its options changes nothing, but a --scenario
\* command with options of a YubiKey and no YubiKey has written its spec by then
\* (scenario.go:64, certtool.go:275).
RefusedHarmless ==
  outcome = "refused" /\ effects # {} =>
    /\ effects = {"spec"} /\ Has(started, "scenario")
    /\ Given(started, YubiKeyFlags) /\ ~Given(started, {"yubikey", "age-yubikey"})

\* What runs uses the options that validateModes, validateEncryption ("rejects
\* encryption options that would be ignored", encrypt.go:35) and validateScenario
\* ("so a flag is never silently ignored", scenario.go:95) are there to check.
Guarded(a) ==
  IF Has(a, "scenario") THEN a.given \ {"key-type", "validity"}
  ELSE a.given \cap ({"overwrite", "encrypt-to"} \cup CAConstraints \cup RootFlags \cup YubiKeyFlags \cup AgeIdentities)
\* The exceptions there are: a spec that is only exported, a management key for
\* anything but a root CA, a slot to decrypt with, identities with --overwrite.
Tolerated(a) ==
  (IF Has(a, "export-spec") THEN YubiKeyFlags \cup {"overwrite"} ELSE {}) \cup
  {"yubikey-management-key"} \cup
  (IF Has(a, "yubikey") THEN {} ELSE {"yubikey-slot"}) \cup
  (IF Has(a, "overwrite") THEN AgeIdentities ELSE {})
NothingIgnored ==
  pc \in {"keys", "single", "generating", "certificate"} =>
    Guarded(started) \subseteq
      Tolerated(started) \cup (IF Has(started, "scenario") THEN ScenarioUses(started) ELSE Uses(started))

\* "A flag that none of the chosen scenarios uses is an error" (docs/scenarios.md:16).
NoFlagIgnored ==
  pc = "write" => started.given \cap {"hostnames", "clients", "target", "key-type", "validity"} \subseteq
                    UNION {TemplateUses(s) : s \in started.scenarios}

\* generateSpec stops half way when two entries have one file name (spec.go:621).
\* That never happens to a chain: names that differ make files that differ,
\* although slugify drops case and punctuation.
ChainFilesUnique ==
  \A p, q \in DOMAIN chain.names :
    specFilename(chain.names, p) = specFilename(chain.names, q) => p = q

\* A chain that is accepted is a spec that validateSpec accepts, with the widths
\* asked for (spec.go:363), and generateSpec gives each CA the path length of the CA
\* layers below it.
ChainDepths ==
  chain.names # <<>> =>
    LET widths == chain.call.widths
        tree == ChainTree(widths, chain.names)
    IN /\ Tree!validateSpec(tree)
       /\ \A p \in DOMAIN chain.names :
            LET below == Cardinality({q \in DOMAIN chain.names : q # <<>> /\ Front(q) = p})
            IN IF p \in tree.certificateAuthority
               THEN below = widths[Len(p) + 1] /\ Tree!pathLen(tree, p) = Len(widths) - Len(p) - 1
               ELSE below = 0 /\ Len(p) = Len(widths)

\* "ChainToSpec returns an error if commonName would collide with a generated CA
\* name" (spec.go:379), and otherwise only when a layer is empty.
ChainRefusedForCause ==
  LET c == chain.call IN
  chain.names = <<>> /\ c # <<>> /\ validWidths(c.widths) =>
    \E layer \in 0..(Len(c.widths) - 2) :
      c.commonName = caName(organizationOf(c), layer, Len(c.widths))
=============================================================================
