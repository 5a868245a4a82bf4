------------------------------ MODULE Options ------------------------------
(***************************************************************************)
(* The options of the command: what Run refuses, which mode runs, and      *)
(* which options that mode uses.                                           *)
(*                                                                         *)
(* Args holds the flags that differ from their defaults, those of them     *)
(* whose value is malformed (a key type that does not exist, a validity    *)
(* that is not positive, a list that does not parse, for --scenario an     *)
(* empty organization or a control character, a PIN of an impossible       *)
(* length, ...), and what the rest of the command tells apart in           *)
(* --scenario and --spec: for which scenarios the spec is, and which       *)
(* inputs have another value than the first there is of each.  Scenario    *)
(* stands for the twenty there are, one of each kind.                      *)
(***************************************************************************)
EXTENDS Naturals, FiniteSets

Subject == {"common-name", "organization", "subject"}    \* subject: unit, country, locality, province
ParentFlags == {"parent-public-certificate", "parent-private-key"}
CAConstraints == {"max-path-len", "permitted-dns-domains", "permitted-ip-ranges"}
RootFlags == {"yubikey-touch-policy", "yubikey-overwrite"}
YubiKeyFlags == {"yubikey-serial", "yubikey-slot", "yubikey-pin", "yubikey-management-key"}
AgeIdentities == {"age-identity-file", "age-yubikey"}
Flag ==
  Subject \cup ParentFlags \cup CAConstraints \cup RootFlags \cup YubiKeyFlags \cup AgeIdentities \cup
  {"scenario", "spec", "chain", "export-spec", "yubikey", "yubikey-generate-root", "output-dir", "overwrite",
   "name-prefix", "ca", "code-sign", "target", "pfx", "public-certificate", "private-key", "encrypt-to",
   "hostnames", "clients", "key-type", "validity"}       \* pfx: its password and its path

-----------------------------------------------------------------------------
(* The scenarios: the inputs in their metadata, and those their text uses. *)

Scenario == {"web", "mtls", "local-dev", "code-sign", "android-signing", "ssh", "proxy"}
Hostnames(s) ==
  CASE s \in {"web", "mtls"} -> "required" [] s \in {"local-dev", "ssh"} -> "optional" [] OTHER -> "unused"
Clients(s) == IF s \in {"mtls", "ssh"} THEN "required" ELSE "unused"
Target(s) == s = "code-sign"
SelfSigned(s) == s = "android-signing"
TemplateUses(s) ==
  (IF s = "proxy" THEN {} ELSE {"key-type", "validity"})
    \cup (IF s \in {"web", "mtls", "local-dev", "ssh"} THEN {"hostnames"} ELSE {})
    \cup (IF s \in {"mtls", "ssh"} THEN {"clients"} ELSE {})
    \cup (IF s = "code-sign" THEN {"target"} ELSE {})

\* The flags that may be malformed: those with a value that is parsed or, like the
\* credentials of a YubiKey, whose form is checked when they are used
\* (yubikey_piv.go:338, 359), and for --scenario the text that goes into a spec.  The others
\* are switches, names, paths and passwords.
Parsed ==
  ParentFlags \cup CAConstraints \cup
  {"scenario", "spec", "chain", "export-spec", "target", "encrypt-to", "hostnames", "clients", "key-type", "validity",
   "yubikey-touch-policy", "age-identity-file"} \cup YubiKeyFlags
Text == {"organization", "subject", "output-dir"}

\* The inputs whose value goes into a spec, and the first of the hostnames.
Input ==
  {"organization", "subject", "hostnames", "first-hostname", "clients", "target", "key-type", "validity", "yubikey",
   "output-dir"}

Args == [given : SUBSET Flag, bad : SUBSET Flag, scenarios : SUBSET Scenario, other : SUBSET Input]
NoArgs == [given |-> {}, bad |-> {}, scenarios |-> {}, other |-> {}]

Given(a, flags) == a.given \cap flags # {}
Has(a, flag) == flag \in a.given

InputsGiven(a) == (a.given \cap Input) \cup (IF Has(a, "hostnames") THEN {"first-hostname"} ELSE {})
MayBeMalformed(a) == a.given \cap (Parsed \cup (IF Has(a, "scenario") THEN Text ELSE {}))

-----------------------------------------------------------------------------
(* --scenario.                                                             *)

\* What applies when --scenario generates, and what never applies to it.
Generates == YubiKeyFlags \cup AgeIdentities \cup {"output-dir", "overwrite", "encrypt-to"}
NeverUsed ==
  ParentFlags \cup CAConstraints \cup RootFlags \cup
  {"public-certificate", "private-key", "ca", "common-name", "code-sign", "pfx", "spec", "chain", "name-prefix",
   "yubikey-generate-root"}

InputsFit(a) ==
  /\ \A s \in a.scenarios :
       /\ Hostnames(s) = "required" => Has(a, "hostnames")
       /\ Clients(s) = "required" => Has(a, "clients")
       /\ SelfSigned(s) => ~Has(a, "yubikey")
  /\ Has(a, "target") => \E s \in a.scenarios : Target(s)
  /\ Has(a, "clients") => \E s \in a.scenarios : Clients(s) # "unused"
  /\ Has(a, "hostnames") => \E s \in a.scenarios : Hostnames(s) # "unused"

\* Faulty variant: what never applies is left to validateModes.
validateScenarioLater(a) ==
  /\ "scenario" \notin a.bad
  /\ Has(a, "export-spec") => ~Given(a, Generates)
  /\ InputsFit(a)

validateScenario(a) ==
  /\ "scenario" \notin a.bad
  /\ ~Given(a, NeverUsed)
  /\ Has(a, "export-spec") => ~Given(a, Generates)
  /\ InputsFit(a)

\* scenarioOptions and ScenarioSpec: the inputs must make a spec.
scenarioOptions(a) == a.bad \cap (Input \cup {"export-spec"}) = {}

\* Then the command goes on like --spec, with the spec it wrote.
AsSpec(a) ==
  LET held == {"scenario", "hostnames", "clients", "target", "key-type", "validity"}
  IN [a EXCEPT !.given = (@ \ held) \cup {"spec"}, !.bad = @ \ held]

-----------------------------------------------------------------------------
(* validateModes and validateEncryption.                                   *)

HasSpec(a) == Given(a, {"spec", "chain"})
ForRoot(a) == Has(a, "yubikey-generate-root")

\* Faulty variant: identities are accepted whatever there is to decrypt.
validateEncryptionLax(a) ==
  (ForRoot(a) \/ Has(a, "export-spec")) => ~Given(a, {"encrypt-to"} \cup AgeIdentities)

validateEncryption(a) ==
  /\ ForRoot(a) \/ Has(a, "export-spec") => ~Given(a, {"encrypt-to"} \cup AgeIdentities)
  /\ Given(a, AgeIdentities) => Has(a, "parent-private-key") \/ HasSpec(a)

validateModes(a) ==
  /\ ~(Has(a, "chain") /\ Has(a, "spec"))
  /\ ~(Has(a, "yubikey") /\ ForRoot(a))
  /\ Has(a, "overwrite") => HasSpec(a)
  /\ Given(a, CAConstraints) => ~HasSpec(a) /\ Given(a, {"ca", "yubikey-generate-root"}) /\ "max-path-len" \notin a.bad
  /\ Has(a, "yubikey") => ~Given(a, ParentFlags)
  /\ ForRoot(a) => ~Given(a, {"chain", "spec", "export-spec", "code-sign"} \cup ParentFlags)
  /\ Given(a, RootFlags) => ForRoot(a)
  /\ Given(a, YubiKeyFlags) => Given(a, {"yubikey", "yubikey-generate-root", "age-yubikey"})
  /\ validateEncryption(a)
  /\ Has(a, "parent-public-certificate") <=> Has(a, "parent-private-key")

\* Run and the functions it calls decide in this order.
Mode(a) ==
  CASE ForRoot(a) -> "root"
    [] ~ForRoot(a) /\ Has(a, "spec") -> "spec"
    [] ~ForRoot(a) /\ Has(a, "chain") -> "chain"
    [] ~ForRoot(a) /\ ~HasSpec(a) /\ Has(a, "export-spec") -> "export"
    [] OTHER -> "single"

\* Whether Run opens the YubiKey, and whether it signs with it.
SignsWithYubiKey(a) == Has(a, "yubikey") /\ ~Has(a, "export-spec")
OpensYubiKey(a) == SignsWithYubiKey(a) \/ Has(a, "age-yubikey") \/ ForRoot(a)

-----------------------------------------------------------------------------
(* What is used.  The options one operation reads, and the operations that *)
(* each mode performs.                                                     *)

certificateArgs(a) ==
  Subject \cup {"ca", "code-sign", "pfx", "key-type", "validity", "hostnames"} \cup CAConstraints \cup
  (IF Has(a, "code-sign") THEN {"target"} ELSE {}) \cup
  (IF Has(a, "parent-public-certificate") THEN ParentFlags \cup AgeIdentities ELSE {})

\* certificateArgs parses some of them and reads the parent; the others it passes
\* on, and newCertificateTemplate is the first to look at their form.
ParsedByCertificateArgs == {"key-type", "validity", "hostnames", "permitted-ip-ranges"} \cup ParentFlags
ParsedByTemplate(a) == {"permitted-dns-domains"} \cup (IF Has(a, "code-sign") THEN {"target"} ELSE {})

openYubiKey(a) ==
  (IF OpensYubiKey(a) THEN {"yubikey-serial", "yubikey-pin"} ELSE {}) \cup
  (IF SignsWithYubiKey(a) \/ ForRoot(a) THEN {"yubikey-slot"} ELSE {}) \cup
  (IF ForRoot(a) THEN {"yubikey-management-key"} ELSE {})

\* Reuse decrypts keys; --overwrite reads none.  With --export-spec the spec is
\* written instead.
generateAndLogResults(a) ==
  IF Has(a, "export-spec") THEN {"export-spec"}
  ELSE {"output-dir", "overwrite", "encrypt-to", "yubikey"} \cup (IF Has(a, "overwrite") THEN {} ELSE AgeIdentities)
argsToSpec == Subject \cup CAConstraints \cup {"ca", "code-sign", "target", "pfx", "key-type", "validity", "hostnames"}

Uses(a) ==
  openYubiKey(a) \cup
  CASE Mode(a) = "root" -> certificateArgs(a) \cup RootFlags \cup {"yubikey-generate-root", "public-certificate"}
    [] Mode(a) = "spec" -> generateAndLogResults(a) \cup {"spec"}
    [] Mode(a) = "chain" -> generateAndLogResults(a) \cup {"chain", "common-name", "organization", "name-prefix"}
    [] Mode(a) = "export" -> argsToSpec \cup {"export-spec"}
    [] Mode(a) = "single" -> certificateArgs(a) \cup {"yubikey", "encrypt-to", "public-certificate", "private-key"}

\* What --scenario uses before it goes on like --spec.  ScenarioSpec has the
\* YubiKey's root left out of the hierarchy.
ScenarioUses(a) ==
  {"scenario", "organization", "subject", "yubikey"} \cup (UNION {TemplateUses(s) : s \in a.scenarios}) \cup
  (IF Has(a, "export-spec") THEN {"export-spec"} ELSE Uses(AsSpec(a)) \ {"spec"})
=============================================================================
