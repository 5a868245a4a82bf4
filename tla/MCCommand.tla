----------------------------- MODULE MCCommand -----------------------------
(* Instances of Command.                                                   *)
EXTENDS Command

\* One scenario again and again: with other options, with --overwrite, on a
\* YubiKey, with an option that is refused late; from the spec it wrote.
With(a, flags) == [a EXCEPT !.given = @ \cup flags]
Other(a, inputs) == [a EXCEPT !.other = inputs]
Options(flags) == With(NoArgs, flags)
ScenariosOf(scenarios, flags) == [Options({"scenario", "organization"} \cup flags) EXCEPT !.scenarios = scenarios]
web == ScenariosOf({"web"}, {"hostnames"})
Sequel ==
  {web, With(web, {"validity", "overwrite"}), With(web, {"yubikey"}), With(web, {"yubikey-pin"}),
   [Options({"spec", "yubikey", "yubikey-serial"}) EXCEPT !.scenarios = {"web"}],
   Options({"yubikey-generate-root", "yubikey-serial"})}

\* Inputs with other values, which reuse compares or not: of what signs code, of a
\* server, of clients with a CA above them and without, of one scenario beside another.
signing == ScenariosOf({"code-sign"}, {})
Signing == {signing, With(signing, {"target"}), Other(With(signing, {"target", "overwrite"}), {"target"}),
            Other(signing, {"organization"})}
local == ScenariosOf({"local-dev"}, {"hostnames"})
Servers == {local, Other(local, {"hostnames"}), Other(local, {"hostnames", "first-hostname"}),
            ScenariosOf({"local-dev"}, {"overwrite"})}
mtls == ScenariosOf({"mtls"}, {"hostnames", "clients"})
Below == {mtls, Other(mtls, {"clients"}), Other(With(mtls, {"overwrite"}), {"clients"}), Other(mtls, {"hostnames"})}
ssh == ScenariosOf({"ssh"}, {"clients"})
Alone == {ssh, With(ssh, {"hostnames"}), Other(With(ssh, {"overwrite"}), {"clients"})}
both == ScenariosOf({"web", "code-sign"}, {"hostnames"})
Beside == {web, both, Other(With(both, {"target", "overwrite"}), {"hostnames"})}

\* A root CA that is replaced, or only its key, between commands it signs for.
root == Options({"yubikey-generate-root", "yubikey-overwrite"})
Roots == {With(signing, {"yubikey"}), With(web, {"yubikey"}), root,
          [With(root, {"permitted-dns-domains"}) EXCEPT !.bad = {"permitted-dns-domains"}],
          Options({"yubikey"})}

\* Each mode with up to two more options, a chain with one more, two scenarios
\* with one more, and any of the options malformed.
Survey(given, scenarios) ==
  [given : given, scenarios : scenarios, other : {{}},
   bad : {{}} \cup {{f} : f \in IF scenarios = {{}} THEN Parsed ELSE Parsed \cup Text}]
Modes == {{}, {"spec"}, {"export-spec"}, {"yubikey"}, {"yubikey-generate-root"}}
Single == Survey({m \cup {f, g} : m \in Modes, f, g \in Flag \ {"scenario", "chain"}}, {{}})
Chains ==
  Survey({{"chain", f} : f \in Flag \ {"scenario"}} \cup
           {{"chain"} \cup names : names \in SUBSET {"common-name", "organization", "name-prefix"}}, {{}})
Scenarios == Survey({{"scenario", f, g} : f, g \in Flag}, {{s} : s \in Scenario})
TwoScenarios ==
  Survey({{"scenario", "hostnames", "clients", f} : f \in Flag}, {{"mtls", "proxy"}})
Opening == {Options({"spec", "yubikey"}), Options({"spec", "yubikey", "yubikey-serial"})}

\* Chains of one to four layers, names that are almost those of a CA, and names
\* without a letter that slugify keeps.
Lists == {<<0>>, <<1, 0>>, <<3>>, <<1, 1>>, <<2, 1>>, <<2, 2>>, <<1, 1, 1>>, <<1, 2, 1>>, <<2, 1, 2>>, <<1, 1, 1, 2>>}
Leaves ==
  {<<>>, Phrase(<<"svc">>), Phrase(<<"~">>), Phrase(<<"Org", "Root", "CA">>), Phrase(<<"org", "root", "ca">>),
   Phrase(<<"Org", "Root", "CA", "1">>), Phrase(<<"Org", "Intermediate", "CA">>),
   Phrase(<<"Certtool", "Intermediate", "2", "CA">>)}
Firms == {DefaultOrganization, <<>>, Phrase(<<"Org">>), Phrase(<<"~">>)}
NamePrefixValues == {<<>>, Phrase(<<"prod">>)}
Lower == [Org |-> "org", Root |-> "root", Intermediate |-> "intermediate", CA |-> "ca", Certtool |-> "certtool"]
Dropped == {"~"}
Decimal(n) == ToString(n)

\* Each instance of Command has its own hard part: commands that follow one
\* another and users who edit; YubiKeys that are plugged in and taken; options.
VARIABLE part
Sequels == [sequel |-> Sequel, signing |-> Signing, servers |-> Servers, below |-> Below, alone |-> Alone,
            beside |-> Beside, roots |-> Roots]
Parts == [opening |-> Opening, single |-> Single, chains |-> Chains, scenarios |-> Scenarios, two |-> TwoScenarios]
         @@ Sequels
OneCard(s) == [r \in Reader |-> IF r = CHOOSE q \in Reader : TRUE THEN s ELSE NoYubiKey]
MCInit ==
  /\ Init /\ part \in DOMAIN Parts
  /\ part # "opening" => inReader = OneCard(CHOOSE s \in Serial : TRUE) /\ taken = {}
  /\ IF part \in DOMAIN Sequels THEN roots \subseteq {s \in Serial : \E r \in Reader : inReader[r] = s} ELSE roots = Serial
MCNext ==
  /\ \/ (commands = 0 \/ part \in DOMAIN Sequels) /\ pc = "idle" /\ \E a \in Parts[part] : Run(a)
     \/ CommandStep
     \/ part \in DOMAIN Sequels /\ User
     \/ part = "opening" /\ Others /\ UNCHANGED <<process, files, slots, history>>
  /\ part \in DOMAIN Sequels =>     \* users edit specs in the first, and delete files in all
       \A c \in specs' : (part = "sequel" \/ c.edit = "none") /\ \E a \in Sequels[part] : c.scenarios = a.scenarios
  /\ part \in DOMAIN Sequels => disturbed' = {}     \* the readers work
  /\ UNCHANGED part
MCSpec == MCInit /\ [][MCNext]_<<vars, part>>
=============================================================================
