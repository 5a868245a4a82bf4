--------------------------- MODULE CommandProofs ---------------------------
(***************************************************************************)
(* For any flags, scenarios, YubiKeys and bounds, after any earlier        *)
(* commands: a command connects to YubiKeys only the way Readers says, so  *)
(* what ReadersProofs shows of Open holds in every command; it holds one   *)
(* YubiKey at most and none after its end; it never writes over an edited  *)
(* spec unasked; when it is refused it has changed nothing but a           *)
(* scenario's spec; the certificates of a scenario agree with its options  *)
(* in all that reuse compares; what it was given is used, and what it uses *)
(* is checked before it makes anything, but for two options that are       *)
(* looked at late; and a --scenario command that has succeeded succeeds    *)
(* again and changes nothing.                                              *)
(*                                                                         *)
(* CommandInv ties the position of the command to the steps of Open, and   *)
(* says what it knows between looking for the scenario's spec and writing  *)
(* it.  OptionsInv says what the options became before they were checked,  *)
(* CertsInv which spec and which issuer they lead to, AcceptedInv what is  *)
(* established about them at each position; the lemmas before it are about *)
(* the operators of Options: that these facts leave no option unused and   *)
(* none unchecked.  SettledInv says what the files of a command that has   *)
(* succeeded stay, so that the same options find their way through every   *)
(* check again.                                                            *)
(***************************************************************************)
EXTENDS Command, ReadersProofs

Searching == {"list", "probe", "read", "close", "reopen"}
BeforeCards == {"idle", "scenario", "look", "write", "modes", "open"}

CardsByPosition ==
  /\ at \in Searching => pc = "opening"
  /\ pc \in BeforeCards => at # "open"

\* Between the look and the write the options are still those given.
LookedFirst ==
  /\ pc \in {"scenario", "look", "write"} => args = started
  /\ pc = "write" => looked = "absent" \/ (looked = "different" /\ Has(args, "overwrite"))

CommandInv == edits \in Nat /\ CardsByPosition /\ LookedFirst

-----------------------------------------------------------------------------
(* Every step is a step of Readers or leaves the readers alone.            *)

LEMMA StepOfReaders == [Next]_vars => [ReadersNext]_readerVars
<1> SUFFICES ASSUME [Next]_vars PROVE [ReadersNext]_readerVars
  OBVIOUS
<1> USE DEF Return, Step
<1>1. ASSUME NEW a \in Args, Run(a) PROVE UNCHANGED readerVars
  BY <1>1 DEF Run
<1>2. CASE runScenario
  BY <1>2 DEF runScenario
<1>3. CASE LookAtSpec
  BY <1>3 DEF LookAtSpec
<1>4. CASE WriteSpec
  BY <1>4 DEF WriteSpec
<1>5. CASE RunModes
  BY <1>5 DEF RunModes
<1>6. CASE openYubiKeyStarts
  BY <1>6 DEF openYubiKeyStarts, ReadersNext
<1>7. CASE yubikeyOpen
  BY <1>7 DEF yubikeyOpen, ReadersNext
<1>8. CASE openYubiKeyReturns
  BY <1>8 DEF openYubiKeyReturns
<1>9. CASE Issuer
  BY <1>9 DEF Issuer
<1>10. CASE keyEncryption
  BY <1>10 DEF keyEncryption
<1>11. CASE ReadSpec
  BY <1>11 DEF ReadSpec
<1>12. ASSUME NEW c \in ChainCall, runChain(c) PROVE UNCHANGED readerVars
  BY <1>12 DEF runChain
<1>13. CASE ExportSpec
  BY <1>13 DEF ExportSpec
<1>14. CASE GenerateSome
  BY <1>14 DEF GenerateSome
<1>15. CASE GenerateRest
  BY <1>15 DEF GenerateRest
<1>16. CASE generateKeyPair
  BY <1>16 DEF generateKeyPair
<1>17. CASE GenerateKey \/ SetCertificate
  BY <1>17 DEF GenerateKey, SetCertificate
<1>18. CASE WriteCertificate
  BY <1>18 DEF WriteCertificate
<1>19. CASE closeYubiKey
  BY <1>19 DEF closeYubiKey, ReadersNext
<1>20. CASE Fails
  BY <1>20 DEF Fails
<1>21. CASE Kill
  BY <1>21 DEF Kill, ReadersNext
<1>22. CASE User
  BY <1>22 DEF User, DeleteSpec, EditSpec, WriteOwnSpec, DeleteCertificates, Edits
<1>23. CASE Others /\ UNCHANGED <<process, files, slots, history>>
  BY <1>23 DEF ReadersNext
<1>24. CASE UNCHANGED vars
  BY <1>24 DEF vars
<1> QED
  BY <1>1, <1>2, <1>3, <1>4, <1>5, <1>6, <1>7, <1>8, <1>9, <1>10, <1>11, <1>12, <1>13, <1>14, <1>15, <1>16, <1>17,
    <1>18, <1>19, <1>20, <1>21, <1>22, <1>23, <1>24 DEF Next, CommandStep

\* Whatever a command does, it opens and closes YubiKeys as yubikey.Open and
\* Token.Close do (certtool.go:363): what holds of Readers holds of it.
THEOREM ImplementsReaders == Spec => ReadersSpec
<1>1. Init => ReadersInit
  BY DEF Init
<1> QED
  BY <1>1, StepOfReaders, PTL DEF Spec, ReadersSpec

\* In every command, the YubiKey that is open is the one asked for, or the only one
\* (yubikey_piv.go:110).
THEOREM CommandOpensRightCard == Spec => []RightCard
BY ImplementsReaders, OpensRightCard, PTL

\* A command that gets no YubiKey is told so for a reason (yubikey_piv.go:136).
THEOREM CommandRefusesForCause == Spec => []OpenRefusedForCause
BY ImplementsReaders, RefusesForCause, PTL

-----------------------------------------------------------------------------
(* What the command knows, action by action.                               *)

LEMMA CommandInit == Init => CommandInv
BY DEF Init, ReadersInit, CommandInv, CardsByPosition, LookedFirst, Searching, BeforeCards

LEMMA CommandInvStep == CommandInv /\ [Next]_vars => CommandInv'
<1> SUFFICES ASSUME CommandInv, [Next]_vars PROVE CommandInv'
  OBVIOUS
<1> USE DEF CommandInv, CardsByPosition, LookedFirst, Searching, BeforeCards
<1>1. ASSUME NEW a \in Args, Run(a) PROVE CommandInv'
  BY <1>1 DEF Run, readerVars, history
<1>2. CASE runScenario
  BY <1>2 DEF runScenario, Step, Return, readerVars, history
<1>3. CASE LookAtSpec
  BY <1>3 DEF LookAtSpec, Step, Return, readerVars, history
<1>4. CASE WriteSpec
  BY <1>4 DEF WriteSpec, Step, readerVars, history
<1>5. CASE RunModes
  BY <1>5 DEF RunModes, Step, Return, readerVars, history
<1>6. CASE openYubiKeyStarts
  BY <1>6 DEF openYubiKeyStarts, Open, readerVars, history
<1>7. CASE yubikeyOpen
  BY <1>7 DEF yubikeyOpen, process, OpenStep, readerVars, history
<1>8. CASE openYubiKeyReturns
  BY <1>8 DEF openYubiKeyReturns, Step, Return, readerVars, history
<1>9. CASE Issuer
  BY <1>9 DEF Issuer, Step, readerVars, history
<1>10. CASE keyEncryption
  BY <1>10 DEF keyEncryption, Step, Mode, readerVars, history
<1>11. CASE ReadSpec
  BY <1>11 DEF ReadSpec, Step, AfterSpec, readerVars, history
<1>12. ASSUME NEW c \in ChainCall, runChain(c) PROVE CommandInv'
  BY <1>12 DEF runChain, Step, Return, AfterSpec, readerVars, history
<1>13. CASE ExportSpec
  BY <1>13 DEF ExportSpec, Return, readerVars, history
<1>14. CASE GenerateSome
  BY <1>14 DEF GenerateSome, Step, readerVars, history
<1>15. CASE GenerateRest
  BY <1>15 DEF GenerateRest, Return, readerVars, history
<1>16. CASE generateKeyPair
  BY <1>16 DEF generateKeyPair, Return, readerVars, history
<1>17. CASE GenerateKey \/ SetCertificate
  BY <1>17 DEF GenerateKey, SetCertificate, Step, Return, readerVars, history
<1>18. CASE WriteCertificate
  BY <1>18 DEF WriteCertificate, Return, readerVars, history
<1>19. CASE closeYubiKey
  BY <1>19 DEF closeYubiKey, CloseToken, readerVars, history
<1>20. CASE Fails
  BY <1>20 DEF Fails, Return, readerVars, history
<1>21. CASE Kill
  BY <1>21 DEF Kill, Killed, readerVars, history
<1>22. CASE User
  <2>1. Edits
    BY <1>22 DEF User, DeleteSpec, EditSpec, WriteOwnSpec, DeleteCertificates
  <2> QED
    BY <2>1 DEF Edits, process, readerVars
<1>23. CASE Others /\ UNCHANGED <<process, files, slots, history>>
  BY <1>23 DEF Others, Take, Release, Swap, process, readerVars, history
<1>24. CASE UNCHANGED vars
  BY <1>24 DEF vars, process, readerVars, history
<1> QED
  BY <1>1, <1>2, <1>3, <1>4, <1>5, <1>6, <1>7, <1>8, <1>9, <1>10, <1>11, <1>12, <1>13, <1>14, <1>15, <1>16,
    <1>17, <1>18, <1>19, <1>20, <1>21, <1>22, <1>23, <1>24 DEF Next, CommandStep

LEMMA CommandInvariant == Spec => []CommandInv
BY CommandInit, CommandInvStep, PTL DEF Spec

\* The command holds one YubiKey at most, none before it needs one and none after
\* its end, however it ends (yubikey_piv.go:110, certtool.go:367).
THEOREM ReleasesCards == Spec => []CardReleased
<1>1. IInv /\ CommandInv => CardReleased
  <2> SUFFICES ASSUME IInv, CommandInv PROVE CardReleased
    OBVIOUS
  <2>1. \A c, d \in conn : c = d
    BY DEF IInv, SearchInv, Connected
  <2>2. pc \in BeforeCards => conn = {} /\ at # "open"
    BY DEF IInv, SearchInv, Connected, CommandInv, CardsByPosition, Searching, BeforeCards
  <2> QED
    BY <2>1, <2>2 DEF CardReleased, BeforeCards
<1>2. ReadersSpec => []IInv
  BY Invariant
<1> QED
  BY <1>1, <1>2, ImplementsReaders, CommandInvariant, PTL

LEMMA SpecsOnlyReplaced ==
  ASSUME CommandInv, [Next]_vars, specs' # specs
  PROVE  WriteSpec \/ edits' = edits + 1
BY DEF Next, CommandStep, vars, files, process, history, Run, runScenario, LookAtSpec, RunModes, openYubiKeyStarts, yubikeyOpen,
  openYubiKeyReturns, Issuer, keyEncryption, ReadSpec, runChain, ExportSpec, GenerateSome, GenerateRest, generateKeyPair,
  GenerateKey, SetCertificate, WriteCertificate, closeYubiKey, Fails, Kill, User, DeleteSpec, EditSpec, WriteOwnSpec,
  DeleteCertificates, Edits

\* "If the spec was edited, it stops and says to use --spec instead, so edits are
\* never lost" (docs/scenarios.md:13): only the user, --overwrite, or a command that
\* saw no spec when it looked (scenario.go:79) removes an edited spec.
THEOREM KeepsEdits == Spec => EditsKept
<1> DEFINE Kept == \A c \in specs \ specs' :
      c.edit # "none" => Has(started, "overwrite") \/ edits' # edits \/ (pc = "write" /\ looked = "absent")
<1>1. CommandInv /\ [Next]_vars => [Kept]_vars
  <2> SUFFICES ASSUME CommandInv, [Next]_vars, specs' # specs, edits' = edits
               PROVE  Kept
    BY DEF CommandInv
  <2>1. WriteSpec
    BY SpecsOnlyReplaced DEF CommandInv
  <2> QED
    BY <2>1 DEF WriteSpec, CommandInv, LookedFirst
<1>2. Spec => [][Kept]_vars
  BY <1>1, CommandInvariant, PTL DEF Spec
<1> QED
  BY <1>2 DEF EditsKept

-----------------------------------------------------------------------------
(* A refused command.                                                      *)

\* Until the options are checked nothing but the scenario's spec is written.
OptionsInv ==
  /\ started \in Args
  /\ pc \in {"scenario", "look", "write"} => Has(started, "scenario") /\ effects = {}
  /\ pc \in {"look", "write"} => validateScenario(started) /\ ~Has(started, "export-spec")
  /\ pc = "modes" =>
       IF Has(started, "scenario")
       THEN /\ validateScenario(started) /\ ~Has(started, "export-spec")
            /\ args = AsSpec(started) /\ effects \subseteq {"spec"}
       ELSE args = started /\ effects = {}
  /\ outcome = "refused" => pc = "idle"
  /\ RefusedHarmless

\* validateModes refuses what a --scenario command has become for one reason only.
LEMMA ScenarioRefused ==
  ASSUME NEW a \in Args, Has(a, "scenario"), validateScenario(a), ~Has(a, "export-spec"), ~validateModes(AsSpec(a))
  PROVE  Given(a, YubiKeyFlags) /\ ~Given(a, {"yubikey", "age-yubikey"})
<1> DEFINE b == AsSpec(a)
<1>1. /\ Has(b, "spec")
      /\ \A f \in a.given :
           f \in b.given \/ f \in {"scenario", "hostnames", "clients", "target", "key-type", "validity"}
  BY DEF AsSpec, Has, Args
<1>2. \A f \in b.given : f = "spec" \/ f \in a.given
  BY DEF AsSpec, Args
<1>3. \A f \in NeverUsed : f = "spec" \/ f \notin b.given
  BY <1>2 DEF validateScenario, Given
<1>4. "export-spec" \notin b.given
  BY <1>2 DEF Has
<1>5. Given(b, YubiKeyFlags) /\ ~Given(b, {"yubikey", "yubikey-generate-root", "age-yubikey"})
  <2> SUFFICES ASSUME Given(b, YubiKeyFlags) => Given(b, {"yubikey", "yubikey-generate-root", "age-yubikey"})
               PROVE  validateModes(b)
    OBVIOUS
  <2> HIDE DEF b
  <2>1. HasSpec(b) /\ ~ForRoot(b) /\ ~Has(b, "chain")
    BY <1>1, <1>3 DEF HasSpec, Given, Has, ForRoot, NeverUsed
  <2>2. ~Given(b, CAConstraints) /\ ~Given(b, ParentFlags) /\ ~Given(b, RootFlags)
    BY <1>3 DEF Given, NeverUsed, CAConstraints, ParentFlags, RootFlags
  <2>3. validateEncryption(b)
    BY <1>4, <2>1 DEF validateEncryption, Has
  <2>4. ~Has(b, "parent-public-certificate") /\ ~Has(b, "parent-private-key")
    BY <2>2 DEF Has, Given, ParentFlags
  <2> QED
    BY <2>1, <2>2, <2>3, <2>4 DEF validateModes
<1> QED
  BY <1>1, <1>2, <1>5 DEF Given, YubiKeyFlags

LEMMA OptionsInit == Init => OptionsInv
BY DEF Init, NoArgs, Args, OptionsInv, RefusedHarmless

LEMMA OptionsStep == CommandInv /\ OptionsInv /\ [Next]_vars => OptionsInv'
<1> SUFFICES ASSUME CommandInv, OptionsInv, [Next]_vars PROVE OptionsInv'
  OBVIOUS
<1> USE DEF OptionsInv, RefusedHarmless
<1>1. ASSUME NEW a \in Args, Run(a) PROVE OptionsInv'
  BY <1>1 DEF Run
<1>2. CASE runScenario
  BY <1>2 DEF runScenario, Step, Return, CommandInv, CardsByPosition, LookedFirst, BeforeCards
<1>3. CASE LookAtSpec
  BY <1>3 DEF LookAtSpec, Step, Return, CommandInv, CardsByPosition, LookedFirst, BeforeCards
<1>4. CASE WriteSpec
  BY <1>4 DEF WriteSpec, Step, CommandInv, LookedFirst
<1>5. CASE RunModes
  BY <1>5, ScenarioRefused DEF RunModes, Step, Return, CommandInv, CardsByPosition, BeforeCards
<1>6. CASE openYubiKeyStarts
  BY <1>6 DEF openYubiKeyStarts, Open
<1>7. CASE yubikeyOpen
  BY <1>7 DEF yubikeyOpen, process, OpenStep
<1>8. CASE openYubiKeyReturns
  BY <1>8 DEF openYubiKeyReturns, Step, Return
<1>9. CASE Issuer
  BY <1>9 DEF Issuer, Step
<1>10. CASE keyEncryption
  BY <1>10 DEF keyEncryption, Step, Mode
<1>11. CASE ReadSpec
  BY <1>11 DEF ReadSpec, Step, AfterSpec
<1>12. ASSUME NEW c \in ChainCall, runChain(c) PROVE OptionsInv'
  BY <1>12 DEF runChain, Step, Return, AfterSpec
<1>13. CASE ExportSpec
  BY <1>13 DEF ExportSpec, Return
<1>14. CASE GenerateSome
  BY <1>14 DEF GenerateSome, Step
<1>15. CASE GenerateRest
  BY <1>15 DEF GenerateRest, Return
<1>16. CASE generateKeyPair
  BY <1>16 DEF generateKeyPair, Return
<1>17. CASE GenerateKey \/ SetCertificate
  BY <1>17 DEF GenerateKey, SetCertificate, Step, Return
<1>18. CASE WriteCertificate
  BY <1>18 DEF WriteCertificate, Return
<1>19. CASE closeYubiKey
  BY <1>19 DEF closeYubiKey, CloseToken
<1>20. CASE Fails
  BY <1>20 DEF Fails, Return
<1>21. CASE Kill
  BY <1>21 DEF Kill, Killed
<1>22. CASE User
  BY <1>22 DEF User, DeleteSpec, EditSpec, WriteOwnSpec, DeleteCertificates, Edits, process
<1>23. CASE Others /\ UNCHANGED <<process, files, slots, history>>
  BY <1>23 DEF Others, Take, Release, Swap, process
<1>24. CASE UNCHANGED vars
  BY <1>24 DEF vars, process
<1> QED
  BY <1>1, <1>2, <1>3, <1>4, <1>5, <1>6, <1>7, <1>8, <1>9, <1>10, <1>11, <1>12, <1>13, <1>14, <1>15, <1>16,
    <1>17, <1>18, <1>19, <1>20, <1>21, <1>22, <1>23, <1>24 DEF Next, CommandStep

LEMMA OptionsInvariant == Spec => []OptionsInv
BY OptionsInit, OptionsStep, CommandInvariant, PTL DEF Spec

\* A refused command has changed nothing, except that a --scenario command with
\* options of a YubiKey and no YubiKey has written its spec (scenario.go:64,
\* certtool.go:275).
THEOREM RefusesHarmlessly == Spec => []RefusedHarmless
<1>1. OptionsInv => RefusedHarmless
  BY DEF OptionsInv
<1> QED
  BY <1>1, OptionsInvariant, PTL

-----------------------------------------------------------------------------
(* The types, and one spec file for each choice of scenarios.              *)

Positions ==
  {"idle", "scenario", "look", "write", "modes", "open", "opening", "issuer", "keys", "spec", "chain",
   "export", "generate", "generating", "single", "root", "selfsign", "certificate", "close"}

ProcessTypes ==
  /\ pc \in Positions /\ args \in Args /\ started \in Args /\ outcome \in Outcomes
  /\ looked \in {"none", "same", "absent", "different"} /\ body \in Body
  /\ issuer \in Serial \cup {NoYubiKey} /\ effects \subseteq Effects

OneSpecEach == \A c, d \in specs : c.scenarios = d.scenarios => c = d
FileTypes ==
  /\ specs \subseteq Body /\ OneSpecEach
  /\ made \subseteq Origin /\ whole \subseteq Body /\ orphaned \subseteq roots /\ roots \subseteq Serial

HistoryTypes ==
  /\ settled \in Args /\ edited \in BOOLEAN
  /\ commands \in 0..MaxCommands /\ edits \in 0..MaxEdits

CommandTypes == ProcessTypes /\ FileTypes /\ HistoryTypes

LEMMA AsSpecTyped == \A a \in Args : AsSpec(a) \in Args
BY DEF AsSpec, Args, Flag

LEMMA SpecOfTyped == \A a \in Args : SpecOf(a) \in Body /\ SpecOf(a).scenarios = a.scenarios
<1>1. ASSUME NEW a \in Args PROVE a.scenarios \in SUBSET Scenario /\ a.other \in SUBSET Input /\ InputsGiven(a) \in SUBSET Input
  BY DEF Args, InputsGiven, Input
<1> QED
  BY <1>1 DEF SpecOf, Body, Edit

LEMMA NewTyped == CommandTypes => New \subseteq Origin
<1> SUFFICES ASSUME CommandTypes, NEW n \in New PROVE n \in Origin
  OBVIOUS
<1>1. PICK e \in Entries(body) : n = [entry |-> e, body |-> body, issuer |-> issuer, current |-> TRUE]
  BY DEF New
<1>2. e \in Entry /\ body \in Body /\ issuer \in Serial \cup {NoYubiKey}
  BY DEF Entries, CommandTypes, ProcessTypes
<1> QED
  BY <1>1, <1>2 DEF Origin

\* A certificate that is left beside new ones stays what it was, or is no longer
\* signed by what is there.
LEMMA KeptOrigin ==
  ASSUME NEW kept, NEW new, NEW o \in Renewed(kept, new), o \notin new
  PROVE  \E k \in kept, still \in BOOLEAN : o = [k EXCEPT !.current = still]
<1>1. PICK k \in kept :
        o = [k EXCEPT !.current = @ /\ ~\E n \in new : Issues(n.entry, k.entry) /\ \A l \in kept : l.entry # n.entry]
  BY DEF Renewed
<1> DEFINE still == k.current /\ ~\E n \in new : Issues(n.entry, k.entry) /\ \A l \in kept : l.entry # n.entry
<1>2. still \in BOOLEAN
  OBVIOUS
<1> QED
  BY <1>1, <1>2

LEMMA RenewedTyped ==
  ASSUME NEW kept \in SUBSET Origin, NEW new \in SUBSET Origin
  PROVE  Renewed(kept, new) \subseteq Origin
<1> SUFFICES ASSUME NEW o \in Renewed(kept, new), o \notin new PROVE o \in Origin
  OBVIOUS
<1>1. PICK k \in kept, still \in BOOLEAN : o = [k EXCEPT !.current = still]
  BY KeptOrigin
<1> QED
  BY <1>1 DEF Origin

LEMMA NothingTyped == NoArgs \in Args /\ NoBody \in Body
<1>1. {} \in SUBSET Flag /\ {} \in SUBSET Scenario /\ {} \in SUBSET Input
  OBVIOUS
<1> QED
  BY <1>1 DEF NoArgs, Args, NoBody, Body, Edit

LEMMA CommandTypesInit == Init => CommandTypes
<1> SUFFICES ASSUME Init PROVE CommandTypes
  OBVIOUS
<1>1. ProcessTypes
  BY NothingTyped DEF Init, ProcessTypes, Positions, Outcomes, Effects
<1>2. FileTypes
  BY DEF Init, FileTypes, OneSpecEach
<1>3. edited \in BOOLEAN
  BY DEF Init
<1>4. commands \in 0..MaxCommands /\ edits \in 0..MaxEdits
  BY CommandAssumption DEF Init
<1>5. settled \in Args
  BY NothingTyped DEF Init
<1> QED
  BY <1>1, <1>2, <1>3, <1>4, <1>5 DEF CommandTypes, HistoryTypes

\* The file that is written takes the place of the one with its name.
LEMMA WriteSpecTyped == CommandTypes /\ WriteSpec => CommandTypes'
<1> SUFFICES ASSUME CommandTypes, WriteSpec PROVE CommandTypes'
  OBVIOUS
<1>1. SpecOf(args) \in Body /\ SpecOf(args).scenarios = args.scenarios /\ AsSpec(args) \in Args
  BY AsSpecTyped, SpecOfTyped DEF CommandTypes, ProcessTypes
<1>2. ProcessTypes'
  BY <1>1 DEF WriteSpec, Step, CommandTypes, ProcessTypes, Positions, Effects
<1>3. OneSpecEach'
  BY <1>1 DEF WriteSpec, SpecAt, CommandTypes, FileTypes, OneSpecEach
<1>4. FileTypes'
  BY <1>1, <1>3 DEF WriteSpec, slots, CommandTypes, FileTypes
<1> QED
  BY <1>2, <1>4 DEF WriteSpec, Step, CommandTypes, HistoryTypes

\* A user's edit leaves the scenarios a spec is for, and a user's own spec is
\* written where there is none.
LEMMA UserTyped == CommandTypes /\ User => CommandTypes'
<1> SUFFICES ASSUME CommandTypes, User PROVE CommandTypes'
  OBVIOUS
<1>1. HistoryTypes' /\ ProcessTypes'
  <2>1. Edits
    BY DEF User, DeleteSpec, EditSpec, WriteOwnSpec, DeleteCertificates
  <2>2. edited' \in BOOLEAN
    BY <2>1 DEF Edits
  <2>3. commands' \in 0..MaxCommands /\ edits' \in 0..MaxEdits
    BY <2>1, CommandAssumption DEF Edits, CommandTypes, HistoryTypes
  <2> QED
    BY <2>1, <2>2, <2>3, NothingTyped DEF Edits, process, CommandTypes, HistoryTypes, ProcessTypes
<1>2. ASSUME NEW c \in specs, DeleteSpec(c) PROVE FileTypes'
  BY <1>2 DEF DeleteSpec, Edits, slots, CommandTypes, FileTypes, OneSpecEach
<1>3. ASSUME NEW c \in specs, NEW e \in {"compared", "uncompared"}, EditSpec(c, e) PROVE FileTypes'
  <2> DEFINE d == [c EXCEPT !.edit = e]
  <2>1. d \in Body /\ d.scenarios = c.scenarios
    BY DEF CommandTypes, FileTypes, Body, Edit
  <2> HIDE DEF d
  <2>2. specs' = (specs \ {c}) \cup {d} /\ UNCHANGED <<made, whole, roots, orphaned>>
    BY <1>3 DEF EditSpec, Edits, slots, d
  <2> QED
    BY <2>1, <2>2 DEF CommandTypes, FileTypes, OneSpecEach
<1>4. ASSUME NEW scenarios \in SUBSET Scenario, WriteOwnSpec(scenarios) PROVE FileTypes'
  <2> DEFINE d == [NoBody EXCEPT !.scenarios = scenarios, !.edit = "compared"]
  <2>1. d \in Body /\ d.scenarios = scenarios
    BY DEF NoBody, Body, Edit
  <2> HIDE DEF d
  <2>2. specs' = specs \cup {d} /\ SpecAt(scenarios) = {} /\ UNCHANGED <<made, whole, roots, orphaned>>
    BY <1>4 DEF WriteOwnSpec, Edits, slots, d
  <2> QED
    BY <2>1, <2>2 DEF SpecAt, CommandTypes, FileTypes, OneSpecEach
<1>5. ASSUME NEW o \in made, DeleteCertificates(o) PROVE FileTypes'
  BY <1>5 DEF DeleteCertificates, Edits, slots, CommandTypes, FileTypes, OneSpecEach
<1> QED
  BY <1>1, <1>2, <1>3, <1>4, <1>5 DEF User, CommandTypes

LEMMA CommandTypesStep == ReadersTypeOK /\ CommandTypes /\ [Next]_vars => CommandTypes'
<1> SUFFICES ASSUME ReadersTypeOK, CommandTypes, [Next]_vars PROVE CommandTypes'
  OBVIOUS
<1> USE CommandAssumption
    DEF CommandTypes, ProcessTypes, FileTypes, HistoryTypes, Positions, OneSpecEach, Step, Return, Outcomes, files, slots, history
<1>1. ASSUME NEW a \in Args, Run(a) PROVE CommandTypes'
  <2>1. edited' \in BOOLEAN
    BY <1>1 DEF Run
  <2>2. commands' \in 0..MaxCommands
    BY <1>1 DEF Run
  <2> QED
    BY <1>1, <2>1, <2>2, NothingTyped DEF Run
<1>2. CASE runScenario
  BY <1>2 DEF runScenario
<1>3. CASE LookAtSpec
  BY <1>3, AsSpecTyped DEF LookAtSpec
<1>4. CASE WriteSpec
  BY <1>4, WriteSpecTyped
<1>5. CASE RunModes
  BY <1>5 DEF RunModes
<1>6. CASE openYubiKeyStarts
  BY <1>6 DEF openYubiKeyStarts
<1>7. CASE yubikeyOpen
  BY <1>7 DEF yubikeyOpen, process
<1>8. CASE openYubiKeyReturns
  BY <1>8 DEF openYubiKeyReturns
<1>9. CASE Issuer
  <2>1. issuer' \in Serial
    BY <1>9 DEF Issuer, Inserted
  <2> QED
    BY <1>9, <2>1 DEF Issuer
<1>10. CASE keyEncryption
  BY <1>10 DEF keyEncryption, Mode
<1>11. CASE ReadSpec
  BY <1>11 DEF ReadSpec, AfterSpec, SpecAt
<1>12. ASSUME NEW c \in ChainCall, runChain(c) PROVE CommandTypes'
  <2>1. body' \in Body
    BY <1>12, NothingTyped DEF runChain
  <2> QED
    BY <1>12, <2>1 DEF runChain, AfterSpec
<1>13. CASE ExportSpec
  BY <1>13 DEF ExportSpec, Effects
<1>14. CASE GenerateSome
  <2>1. PICK new \in SUBSET New :
          /\ made' = Renewed(made, new) \/ made' = Renewed(Without({n.entry : n \in new}), new)
          /\ whole' \subseteq whole
    BY <1>14 DEF GenerateSome, OtherSpecs
  <2>2. new \in SUBSET Origin /\ Without({n.entry : n \in new}) \in SUBSET Origin
    BY NewTyped DEF Without
  <2>3. made' \subseteq Origin
    BY <2>1, <2>2, RenewedTyped
  <2> QED
    BY <1>14, <2>1, <2>3 DEF GenerateSome, Effects
<1>15. CASE GenerateRest
  <2>1. New \in SUBSET Origin /\ Without(Entries(body)) \in SUBSET Origin
    BY NewTyped DEF Without
  <2>2. made' \subseteq Origin
    BY <1>15, <2>1, RenewedTyped DEF GenerateRest, Reuse
  <2>3. whole' \subseteq whole \cup {body}
    BY <1>15 DEF GenerateRest, Reuse, OtherSpecs
  <2> QED
    BY <1>15, <2>2, <2>3 DEF GenerateRest
<1>16. CASE generateKeyPair
  BY <1>16 DEF generateKeyPair, Effects
<1>17. CASE GenerateKey \/ SetCertificate
  <2>1. CASE GenerateKey
    BY <2>1 DEF GenerateKey, Effects
  <2>2. CASE SetCertificate
    <3>1. orphaned' \subseteq roots' /\ roots' \subseteq Serial
      BY <2>2 DEF SetCertificate, Inserted
    <3>2. PICK s : made' = {[o EXCEPT !.current = @ /\ o.issuer # s] : o \in made}
      BY <2>2 DEF SetCertificate
    <3>3. ASSUME NEW o \in made PROVE [o EXCEPT !.current = @ /\ o.issuer # s] \in Origin
      BY DEF Origin
    <3>4. made' \subseteq Origin
      BY <3>2, <3>3
    <3> QED
      BY <2>2, <3>1, <3>4 DEF SetCertificate
  <2> QED
    BY <1>17, <2>1, <2>2
<1>18. CASE WriteCertificate
  BY <1>18 DEF WriteCertificate, Effects
<1>19. CASE closeYubiKey
  BY <1>19 DEF closeYubiKey
<1>20. CASE Fails
  BY <1>20 DEF Fails
<1>21. CASE Kill
  BY <1>21 DEF Kill
<1>22. CASE User
  BY <1>22, UserTyped
<1>23. CASE Others /\ UNCHANGED <<process, files, slots, history>>
  BY <1>23 DEF process
<1>24. CASE UNCHANGED vars
  BY <1>24 DEF vars, process
<1> QED
  BY <1>1, <1>2, <1>3, <1>4, <1>5, <1>6, <1>7, <1>8, <1>9, <1>10, <1>11, <1>12, <1>13, <1>14, <1>15, <1>16,
    <1>17, <1>18, <1>19, <1>20, <1>21, <1>22, <1>23, <1>24 DEF Next, CommandStep

LEMMA TypesInvariant == Spec => [](ReadersTypeOK /\ CommandTypes)
BY TypeCorrect, ImplementsReaders, CommandTypesInit, CommandTypesStep, PTL DEF Spec

\* The types, and that no command, failure or edit makes two specs for one choice
\* of scenarios, whose file has one name (scenario.go:56).
THEOREM CommandTypeCorrect == Spec => []TypeOK
<1>1. ReadersTypeOK /\ CommandTypes => TypeOK
  BY DEF CommandTypes, ProcessTypes, FileTypes, HistoryTypes, Positions, OneSpecEach, TypeOK
<1> QED
  BY <1>1, TypesInvariant, PTL

-----------------------------------------------------------------------------
(* A scenario's certificates.                                              *)

Reading == {"modes", "open", "opening", "issuer", "keys", "spec"}
Signing == {"keys", "spec", "generate", "generating"}

\* A --scenario command that generates goes the way of --spec, with the options it
\* was given, and until a user interferes it reads the spec it found or wrote.
ScenarioInv ==
  Has(started, "scenario") =>
    /\ pc \notin {"root", "selfsign", "certificate", "chain", "single"}
    /\ pc \in Reading \cup Signing =>
         validateScenario(started) /\ ~Has(started, "export-spec") /\ args = AsSpec(started)
    /\ pc \in Reading /\ ~edited => SpecAt(started.scenarios) = {SpecOf(started)}
    /\ pc \in {"generate", "generating"} /\ ~edited => body = SpecOf(started)
    /\ pc = "issuer" => Has(started, "yubikey")
    /\ pc \in Signing => (issuer # NoYubiKey <=> Has(started, "yubikey"))

CertsInv ==
  /\ issuer # NoYubiKey => pc \notin BeforeCards \ {"idle"} /\ pc \notin {"opening", "issuer"}
  /\ outcome = "done" => pc \in {"idle", "close"}
  /\ "certs" \in effects => pc \in {"generating", "idle", "close"}
  /\ ScenarioInv /\ CertsFollowOptions

\* The options of --spec that a --scenario command goes on with.
LEMMA ScenarioGoesOn ==
  ASSUME NEW a \in Args, Has(a, "scenario"), validateScenario(a), ~Has(a, "export-spec")
  PROVE  /\ ~ForRoot(AsSpec(a)) /\ Mode(AsSpec(a)) = "spec" /\ AsSpec(a).scenarios = a.scenarios
         /\ SignsWithYubiKey(AsSpec(a)) <=> Has(a, "yubikey")
         /\ Has(AsSpec(a), "overwrite") <=> Has(a, "overwrite")
         /\ ~Has(AsSpec(a), "export-spec")
<1>1. ~ForRoot(AsSpec(a)) /\ Has(AsSpec(a), "spec") /\ ~Has(AsSpec(a), "chain")
  BY DEF validateScenario, Given, NeverUsed, ForRoot, Has, AsSpec, Args
<1>2. /\ ~Has(AsSpec(a), "export-spec")
      /\ Has(AsSpec(a), "overwrite") <=> Has(a, "overwrite")
      /\ Has(AsSpec(a), "yubikey") <=> Has(a, "yubikey")
  BY DEF Has, AsSpec, Args
<1>3. AsSpec(a).scenarios = a.scenarios
  BY DEF AsSpec, Args
<1>4. Mode(AsSpec(a)) = "spec"
  BY <1>1 DEF Mode, HasSpec, Given, Has
<1> QED
  BY <1>1, <1>2, <1>3, <1>4 DEF SignsWithYubiKey

LEMMA CertsInit == Init => CertsInv
BY DEF Init, CertsInv, ScenarioInv, CertsFollowOptions, NoArgs, Has, BeforeCards, Reading, Signing

\* What --overwrite leaves of the entries of a spec is what it has just made.
LEMMA ReplacedFits ==
  ASSUME made \subseteq Origin, NEW o \in Renewed(Without(Entries(body)), New), o.entry \in Entries(body)
  PROVE  o.body = body /\ Fits(o)
<1>1. CASE o \in New
  BY <1>1 DEF New, Fits
<1>2. CASE o \notin New
  <2>1. PICK k \in Without(Entries(body)), still \in BOOLEAN : o = [k EXCEPT !.current = still]
    BY <1>2, KeptOrigin
  <2>2. k \in Origin /\ k.entry \notin Entries(body)
    BY DEF Without
  <2>3. o.entry = k.entry
    BY <2>1, <2>2 DEF Origin
  <2> QED
    BY <2>2, <2>3
<1> QED
  BY <1>1, <1>2

LEMMA CertsStep == ReadersTypeOK /\ CommandTypes /\ CommandInv /\ OptionsInv /\ CertsInv /\ [Next]_vars => CertsInv'
<1> SUFFICES ASSUME ReadersTypeOK, CommandTypes, CommandInv, OptionsInv, CertsInv, [Next]_vars PROVE CertsInv'
  OBVIOUS
<1> USE DEF CertsInv, ScenarioInv, CertsFollowOptions, BeforeCards, Reading, Signing, SpecAt, files, history
<1>1. ASSUME NEW a \in Args, Run(a) PROVE CertsInv'
  BY <1>1 DEF Run
<1>2. CASE runScenario
  BY <1>2 DEF runScenario, Step, Return, OptionsInv, CommandInv, LookedFirst
<1>3. CASE LookAtSpec
  BY <1>3 DEF LookAtSpec, Step, Return, OptionsInv, CommandInv, LookedFirst, SpecAt
<1>4. CASE WriteSpec
  BY <1>4 DEF WriteSpec, Step, OptionsInv, CommandInv, LookedFirst, SpecAt, SpecOf
<1>5. CASE RunModes
  BY <1>5, ScenarioGoesOn DEF RunModes, Step, Return, OptionsInv, OpensYubiKey
<1>6. CASE openYubiKeyStarts
  BY <1>6 DEF openYubiKeyStarts, Open, SpecAt
<1>7. CASE yubikeyOpen
  BY <1>7 DEF yubikeyOpen, process, OpenStep, SpecAt, files
<1>8. CASE openYubiKeyReturns
  BY <1>8, ScenarioGoesOn DEF openYubiKeyReturns, Step, Return, OptionsInv, OpensYubiKey, SpecAt
<1>9. CASE Issuer
  BY <1>9, ReadersAssumption DEF Issuer, Inserted, Step, ReadersAssumption, SpecAt
<1>10. CASE keyEncryption
  BY <1>10, ScenarioGoesOn DEF keyEncryption, Step, Mode, OptionsInv, SpecAt
<1>11. CASE ReadSpec
  BY <1>11, ScenarioGoesOn DEF ReadSpec, Step, AfterSpec, OptionsInv, SpecAt
<1>12. ASSUME NEW c \in ChainCall, runChain(c) PROVE CertsInv'
  BY <1>12 DEF runChain, Step, Return, AfterSpec
<1>13. CASE ExportSpec
  BY <1>13 DEF ExportSpec, Return
<1>14. CASE GenerateSome
  BY <1>14 DEF GenerateSome, Step
<1>15. CASE GenerateRest
  <2>1. outcome' = "done" /\ pc' \in {"idle", "close"} /\ UNCHANGED <<started, issuer, edited, effects>>
    BY <1>15 DEF GenerateRest, Return
  <2>2. ASSUME Has(started, "scenario"), ~edited
        PROVE  /\ issuer # NoYubiKey <=> Has(started, "yubikey")
               /\ \A o \in made' : o.entry \in Entries(SpecOf(started)) =>
                    /\ Compared(o.entry, o.body) = Compared(o.entry, SpecOf(started))
                    /\ Has(started, "overwrite") => o.body = SpecOf(started)
                    /\ o.issuer = issuer /\ o.current
    <3>1. /\ body = SpecOf(started) /\ (Has(args, "overwrite") <=> Has(started, "overwrite"))
          /\ issuer # NoYubiKey <=> Has(started, "yubikey")
      BY <1>15, <2>2, ScenarioGoesOn DEF GenerateRest, OptionsInv
    <3>2. CASE Has(args, "overwrite")
      <4>1. made' = Renewed(Without(Entries(body)), New)
        BY <1>15, <3>2 DEF GenerateRest
      <4>2. ASSUME NEW o \in made', o.entry \in Entries(body) PROVE o.body = body /\ Fits(o)
        BY <4>1, <4>2, ReplacedFits DEF CommandTypes, FileTypes
      <4> QED
        BY <3>1, <4>2 DEF Fits
    <3>3. CASE ~Has(args, "overwrite")
      <4>1. \A o \in made' : o.entry \in Entries(body) => Fits(o)
        BY <1>15, <3>3 DEF GenerateRest, Reuse
      <4> QED
        BY <3>1, <3>3, <4>1 DEF Fits
    <3> QED
      BY <3>2, <3>3
  <2>3. CertsFollowOptions'
    BY <2>1, <2>2
  <2> QED
    BY <2>1, <2>3 DEF CommandInv
<1>16. CASE generateKeyPair
  BY <1>16 DEF generateKeyPair, Return
<1>17. CASE GenerateKey \/ SetCertificate
  BY <1>17 DEF GenerateKey, SetCertificate, Step, Return
<1>18. CASE WriteCertificate
  BY <1>18 DEF WriteCertificate, Return
<1>19. CASE closeYubiKey
  BY <1>19 DEF closeYubiKey, CloseToken
<1>20. CASE Fails
  BY <1>20 DEF Fails, Return
<1>21. CASE Kill
  BY <1>21 DEF Kill, Killed
<1>22. CASE User
  BY <1>22 DEF User, DeleteSpec, EditSpec, WriteOwnSpec, DeleteCertificates, Edits, process
<1>23. CASE Others /\ UNCHANGED <<process, files, slots, history>>
  BY <1>23 DEF Others, Take, Release, Swap, process, files, history, SpecAt
<1>24. CASE UNCHANGED vars
  BY <1>24 DEF vars, process, files, history, SpecAt
<1> QED
  BY <1>1, <1>2, <1>3, <1>4, <1>5, <1>6, <1>7, <1>8, <1>9, <1>10, <1>11, <1>12, <1>13, <1>14, <1>15, <1>16,
    <1>17, <1>18, <1>19, <1>20, <1>21, <1>22, <1>23, <1>24 DEF Next, CommandStep

LEMMA CertsInvariant == Spec => []CertsInv
BY TypesInvariant, CommandInvariant, OptionsInvariant, CertsInit, CertsStep, PTL DEF Spec

\* When a --scenario command has generated and no user has interfered, every
\* certificate of its spec agrees with its options in all that reuse compares
\* (spec.go:763), is exactly what they describe with --overwrite, and is signed by the
\* root CA that the YubiKey has now or by the spec's own.
THEOREM CertificatesFollowOptions == Spec => []CertsFollowOptions
<1>1. CertsInv => CertsFollowOptions
  BY DEF CertsInv
<1> QED
  BY <1>1, CertsInvariant, PTL

-----------------------------------------------------------------------------
(* No option that is accepted is ignored.                                  *)

\* A run of any mode but --scenario.
LEMMA ModeUsesGiven ==
  ASSUME NEW a \in Args, ~Has(a, "scenario"), validateModes(a)
  PROVE  Guarded(a) \subseteq Tolerated(a) \cup Uses(a)
<1> SUFFICES ASSUME NEW f \in Guarded(a) PROVE f \in Tolerated(a) \cup Uses(a)
  OBVIOUS
<1> USE DEF Given, Has
<1>0. f \in a.given
  BY DEF Guarded
<1>1. CASE f = "overwrite"
  <2>1. ~ForRoot(a) /\ Mode(a) \in {"spec", "chain"}
    BY <1>0, <1>1 DEF validateModes, HasSpec, ForRoot, Mode
  <2>2. f \in Tolerated(a) \/ f \in generateAndLogResults(a)
    BY <1>1 DEF Tolerated, generateAndLogResults
  <2> QED
    BY <2>1, <2>2 DEF Uses
<1>2. CASE f = "encrypt-to"
  <2>1. ~ForRoot(a) /\ "export-spec" \notin a.given
    BY <1>0, <1>2 DEF validateModes, validateEncryption
  <2>2. Mode(a) \in {"spec", "chain", "single"}
    BY <2>1 DEF Mode, ForRoot
  <2> QED
    BY <1>2, <2>1, <2>2 DEF Uses, generateAndLogResults
<1>3. CASE f \in CAConstraints
  <2>1. ~HasSpec(a)
    BY <1>0, <1>3 DEF validateModes
  <2>2. Mode(a) \in {"root", "export", "single"}
    BY <2>1 DEF Mode, HasSpec
  <2> QED
    BY <1>3, <2>2 DEF Uses, certificateArgs, argsToSpec
<1>4. CASE f \in RootFlags
  <2>1. Mode(a) = "root"
    BY <1>0, <1>4 DEF validateModes, Mode
  <2> QED
    BY <1>4, <2>1 DEF Uses
<1>5. CASE f \in YubiKeyFlags
  <2>1. Given(a, {"yubikey", "yubikey-generate-root", "age-yubikey"})
    BY <1>0, <1>5 DEF validateModes
  <2>2. f \in Tolerated(a) \/ f \in openYubiKey(a)
    <3>1. CASE "export-spec" \in a.given
      BY <1>5, <3>1 DEF Tolerated
    <3>2. CASE "export-spec" \notin a.given
      <4>1. OpensYubiKey(a)
        BY <2>1, <3>2 DEF OpensYubiKey, SignsWithYubiKey, ForRoot
      <4> QED
        BY <1>5, <3>2, <4>1 DEF Tolerated, openYubiKey, SignsWithYubiKey, YubiKeyFlags
    <3> QED
      BY <3>1, <3>2
  <2> QED
    BY <2>2 DEF Uses
<1>6. CASE f \in AgeIdentities
  <2>1. /\ ~ForRoot(a) /\ "export-spec" \notin a.given
        /\ "parent-private-key" \in a.given \/ HasSpec(a)
        /\ "parent-public-certificate" \in a.given <=> "parent-private-key" \in a.given
    BY <1>0, <1>6 DEF validateModes, validateEncryption
  <2>2. CASE HasSpec(a)
    <3>1. Mode(a) \in {"spec", "chain"}
      BY <2>1, <2>2 DEF Mode, HasSpec
    <3> QED
      BY <1>6, <2>1, <3>1 DEF Uses, generateAndLogResults, Tolerated
  <2>3. CASE ~HasSpec(a)
    <3>1. Mode(a) = "single"
      BY <2>1, <2>3 DEF Mode, HasSpec
    <3> QED
      BY <1>6, <2>1, <2>3, <3>1 DEF Uses, certificateArgs
  <2> QED
    BY <2>2, <2>3
<1> QED
  BY <1>1, <1>2, <1>3, <1>4, <1>5, <1>6 DEF Guarded

\* What --scenario goes on with as --spec, once validateModes has let it pass.
LEMMA ScenarioMode ==
  ASSUME NEW a \in Args, Has(a, "scenario"), validateScenario(a), ~Has(a, "export-spec"), validateModes(AsSpec(a))
  PROVE  /\ \A f : f \in ScenarioUses(a) <=>
                     \/ f \in {"scenario", "organization", "subject", "yubikey"}
                     \/ \E s \in a.scenarios : f \in TemplateUses(s)
                     \/ f # "spec" /\ (f \in openYubiKey(AsSpec(a)) \/ f \in generateAndLogResults(AsSpec(a)))
         /\ Given(a, YubiKeyFlags) => OpensYubiKey(AsSpec(a))
<1>1. /\ ~ForRoot(AsSpec(a)) /\ Mode(AsSpec(a)) = "spec" /\ ~Has(AsSpec(a), "export-spec")
      /\ SignsWithYubiKey(AsSpec(a)) <=> Has(a, "yubikey")
  BY ScenarioGoesOn
<1>2. Uses(AsSpec(a)) = openYubiKey(AsSpec(a)) \cup generateAndLogResults(AsSpec(a)) \cup {"spec"}
  BY <1>1 DEF Uses
<1>3. \A f \in YubiKeyFlags \cup {"yubikey", "age-yubikey"} : f \in AsSpec(a).given <=> f \in a.given
  BY DEF AsSpec, Args, YubiKeyFlags
<1>4. ASSUME Given(a, YubiKeyFlags) PROVE OpensYubiKey(AsSpec(a))
  <2>1. Given(AsSpec(a), YubiKeyFlags)
    BY <1>3, <1>4 DEF Given
  <2>2. Given(AsSpec(a), {"yubikey", "yubikey-generate-root", "age-yubikey"})
    BY <2>1 DEF validateModes
  <2> QED
    BY <1>1, <2>2 DEF OpensYubiKey, SignsWithYubiKey, ForRoot, Given, Has
<1>5. ScenarioUses(a) = {"scenario", "organization", "subject", "yubikey"}
                          \cup (UNION {TemplateUses(s) : s \in a.scenarios}) \cup (Uses(AsSpec(a)) \ {"spec"})
  BY Zenon DEF ScenarioUses
<1>6. \A f : f \in UNION {TemplateUses(s) : s \in a.scenarios} <=> \E s \in a.scenarios : f \in TemplateUses(s)
  OBVIOUS
<1>7. \A f : f \in Uses(AsSpec(a)) \ {"spec"} <=>
               f # "spec" /\ (f \in openYubiKey(AsSpec(a)) \/ f \in generateAndLogResults(AsSpec(a)))
  BY <1>2
<1> QED
  BY <1>4, <1>5, <1>6, <1>7

LEMMA ScenarioUsesGiven ==
  ASSUME NEW a \in Args, Has(a, "scenario"), validateScenario(a), ~Has(a, "export-spec"), validateModes(AsSpec(a))
  PROVE  Guarded(a) \subseteq Tolerated(a) \cup ScenarioUses(a)
<1> SUFFICES ASSUME NEW f \in Guarded(a) PROVE f \in Tolerated(a) \cup ScenarioUses(a)
  OBVIOUS
<1>1. f \in a.given /\ f \in Flag /\ f \notin {"key-type", "validity"} /\ f \notin NeverUsed /\ f # "export-spec"
  BY DEF Guarded, Args, validateScenario, Given, Has
<1>2. CASE f \in {"scenario", "organization", "subject", "yubikey"}
  BY <1>2 DEF ScenarioUses
<1>3. CASE f \in {"hostnames", "clients", "target"}
  <2>1. \E s \in a.scenarios : f \in TemplateUses(s)
    BY <1>1, <1>3 DEF validateScenario, InputsFit, Has, Hostnames, Clients, Target, TemplateUses
  <2> QED
    BY <2>1 DEF ScenarioUses
<1>4. CASE f \in YubiKeyFlags
  <2>1. Given(a, YubiKeyFlags)
    BY <1>1, <1>4 DEF Given
  <2>2. OpensYubiKey(AsSpec(a)) /\ (SignsWithYubiKey(AsSpec(a)) <=> Has(a, "yubikey"))
    BY <2>1, ScenarioMode, ScenarioGoesOn
  <2>3. f \in Tolerated(a) \cup openYubiKey(AsSpec(a))
    BY <1>4, <2>2 DEF Tolerated, openYubiKey, YubiKeyFlags
  <2>4. f # "spec"
    BY <1>4 DEF YubiKeyFlags
  <2>5. f \in openYubiKey(AsSpec(a)) => f \in ScenarioUses(a)
    BY <2>4, ScenarioMode
  <2> QED
    BY <2>3, <2>5
<1>5. CASE f \in {"output-dir", "overwrite", "encrypt-to"} \cup AgeIdentities
  <2>1. ~Has(AsSpec(a), "export-spec") /\ (Has(AsSpec(a), "overwrite") <=> Has(a, "overwrite"))
    BY ScenarioGoesOn
  <2>2. f \in Tolerated(a) \cup generateAndLogResults(AsSpec(a))
    BY <1>5, <2>1 DEF Tolerated, generateAndLogResults
  <2>3. f # "spec"
    BY <1>5 DEF AgeIdentities
  <2>4. f \in generateAndLogResults(AsSpec(a)) => f \in ScenarioUses(a)
    BY <2>3, ScenarioMode
  <2> QED
    BY <2>2, <2>4
<1>6. \/ f \in {"scenario", "organization", "subject", "yubikey", "hostnames", "clients", "target"}
      \/ f \in YubiKeyFlags
      \/ f \in {"output-dir", "overwrite", "encrypt-to"} \cup AgeIdentities
  BY <1>1 DEF Flag, Subject, NeverUsed, ParentFlags, CAConstraints, RootFlags
<1> QED
  BY <1>2, <1>3, <1>4, <1>5, <1>6

-----------------------------------------------------------------------------
(* No option that is used is left unchecked.                               *)

\* The checks on the way to each mode.
CardChecked(a) == OpensYubiKey(a) => a.bad \cap {"yubikey-serial", "yubikey-slot"} = {}
KeysChecked(a) == a.bad \cap {"encrypt-to", "age-identity-file"} = {}

LEMMA RootMode == ASSUME NEW a PROVE ForRoot(a) <=> Mode(a) = "root"
BY DEF Mode

LEMMA PathLenChecked ==
  ASSUME NEW a \in Args, a.bad \subseteq MayBeMalformed(a), validateModes(a)
  PROVE  "max-path-len" \notin a.bad
BY DEF MayBeMalformed, validateModes, Given, CAConstraints

LEMMA RootChecked ==
  ASSUME NEW a \in Args, ~Has(a, "scenario"), a.bad \subseteq MayBeMalformed(a), validateModes(a), Mode(a) = "root",
         CardChecked(a), a.bad \cap (ParsedByCertificateArgs \cup RootFlags) = {}, "yubikey-management-key" \notin a.bad,
         "yubikey-pin" \in a.bad => Has(a, "yubikey-management-key")
  PROVE  a.bad \cap Uses(a) \subseteq CheckedLate(a)
<1> SUFFICES ASSUME NEW f \in a.bad, f \in Uses(a) PROVE f \in CheckedLate(a)
  OBVIOUS
<1>1. ForRoot(a) /\ OpensYubiKey(a)
  BY DEF Mode, OpensYubiKey, HasSpec
<1>2. f \in Parsed /\ f # "max-path-len"
  BY PathLenChecked DEF MayBeMalformed
<1>3. ~Has(a, "code-sign") /\ ~Has(a, "parent-public-certificate")
  BY <1>1 DEF validateModes, Given, Has, ParentFlags
<1>4. f \in openYubiKey(a) \cup certificateArgs(a)
  BY <1>2 DEF Uses, Parsed, ParentFlags, CAConstraints, YubiKeyFlags
<1>5. CASE f \in openYubiKey(a)
  BY <1>1, <1>5 DEF openYubiKey, CardChecked, CheckedLate
<1>6. CASE f \in certificateArgs(a)
  <2>1. f \in {"key-type", "validity", "hostnames", "permitted-dns-domains", "permitted-ip-ranges"}
    BY <1>2, <1>3, <1>6 DEF certificateArgs, Subject, CAConstraints, Parsed, ParentFlags, YubiKeyFlags
  <2> QED
    BY <1>1, <2>1 DEF ParsedByCertificateArgs, CheckedLate
<1> QED
  BY <1>4, <1>5, <1>6

\* The options of the YubiKey, where no root CA is made.
LEMMA CardOptionsChecked ==
  ASSUME NEW a, ~ForRoot(a), CardChecked(a)
  PROVE  a.bad \cap openYubiKey(a) \subseteq {"yubikey-pin"}
BY DEF CardChecked, openYubiKey, OpensYubiKey

LEMMA SingleChecked ==
  ASSUME NEW a \in Args, ~Has(a, "scenario"), a.bad \subseteq MayBeMalformed(a), validateModes(a), Mode(a) = "single",
         CardChecked(a), KeysChecked(a), a.bad \cap (ParsedByCertificateArgs \cup ParsedByTemplate(a)) = {}
  PROVE  a.bad \cap Uses(a) \subseteq CheckedLate(a)
<1> SUFFICES ASSUME NEW f \in a.bad, f \in Uses(a), f # "yubikey-pin" PROVE FALSE
  BY RootMode DEF CheckedLate
<1>1. f \in Parsed /\ f # "max-path-len"
  BY PathLenChecked DEF MayBeMalformed
<1>2. f \notin openYubiKey(a)
  BY CardOptionsChecked, RootMode
<1>3. f \in certificateArgs(a)
  BY <1>1, <1>2 DEF Uses, KeysChecked, Parsed, ParentFlags, CAConstraints, YubiKeyFlags
<1>4. \/ f \in {"key-type", "validity", "hostnames", "age-identity-file"} \cup ParentFlags
      \/ f \in {"permitted-dns-domains", "permitted-ip-ranges"}
      \/ f = "target" /\ Has(a, "code-sign")
  BY <1>1, <1>3 DEF certificateArgs, Subject, CAConstraints, AgeIdentities, Parsed, ParentFlags, YubiKeyFlags
<1> QED
  BY <1>4 DEF KeysChecked, ParsedByCertificateArgs, ParsedByTemplate

LEMMA SpecChecked ==
  ASSUME NEW a \in Args, a.bad \subseteq Parsed, Mode(a) \in {"spec", "chain"}, ~Has(a, "export-spec"),
         CardChecked(a), KeysChecked(a), Mode(a) \notin a.bad
  PROVE  a.bad \cap Uses(a) \subseteq CheckedLate(a)
<1>0. ~ForRoot(a)
  BY RootMode
<1>1. a.bad \cap openYubiKey(a) \subseteq CheckedLate(a)
  BY <1>0, CardOptionsChecked DEF CheckedLate
<1>2. a.bad \cap generateAndLogResults(a) = {}
  BY DEF KeysChecked, generateAndLogResults, Parsed, ParentFlags, CAConstraints, YubiKeyFlags, AgeIdentities
<1>3. CASE Mode(a) = "spec"
  BY <1>1, <1>2, <1>3 DEF Uses
<1>4. CASE Mode(a) = "chain"
  BY <1>1, <1>2, <1>4 DEF Uses, Parsed, ParentFlags, CAConstraints, YubiKeyFlags
<1> QED
  BY <1>3, <1>4

LEMMA ScenarioChecked ==
  ASSUME NEW a \in Args, a.bad \subseteq Parsed \cup Text, Has(a, "scenario"), validateScenario(a), scenarioOptions(a),
         ~Has(a, "export-spec"), validateModes(AsSpec(a)), CardChecked(AsSpec(a)), KeysChecked(AsSpec(a))
  PROVE  a.bad \cap ScenarioUses(a) \subseteq CheckedLate(a)
<1> SUFFICES ASSUME NEW f \in a.bad, f \in ScenarioUses(a), f # "yubikey-pin" PROVE FALSE
  BY DEF CheckedLate, validateScenario, Given, NeverUsed, ForRoot, Has
<1>1. f # "scenario" /\ f \notin Input \cup {"export-spec"}
  BY DEF validateScenario, scenarioOptions
<1>2. f \in Parsed
  BY <1>1 DEF Text, Input
<1>3. \A s \in a.scenarios : TemplateUses(s) \subseteq Input
  BY DEF TemplateUses, Input
<1>4. f \in (openYubiKey(AsSpec(a)) \cup generateAndLogResults(AsSpec(a))) \ {"spec"}
  <2>1. f \notin {"scenario", "organization", "subject", "yubikey"} /\ ~(\E s \in a.scenarios : f \in TemplateUses(s))
    BY <1>1, <1>3 DEF Input
  <2> QED
    BY <2>1, ScenarioMode
<1>5. f \in AsSpec(a).bad
  BY <1>1 DEF AsSpec, Args, Input
<1>6. f \notin openYubiKey(AsSpec(a))
  BY <1>5, CardOptionsChecked, ScenarioGoesOn
<1>7. f \notin generateAndLogResults(AsSpec(a))
  BY <1>1, <1>2, <1>5
  DEF KeysChecked, generateAndLogResults, Parsed, ParentFlags, CAConstraints, YubiKeyFlags, AgeIdentities, Input
<1> QED
  BY <1>4, <1>6, <1>7

-----------------------------------------------------------------------------
(* What the command has established about its options.                     *)

\* The positions after validateModes; "export" is also reached without it.
Past == {"open", "opening", "issuer", "keys", "spec", "chain", "generate", "generating", "single", "root", "selfsign",
   "certificate"}

AcceptedScenario ==
  Has(started, "scenario") =>
    /\ pc \in Past \cup {"look", "write", "modes", "export"} => validateScenario(started) /\ scenarioOptions(started)
    /\ pc \in Past => ~Has(started, "export-spec") /\ args = AsSpec(started)
    /\ pc = "export" => Has(started, "export-spec")

AcceptedMode ==
  /\ started.bad \subseteq MayBeMalformed(started)
  /\ ~Has(started, "scenario") /\ pc \in Past \cup {"modes", "export"} => args = started
  /\ pc \in Past => validateModes(args)
  /\ pc \in {"spec", "chain", "single", "root"} => Mode(args) = pc
  /\ pc \in {"selfsign", "certificate"} => Mode(args) = "root"
  /\ pc \in {"generate", "generating"} =>
       Mode(args) \in {"spec", "chain"} /\ ~Has(args, "export-spec") /\ Mode(args) \notin args.bad

Checked ==
  /\ pc \in Past \ {"open"} => CardChecked(args)
  /\ pc \in {"spec", "chain", "generate", "generating", "single"} => KeysChecked(args)
  /\ pc \in Past /\ ForRoot(args) => args.bad \cap (ParsedByCertificateArgs \cup RootFlags) = {}

AcceptedInv == AcceptedScenario /\ AcceptedMode /\ Checked

LEMMA AcceptedInit == Init => AcceptedInv
BY DEF Init, NoArgs, AcceptedInv, AcceptedScenario, AcceptedMode, Checked, Past, MayBeMalformed, Has

LEMMA AcceptedStep == CommandInv /\ OptionsInv /\ CertsInv /\ AcceptedInv /\ [Next]_vars => AcceptedInv'
<1> SUFFICES ASSUME CommandInv, OptionsInv, CertsInv, AcceptedInv, [Next]_vars PROVE AcceptedInv'
  OBVIOUS
<1> USE DEF AcceptedInv, AcceptedScenario, AcceptedMode, Checked, Past
<1>0. started \in Args
  BY DEF OptionsInv
<1>1. ASSUME NEW a \in Args, Run(a) PROVE AcceptedInv'
  BY <1>1 DEF Run
<1>2. CASE runScenario
  BY <1>2 DEF runScenario, Step, Return, CommandInv, LookedFirst, OptionsInv
<1>3. CASE LookAtSpec
  BY <1>3 DEF LookAtSpec, Step, Return, OptionsInv
<1>4. CASE WriteSpec
  BY <1>4 DEF WriteSpec, Step, OptionsInv
<1>5. CASE RunModes
  BY <1>5 DEF RunModes, Step, Return, OptionsInv, OpensYubiKey, CardChecked
<1>6. CASE openYubiKeyStarts
  BY <1>6 DEF openYubiKeyStarts, Open, CardChecked
<1>7. CASE yubikeyOpen
  BY <1>7 DEF yubikeyOpen, process, OpenStep
<1>8. CASE openYubiKeyReturns
  BY <1>8, RootMode DEF openYubiKeyReturns, Step, Return
<1>9. CASE Issuer
  BY <1>9 DEF Issuer, Step
<1>10. CASE keyEncryption
  BY <1>0, <1>10, ScenarioGoesOn DEF keyEncryption, Step, Mode, KeysChecked
<1>11. CASE ReadSpec
  BY <1>0, <1>11, ScenarioGoesOn DEF ReadSpec, Step, AfterSpec
<1>12. ASSUME NEW c \in ChainCall, runChain(c) PROVE AcceptedInv'
  BY <1>0, <1>12, ScenarioGoesOn DEF runChain, Step, Return, AfterSpec
<1>13. CASE ExportSpec
  BY <1>13 DEF ExportSpec, Return
<1>14. CASE GenerateSome
  BY <1>14 DEF GenerateSome, Step
<1>15. CASE GenerateRest
  BY <1>15 DEF GenerateRest, Return
<1>16. CASE generateKeyPair
  BY <1>16 DEF generateKeyPair, Return
<1>17. CASE GenerateKey \/ SetCertificate
  BY <1>17 DEF GenerateKey, SetCertificate, Step, Return
<1>18. CASE WriteCertificate
  BY <1>18 DEF WriteCertificate, Return
<1>19. CASE closeYubiKey
  BY <1>19 DEF closeYubiKey, CloseToken
<1>20. CASE Fails
  BY <1>20 DEF Fails, Return
<1>21. CASE Kill
  BY <1>21 DEF Kill, Killed
<1>22. CASE User
  BY <1>22 DEF User, DeleteSpec, EditSpec, WriteOwnSpec, DeleteCertificates, Edits, process
<1>23. CASE Others /\ UNCHANGED <<process, files, slots, history>>
  BY <1>23 DEF Others, Take, Release, Swap, process
<1>24. CASE UNCHANGED vars
  BY <1>24 DEF vars, process
<1> QED
  BY <1>1, <1>2, <1>3, <1>4, <1>5, <1>6, <1>7, <1>8, <1>9, <1>10, <1>11, <1>12, <1>13, <1>14, <1>15, <1>16,
    <1>17, <1>18, <1>19, <1>20, <1>21, <1>22, <1>23, <1>24 DEF Next, CommandStep

LEMMA AcceptedInvariant == Spec => []AcceptedInv
BY CommandInvariant, OptionsInvariant, CertsInvariant, AcceptedInit, AcceptedStep, PTL DEF Spec

\* Every option that is there to be checked is used by what runs, apart from the
\* four exceptions (encrypt.go:35, scenario.go:95).
THEOREM IgnoresNothing == Spec => []NothingIgnored
<1>1. OptionsInv /\ AcceptedInv => NothingIgnored
  <2> SUFFICES ASSUME OptionsInv, AcceptedInv, pc \in {"keys", "single", "generating", "certificate"}
               PROVE  Guarded(started) \subseteq
                        Tolerated(started) \cup (IF Has(started, "scenario") THEN ScenarioUses(started) ELSE Uses(started))
    BY DEF NothingIgnored
  <2>1. started \in Args /\ pc \in Past
    BY DEF OptionsInv, Past
  <2>2. CASE Has(started, "scenario")
    BY <2>1, <2>2, ScenarioUsesGiven DEF AcceptedInv, AcceptedScenario, AcceptedMode
  <2>3. CASE ~Has(started, "scenario")
    BY <2>1, <2>3, ModeUsesGiven DEF AcceptedInv, AcceptedMode
  <2> QED
    BY <2>2, <2>3
<1> QED
  BY <1>1, OptionsInvariant, AcceptedInvariant, PTL

\* What the command has checked by the time it makes something.
CheckedNow ==
  started.bad \cap (IF Has(started, "scenario") THEN ScenarioUses(started) ELSE Uses(started)) \subseteq CheckedLate(started)

LEMMA MakesChecked ==
  ASSUME OptionsInv, CertsInv, AcceptedInv, pc \in {"generate", "single", "root"},
         pc = "single" => args.bad \cap (ParsedByCertificateArgs \cup ParsedByTemplate(args)) = {},
         pc = "root" => /\ "yubikey-management-key" \notin args.bad
                        /\ "yubikey-pin" \in args.bad => Has(args, "yubikey-management-key")
  PROVE  CheckedNow
<1>1. started \in Args /\ pc \in Past /\ started.bad \subseteq MayBeMalformed(started)
  BY DEF OptionsInv, Past, AcceptedInv, AcceptedMode
<1>2. ASSUME Has(started, "scenario") PROVE started.bad \cap ScenarioUses(started) \subseteq CheckedLate(started)
  <2>1. pc = "generate"
    BY <1>2 DEF CertsInv, ScenarioInv
  <2>2. /\ validateScenario(started) /\ scenarioOptions(started) /\ ~Has(started, "export-spec")
        /\ validateModes(AsSpec(started)) /\ CardChecked(AsSpec(started)) /\ KeysChecked(AsSpec(started))
    BY <1>1, <1>2, <2>1 DEF AcceptedInv, AcceptedScenario, AcceptedMode, Checked
  <2>3. started.bad \subseteq Parsed \cup Text
    BY <1>1 DEF MayBeMalformed
  <2> QED
    BY <1>1, <1>2, <2>2, <2>3, ScenarioChecked
<1>3. ASSUME ~Has(started, "scenario") PROVE started.bad \cap Uses(started) \subseteq CheckedLate(started)
  <2>1. args = started /\ validateModes(started) /\ CardChecked(started)
    BY <1>1, <1>3 DEF AcceptedInv, AcceptedMode, Checked
  <2>2. CASE pc = "root"
    <3>1. Mode(started) = "root"
      BY <2>1, <2>2 DEF AcceptedInv, AcceptedMode
    <3>2. started.bad \cap (ParsedByCertificateArgs \cup RootFlags) = {}
      BY <1>1, <2>1, <3>1, RootMode DEF AcceptedInv, Checked
    <3> QED
      BY <1>1, <1>3, <2>1, <2>2, <3>1, <3>2, RootChecked
  <2>3. CASE pc = "single"
    BY <1>1, <1>3, <2>1, <2>3, SingleChecked DEF AcceptedInv, AcceptedMode, Checked
  <2>4. CASE pc = "generate"
    <3>1. started.bad \subseteq Parsed
      BY <1>1, <1>3 DEF MayBeMalformed
    <3> QED
      BY <1>1, <2>1, <2>4, <3>1, SpecChecked DEF AcceptedInv, AcceptedMode, Checked
  <2> QED
    BY <1>1, <2>2, <2>3, <2>4
<1> QED
  BY <1>2, <1>3 DEF CheckedNow

LEMMA ChecksFirst ==
  OptionsInv /\ CertsInv /\ AcceptedInv /\ OptionsCheckedFirst /\ [Next]_vars => OptionsCheckedFirst'
<1> SUFFICES ASSUME OptionsInv, CertsInv, AcceptedInv, OptionsCheckedFirst, [Next]_vars PROVE OptionsCheckedFirst'
  OBVIOUS
<1>1. OptionsCheckedFirst <=> (effects \cap {"certs", "pair", "card"} # {} => CheckedNow)
  BY DEF OptionsCheckedFirst, CheckedNow
<1>2. CASE started' = started /\ effects' \cap {"certs", "pair", "card"} = effects \cap {"certs", "pair", "card"}
  BY <1>2 DEF OptionsCheckedFirst
<1>3. CASE started' = started /\ CheckedNow
  BY <1>3 DEF OptionsCheckedFirst, CheckedNow
<1>4. ASSUME NEW a \in Args, Run(a) PROVE OptionsCheckedFirst'
  BY <1>4 DEF Run, OptionsCheckedFirst
<1>5. CASE GenerateSome
  BY <1>3, <1>5, MakesChecked DEF GenerateSome
<1>6. CASE generateKeyPair
  BY <1>3, <1>6, MakesChecked DEF generateKeyPair
<1>7. CASE GenerateKey
  BY <1>3, <1>7, MakesChecked DEF GenerateKey
<1>8. CASE WriteSpec \/ ExportSpec \/ WriteCertificate
  BY <1>2, <1>8 DEF WriteSpec, ExportSpec, WriteCertificate
<1>9. CASE UNCHANGED <<started, effects>>
  BY <1>2, <1>9
<1> QED
  BY <1>4, <1>5, <1>6, <1>7, <1>8, <1>9
  DEF Next, CommandStep, vars, process, runScenario, LookAtSpec, RunModes, openYubiKeyStarts, yubikeyOpen, openYubiKeyReturns,
    Issuer, keyEncryption, ReadSpec, runChain, GenerateRest, SetCertificate, closeYubiKey, Fails, Kill, User, DeleteSpec,
    EditSpec, WriteOwnSpec, DeleteCertificates, Edits

\* Before a command makes a certificate or a key pair, or replaces the key of a root CA,
\* it has checked every option it uses, so a malformed one leaves none of them half done
\* (certtool.go:354, 359), but for the names a root CA is constrained to and, with a
\* management key, the length of the PIN, which come after the key is replaced
\* (yubikey_piv.go:265, 280), and for a PIN that is not needed.
THEOREM ChecksOptionsFirst == Spec => []OptionsCheckedFirst
<1>1. Init => OptionsCheckedFirst
  BY DEF Init, OptionsCheckedFirst
<1> QED
  BY <1>1, ChecksFirst, OptionsInvariant, CertsInvariant, AcceptedInvariant, PTL DEF Spec

-----------------------------------------------------------------------------
(* A command that is repeated.                                             *)

\* A --scenario command that has succeeded and that nobody has interfered with:
\* its options are accepted, and its spec and certificates are there.
Settled(a) ==
  /\ validateScenario(a) /\ scenarioOptions(a)
  /\ ~Has(a, "export-spec") =>
       validateModes(AsSpec(a)) /\ SpecAt(a.scenarios) = {SpecOf(a)} /\ SpecOf(a) \in whole

SettledInv ==
  /\ settled \in {NoArgs, started}
  /\ edited => settled = NoArgs
  /\ Has(settled, "scenario") /\ ~Has(settled, "overwrite") => Settled(settled) /\ pc # "write"

\* The spec a --scenario command generates from is there to the end.
SpecStays ==
  Has(started, "scenario") /\ pc \in {"generate", "generating"} /\ ~edited => SpecAt(started.scenarios) = {SpecOf(started)}

RepeatInv == SpecStays /\ SettledInv

LEMMA NoScenario == ~Has(NoArgs, "scenario")
BY DEF Has, NoArgs

\* What ends a --scenario command well leaves it settled.
LEMMA DoneSettles ==
  ASSUME CommandInv, OptionsInv, CertsInv, AcceptedInv, SpecStays, ~edited, Has(started, "scenario"),
         ExportSpec \/ GenerateRest, specs' = specs
  PROVE  Settled(started)'
<1>1. started \in Args /\ started' = started
  BY DEF OptionsInv, ExportSpec, GenerateRest
<1>2. validateScenario(started) /\ scenarioOptions(started)
  BY DEF ExportSpec, GenerateRest, AcceptedInv, AcceptedScenario, Past
<1>3. CASE ExportSpec
  <2>1. Has(started, "export-spec")
    BY <1>3 DEF ExportSpec, AcceptedInv, AcceptedScenario
  <2> QED
    BY <1>1, <1>2, <2>1 DEF Settled
<1>4. CASE GenerateRest
  <2>1. validateModes(AsSpec(started))
    BY <1>4 DEF GenerateRest, AcceptedInv, AcceptedScenario, AcceptedMode, Past
  <2>2. SpecAt(started.scenarios)' = {SpecOf(started)}
    BY <1>1, <1>4 DEF GenerateRest, SpecStays, SpecAt
  <2>3. SpecOf(started) \in whole'
    <3>1. body = SpecOf(started)
      BY <1>4 DEF GenerateRest, CertsInv, ScenarioInv
    <3>2. body \in whole'
      BY <1>4 DEF GenerateRest, Reuse
    <3> QED
      BY <1>1, <3>1, <3>2
  <2> QED
    BY <1>1, <1>2, <2>1, <2>2, <2>3 DEF Settled
<1> QED
  BY <1>3, <1>4

LEMMA SettledFrame ==
  ASSUME SettledInv, settled' \in {NoArgs, settled}, UNCHANGED <<started, edited, specs, whole>>, pc' # "write"
  PROVE  SettledInv'
<1>1. CASE settled' = NoArgs
  BY <1>1, NoScenario DEF SettledInv
<1>2. CASE settled' = settled
  BY <1>2 DEF SettledInv, Settled, SpecAt
<1> QED
  BY <1>1, <1>2

\* A step that ends a command well.
LEMMA SettledDone ==
  ASSUME CommandInv, OptionsInv, CertsInv, AcceptedInv, RepeatInv, Return("done"), UNCHANGED <<started, edited, specs>>,
         \/ ExportSpec
         \/ GenerateRest
         \/ (~Has(started, "scenario") /\ whole' = whole)
  PROVE  RepeatInv'
<1>1. pc' \in {"close", "idle"}
  BY DEF Return
<1>2. SpecStays'
  BY <1>1 DEF SpecStays
<1>3. CASE edited
  <2>1. settled' = NoArgs
    BY <1>3 DEF Return, RepeatInv, SettledInv
  <2> QED
    BY <1>2, <2>1, NoScenario DEF RepeatInv, SettledInv
<1>4. CASE ~edited
  <2>1. settled' = started /\ started' = started
    BY <1>4 DEF Return
  <2>2. Has(started, "scenario") => Settled(started)'
    BY <1>4, DoneSettles DEF RepeatInv
  <2> QED
    BY <1>1, <1>2, <1>4, <2>1, <2>2 DEF RepeatInv, SettledInv, Settled
<1> QED
  BY <1>3, <1>4

LEMMA RepeatInit == Init => RepeatInv
BY NoScenario DEF Init, RepeatInv, SpecStays, SettledInv

LEMMA RepeatStep ==
  CommandInv /\ OptionsInv /\ CertsInv /\ AcceptedInv /\ RepeatInv /\ [Next]_vars => RepeatInv'
<1> SUFFICES ASSUME CommandInv, OptionsInv, CertsInv, AcceptedInv, RepeatInv, [Next]_vars PROVE RepeatInv'
  OBVIOUS
<1>0. SpecStays /\ SettledInv
  BY DEF RepeatInv
<1>a. ASSUME UNCHANGED <<settled, started, edited, specs, whole>>, pc' \notin {"write", "generate", "generating"}
      PROVE  RepeatInv'
  BY <1>0, <1>a, SettledFrame DEF RepeatInv, SpecStays
<1>1. ASSUME NEW a \in Args, Run(a) PROVE RepeatInv'
  BY <1>0, <1>1, NoScenario DEF Run, files, RepeatInv, SpecStays, SettledInv, Settled, SpecAt
<1>2. CASE runScenario \/ RunModes \/ openYubiKeyReturns \/ Fails
  BY <1>a, <1>2 DEF runScenario, RunModes, openYubiKeyReturns, Fails, Step, Return, files
<1>3. CASE LookAtSpec
  <2>1. /\ pc' # "generate" /\ pc' # "generating"
        /\ UNCHANGED <<settled, started, edited, specs, whole>>
    BY <1>3 DEF LookAtSpec, Step, Return, files
  <2>2. ASSUME Has(settled, "scenario"), ~Has(settled, "overwrite") PROVE pc' # "write"
    <3>1. settled = started /\ Settled(started) /\ args = started
      BY <1>0, <1>3, <2>2, NoScenario DEF SettledInv, LookAtSpec, CommandInv, LookedFirst
    <3>2. SpecAt(args.scenarios) = {SpecOf(args)}
      BY <1>3, <3>1 DEF LookAtSpec, OptionsInv, Settled
    <3> QED
      BY <1>3, <3>2 DEF LookAtSpec, Step
  <2> QED
    BY <1>0, <2>1, <2>2 DEF RepeatInv, SpecStays, SettledInv, Settled, SpecAt
<1>4. CASE WriteSpec
  BY <1>0, <1>4 DEF WriteSpec, Step, RepeatInv, SpecStays, SettledInv
<1>5. CASE openYubiKeyStarts \/ yubikeyOpen \/ Issuer
  BY <1>a, <1>5 DEF openYubiKeyStarts, yubikeyOpen, Issuer, Step, files, history, process, OpenStep
<1>6. CASE keyEncryption
  BY <1>a, <1>6 DEF keyEncryption, Step, Mode, files
<1>7. CASE ReadSpec
  <2>1. UNCHANGED <<settled, started, edited, specs, whole>> /\ pc' # "write" /\ pc = "spec"
    BY <1>7 DEF ReadSpec, Step, AfterSpec, files
  <2>2. SpecStays'
    BY <2>1 DEF SpecStays, CertsInv, ScenarioInv, Reading, SpecAt
  <2> QED
    BY <1>0, <2>1, <2>2, SettledFrame DEF RepeatInv
<1>8. ASSUME NEW c \in ChainCall, runChain(c) PROVE RepeatInv'
  <2>1. UNCHANGED <<settled, started, edited, specs, whole>> /\ pc' # "write" /\ pc = "chain"
    BY <1>8 DEF runChain, Step, Return, AfterSpec, files
  <2>2. SpecStays'
    BY <2>1 DEF SpecStays, CertsInv, ScenarioInv
  <2> QED
    BY <1>0, <2>1, <2>2, SettledFrame DEF RepeatInv
<1>9. CASE ExportSpec
  BY <1>9, SettledDone DEF ExportSpec, files
<1>10. CASE GenerateSome
  <2>1. UNCHANGED <<settled, started, edited, specs>> /\ pc' = "generating" /\ pc = "generate"
    BY <1>10 DEF GenerateSome, Step
  <2>2. SpecStays'
    BY <1>0, <2>1 DEF SpecStays, SpecAt
  <2>3. CASE Has(args, "overwrite")
    <3>1. ~(Has(settled, "scenario") /\ ~Has(settled, "overwrite"))
      BY <1>0, <2>1, <2>3, NoScenario, ScenarioGoesOn DEF SettledInv, OptionsInv, CertsInv, ScenarioInv, Signing
    <3> QED
      BY <1>0, <2>1, <2>2, <3>1 DEF RepeatInv, SettledInv
  <2>4. CASE ~Has(args, "overwrite")
    <3>1. UNCHANGED whole
      BY <1>10, <2>4 DEF GenerateSome
    <3> QED
      BY <1>0, <2>1, <2>2, <3>1, SettledFrame DEF RepeatInv
  <2> QED
    BY <2>3, <2>4
<1>11. CASE GenerateRest
  BY <1>11, SettledDone DEF GenerateRest
<1>12. CASE generateKeyPair \/ WriteCertificate
  <2>1. ~Has(started, "scenario")
    BY <1>12 DEF generateKeyPair, WriteCertificate, CertsInv, ScenarioInv
  <2> QED
    BY <1>12, <2>1, SettledDone DEF generateKeyPair, WriteCertificate, files
<1>13. CASE GenerateKey \/ SetCertificate
  BY <1>a, <1>13 DEF GenerateKey, SetCertificate, Step, Return, files
<1>14. CASE closeYubiKey \/ Kill
  BY <1>a, <1>14 DEF closeYubiKey, Kill, files, history
<1>15. CASE User
  <2>1. settled' = NoArgs /\ edited' = TRUE /\ started' = started
    BY <1>15 DEF User, DeleteSpec, EditSpec, WriteOwnSpec, DeleteCertificates, Edits, process
  <2> QED
    BY <2>1, NoScenario DEF RepeatInv, SpecStays, SettledInv
<1>16. CASE UNCHANGED <<process, files, history>>
  BY <1>0, <1>16 DEF process, files, history, RepeatInv, SpecStays, SettledInv, Settled, SpecAt
<1> QED
  BY <1>1, <1>2, <1>3, <1>4, <1>5, <1>6, <1>7, <1>8, <1>9, <1>10, <1>11, <1>12, <1>13, <1>14, <1>15, <1>16
  DEF Next, CommandStep, vars

\* Where nothing is made nothing changes.
LEMMA NothingRenewed == ASSUME made \subseteq Origin PROVE Renewed(made, {}) = made
<1>1. ASSUME NEW o \in made
      PROVE  [o EXCEPT !.current = @ /\ ~\E n \in {} : Issues(n.entry, o.entry) /\ \A k \in made : k.entry # n.entry] = o
  <2> DEFINE still == o.current /\ ~\E n \in {} : Issues(n.entry, o.entry) /\ \A k \in made : k.entry # n.entry
  <2>1. o.current \in BOOLEAN /\ o \in Origin
    BY DEF Origin
  <2>2. still = o.current
    BY <2>1
  <2> HIDE DEF still
  <2>3. [o EXCEPT !.current = still] = o
    BY <2>1, <2>2 DEF Origin
  <2> QED
    BY <2>3 DEF still
<1> QED
  BY <1>1 DEF Renewed

LEMMA RepeatInvariant == Spec => []RepeatInv
BY CommandInvariant, OptionsInvariant, CertsInvariant, AcceptedInvariant, RepeatInit, RepeatStep, PTL DEF Spec

\* "Running the same --scenario command again reuses the spec and the certificates"
\* (docs/scenarios.md:13): it finds its way through every check, changes neither, and
\* fails only for reasons other than its options.
THEOREM RepeatingReuses == Spec => RepeatReuses
<1> DEFINE Repeats == /\ started = settled /\ settled' = settled /\ started' = started /\ pc # "idle"
                      /\ Has(started, "scenario") /\ ~Has(started, "overwrite")
           Reused == UNCHANGED <<specs, made, whole>> /\ outcome' # "refused"
<1>1. CommandTypes /\ CommandInv /\ OptionsInv /\ CertsInv /\ AcceptedInv /\ RepeatInv /\ [Next]_vars
      => [Repeats => Reused]_vars
  <2> SUFFICES ASSUME CommandTypes, CommandInv, OptionsInv, CertsInv, AcceptedInv, RepeatInv, Next, Repeats
               PROVE  Reused
    OBVIOUS
  <2>1. /\ Settled(started) /\ pc # "write" /\ ~edited /\ outcome # "refused" /\ settled # NoArgs
    BY NoScenario DEF RepeatInv, SettledInv, OptionsInv
  <2>2. started \in Args
    BY DEF OptionsInv
  <2>3. ~Run(started) /\ ~User /\ ~(\E a \in Args : Run(a))
    BY <2>1 DEF Run, User, DeleteSpec, EditSpec, WriteOwnSpec, DeleteCertificates, Edits
  <2>4. CASE runScenario
    BY <2>1, <2>4 DEF runScenario, Settled, Step, Return, files, CommandInv, LookedFirst
  <2>5. CASE LookAtSpec
    <3>1. args = started /\ SpecAt(args.scenarios) = {SpecOf(args)}
      BY <2>1, <2>5 DEF LookAtSpec, CommandInv, LookedFirst, OptionsInv, Settled
    <3> QED
      BY <2>1, <2>5, <3>1 DEF LookAtSpec, Step, files
  <2>6. CASE RunModes
    <3>1. validateModes(args)
      BY <2>1, <2>6 DEF RunModes, OptionsInv, Settled
    <3> QED
      BY <2>1, <2>6, <3>1 DEF RunModes, Step, Return, files
  <2>7. CASE GenerateSome \/ GenerateRest
    <3>1. /\ body = SpecOf(started) /\ body \in whole
      BY <2>1, <2>7 DEF GenerateSome, GenerateRest, CertsInv, ScenarioInv, Signing, Settled
    <3>2. ~Has(args, "overwrite")
      BY <2>2, <2>7, ScenarioGoesOn DEF GenerateSome, GenerateRest, CertsInv, ScenarioInv, Signing
    <3>3. Renewed(made, {}) = made
      BY NothingRenewed DEF CommandTypes, FileTypes
    <3>4. CASE GenerateSome
      BY <2>1, <3>1, <3>2, <3>3, <3>4 DEF GenerateSome, Step
    <3>5. CASE GenerateRest
      <4>1. Reuse /\ specs' = specs /\ outcome' = "done"
        BY <3>2, <3>5 DEF GenerateRest, Return
      <4> QED
        BY <3>1, <3>3, <4>1 DEF Reuse
    <3> QED
      BY <2>7, <3>4, <3>5
  <2>8. ~SetCertificate
    BY DEF SetCertificate, CertsInv, ScenarioInv
  <2>9. CASE UNCHANGED files /\ outcome' \in {outcome, "failed", "done", "killed"}
    BY <2>1, <2>9 DEF files
  <2> QED
    BY <2>1, <2>3, <2>4, <2>5, <2>6, <2>7, <2>8, <2>9
    DEF Next, CommandStep, WriteSpec, openYubiKeyStarts, yubikeyOpen, openYubiKeyReturns, Issuer, keyEncryption, ReadSpec,
      runChain, ExportSpec, generateKeyPair, GenerateKey, WriteCertificate, closeYubiKey, Fails, Kill, Step, Return,
      process, files
<1>2. Spec => [][Repeats => Reused]_vars
  BY <1>1, TypesInvariant, CommandInvariant, OptionsInvariant, CertsInvariant, AcceptedInvariant, RepeatInvariant, PTL DEF Spec
<1> QED
  BY <1>2 DEF RepeatReuses
=============================================================================
