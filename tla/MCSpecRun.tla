----------------------------- MODULE MCSpecRun -----------------------------
(* Small hierarchies and the edits users make to them between runs.        *)
EXTENDS SpecRun, TLC
CONSTANTS root, sub, leaf, r1, p1, p2, example, other

MCNodes == {root, sub, leaf}

BaseSpec ==
  [order |-> <<root, leaf>>,
   parent |-> [n \in MCNodes |-> IF n = leaf THEN root ELSE TopLevel],
   filename |-> [n \in MCNodes |-> n],
   certificateAuthority |-> {root, sub},
   maxPathLen |-> [n \in MCNodes |-> countBelow],
   permitted |-> [n \in MCNodes |-> {}],
   pfx |-> {}, pfxPasswordEnv |-> {}, sshPublicKey |-> {}, emailAddresses |-> {},
   validity |-> [n \in MCNodes |-> IF n = leaf THEN 1 ELSE 2]]

\* A leaf with a .pfx and an SSH key.
FullLeaf == [BaseSpec EXCEPT !.pfx = {leaf}, !.sshPublicKey = {leaf}]
\* An intermediate is put between the two, so the default path length of the
\* root grows; the new CA is constrained; its leaf is a person's.
ThreeLevels == [BaseSpec EXCEPT
  !.order = <<root, sub, leaf>>,
  !.parent = [n \in MCNodes |-> CASE n = root -> TopLevel [] n = sub -> root [] n = leaf -> sub],
  !.permitted = [n \in MCNodes |-> IF n = sub THEN {example} ELSE {}],
  !.emailAddresses = {leaf}]
\* The root of it has room for the intermediate from the start.
RoomToGrow == [BaseSpec EXCEPT !.maxPathLen[root] = noLimit]
Grown == [ThreeLevels EXCEPT !.maxPathLen[root] = noLimit, !.emailAddresses = {}]
\* It has no room for another CA; it permits other names than the YubiKey's.
NoRoom == [ThreeLevels EXCEPT !.maxPathLen[root] = 0]
Outside == [BaseSpec EXCEPT !.permitted[root] = {other}]
\* Two entries resolve to one file name.
Collision == [ThreeLevels EXCEPT !.filename[sub] = leaf, !.emailAddresses = {}]
\* The password of the .pfx comes from the environment.
EnvPassword == [FullLeaf EXCEPT !.pfxPasswordEnv = {leaf}]

Opt0 == [overwrite |-> FALSE, to |-> Plain, ids |-> {}, issuer |-> FALSE, env |-> TRUE]
Encrypt == [Opt0 EXCEPT !.to = r1, !.ids = {r1}]
PlainRuns == {Opt0, [Opt0 EXCEPT !.overwrite = TRUE]}
EncryptRuns == {Encrypt, [Encrypt EXCEPT !.overwrite = TRUE]}
IssuerRuns == {[Opt0 EXCEPT !.issuer = TRUE]}
NoEnvRuns == {[o EXCEPT !.env = FALSE] : o \in PlainRuns}
NoIdentityRuns == {[Encrypt EXCEPT !.ids = {}]}

FormSpecs == {FullLeaf, BaseSpec}
FormOptions == PlainRuns \cup EncryptRuns

\* Forms of files, and runs that must stop half way.
FaultSpecs == FormSpecs \cup {Collision, EnvPassword}
FaultOptions == NoEnvRuns \cup EncryptRuns \cup NoIdentityRuns

GrowthSpecs == {BaseSpec, ThreeLevels, RoomToGrow, Grown, NoRoom, Outside}
GrowthOptions == PlainRuns \cup IssuerRuns

OverlapSpecs == {[BaseSpec EXCEPT !.pfx = {leaf}]}
OverlapOptions == {Opt0, [Opt0 EXCEPT !.overwrite = TRUE], Encrypt}
\* Processes differ in nothing but their name.
ProcsSymmetry == Permutations(Procs)
=============================================================================
