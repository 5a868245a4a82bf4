----------------------------- MODULE ChainSpec -----------------------------
(***************************************************************************)
(* --chain: ChainToSpec turns a list of layer widths into a hierarchy, and *)
(* generateSpec names the files of its entries after their common names.   *)
(*                                                                         *)
(* An entry is its path, the 1-based positions from its root down to it.   *)
(* A name is a sequence of words, and a word the sequence of the runs of   *)
(* characters between the dots in it: "svc 1.2" is                         *)
(* << <<"svc">>, <<"1","2">> >>.  A run is all letters and digits or has   *)
(* none of them; slugify puts dashes where the other characters were.      *)
(***************************************************************************)
EXTENDS Integers, FiniteSets, SequencesExt

CONSTANTS WidthLists,     \* the values of --chain
          CommonNames,    \* of --common-name, <<>> when it is not given
          Organizations,
          NamePrefixes,
          Itoa(_),        \* the decimal numeral of a number
          LowerCase,      \* the letters slugify changes: run -> lower case
          Unslugged       \* runs of other characters, which slugify drops

Letters == STRING
Name == Seq(Seq(Letters))
Numbers == UNION {(1..Len(w)) \cup UNION {1..w[i] : i \in DOMAIN w} : w \in WidthLists}
ChainCall == [widths : WidthLists, commonName : CommonNames, organization : Organizations,
              namePrefix : NamePrefixes]

ASSUME ChainAssumption ==
  /\ WidthLists \subseteq Seq(Int)
  /\ CommonNames \cup Organizations \cup NamePrefixes \subseteq Name
  /\ LowerCase \in [DOMAIN LowerCase -> Letters]

\* A numeral is digits, which slugify leaves alone, and tells its number.
ASSUME ItoaAssumption ==
  /\ \A n \in Numbers : Itoa(n) \in Letters \ ({"CA"} \cup Unslugged \cup DOMAIN LowerCase)
  /\ \A m, n \in Numbers : Itoa(m) = Itoa(n) => m = n

Word(w) == <<w>>
Phrase(ws) == [i \in DOMAIN ws |-> Word(ws[i])]

\* The entries: every path through the layers, and the order generateSpec
\* visits them in, a parent before its children.
Paths(widths) ==
  UNION {{p \in [1..n -> UNION {1..widths[i] : i \in 1..n}] : \A i \in 1..n : p[i] <= widths[i]} :
         n \in DOMAIN widths}
Before(p, q) ==
  \/ IsStrictPrefix(p, q)
  \/ \E i \in DOMAIN p \cap DOMAIN q : p[i] < q[i] /\ \A j \in 1..(i - 1) : p[j] = q[j]
Preorder(paths) ==
  [i \in 1..Cardinality(paths) |-> CHOOSE p \in paths : Cardinality({q \in paths : Before(q, p)}) = i - 1]

\* The positions in the layers that have more than one certificate per parent.
nextLineage(widths, path) ==
  FlattenSeq([i \in DOMAIN path |-> IF widths[i] = 1 THEN <<>> ELSE <<path[i]>>])

lineageName(base, lineage) ==
  IF lineage = <<>> THEN base ELSE Append(base, [i \in DOMAIN lineage |-> Itoa(lineage[i])])

\* caName of a CA in layer 0, 1, ... of so many layers.
caName(organization, layer, layers) ==
  organization \o Phrase(IF layer = 0 THEN <<"Root", "CA">>
                         ELSE IF layers - 2 > 1 THEN <<"Intermediate", Itoa(layer), "CA">>
                         ELSE <<"Intermediate", "CA">>)

\* Faulty variant: the last layer of CAs is taken for the leaves.
isLeafEarly(widths, path) == Len(path) >= Len(widths) - 1

isLeaf(widths, path) == Len(path) = Len(widths)

organizationOf(c) == IF c.organization = <<>> THEN Phrase(<<"Certtool">>) ELSE c.organization
leafCN(c) == IF c.commonName = <<>> THEN organizationOf(c) ELSE c.commonName

\* buildChainLayer and applyNamePrefix: the common name of each entry.
buildChainLayer(c) ==
  [p \in Paths(c.widths) |->
     c.namePrefix \o
     lineageName(IF isLeaf(c.widths, p) THEN leafCN(c)
                 ELSE caName(organizationOf(c), Len(p) - 1, Len(c.widths)),
                 nextLineage(c.widths, p))]

slugRun(r) ==
  IF r \in Unslugged THEN <<>> ELSE IF r \in DOMAIN LowerCase THEN <<LowerCase[r]>> ELSE <<r>>
slugify(name) ==
  LET runs == FlattenSeq(name) IN FlattenSeq([i \in DOMAIN runs |-> slugRun(runs[i])])

\* Faulty variant: names that differ in case only are the same.
checkUniqueNamesFolded(names) ==
  \A p, q \in DOMAIN names : slugify(names[p]) = slugify(names[q]) => p = q

checkUniqueNames(names) == \A p, q \in DOMAIN names : names[p] = names[q] => p = q

validWidths(widths) == widths # <<>> /\ \A i \in DOMAIN widths : widths[i] >= 1

\* ChainToSpec: the names of the entries, and none when it refuses.
ChainToSpec(c) ==
  IF validWidths(c.widths) /\ checkUniqueNames(buildChainLayer(c)) THEN buildChainLayer(c) ELSE <<>>

\* Faulty variant: the file is named after the entry alone.
specFilenameOwn(names, path) == slugify(names[path])

\* specFilename: the slugs of the entry and of all above it, joined with
\* dashes.  An empty slug still adds its dash, and so counts as an empty run.
specFilename(names, path) ==
  LET slug(n) == slugify(names[SubSeq(path, 1, n)])
  IN FlattenSeq([n \in DOMAIN path |-> IF slug(n) = <<>> THEN <<"">> ELSE slug(n)])

-----------------------------------------------------------------------------
(* The hierarchy as a certificate spec.                                    *)

Tree == INSTANCE SpecTree WITH
  Nodes <- UNION {Paths(w) : w \in {v \in WidthLists : validWidths(v)}},
  Basenames <- Seq(Letters), Domains <- {}, TopLevel <- <<>>

ChainTree(widths, names) ==
  [order |-> Preorder(DOMAIN names),
   parent |-> [p \in DOMAIN names |-> Front(p)],
   filename |-> [p \in DOMAIN names |-> specFilename(names, p)],
   certificateAuthority |-> {p \in DOMAIN names : ~isLeaf(widths, p)},
   maxPathLen |-> [p \in DOMAIN names |-> Tree!countBelow],
   permitted |-> [p \in DOMAIN names |-> {}],
   pfx |-> {}, pfxPasswordEnv |-> {}, sshPublicKey |-> {}, emailAddresses |-> {},
   validity |-> [p \in DOMAIN names |-> 1]]
=============================================================================
