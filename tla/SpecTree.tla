------------------------------ MODULE SpecTree ------------------------------
(***************************************************************************)
(* A certificate spec (spec.go): a forest of entries, flattened here into  *)
(* the order in which generateSpec visits them (an entry, then its         *)
(* children), and what generateSpec derives from an entry's place in it.   *)
(*                                                                         *)
(* Names, domains and file names are members of small sets.  filename is   *)
(* the result of specFilename: two entries may well share one.             *)
(***************************************************************************)
EXTENDS Integers, Sequences, FiniteSets

CONSTANTS Nodes,      \* every entry that some version of the spec has
          Basenames,  \* file names without extension
          Domains,    \* atoms of name constraints: permitted subtrees
          TopLevel    \* the parent of a top-level entry

noLimit == -1          \* maxPathLen: -1, no limit
countBelow == -2       \* maxPathLen is not set: the CA levels below decide

CertificateSpec ==
  [order : Seq(Nodes),
   parent : [Nodes -> Nodes \cup {TopLevel}],
   filename : [Nodes -> Basenames],
   certificateAuthority : SUBSET Nodes,
   maxPathLen : [Nodes -> Int],
   permitted : [Nodes -> SUBSET Domains],   \* {} permits every name
   pfx : SUBSET Nodes,                      \* the entries that make a .pfx
   pfxPasswordEnv : SUBSET Nodes,           \* its password comes from the environment
   sshPublicKey : SUBSET Nodes,
   emailAddresses : SUBSET Nodes,
   validity : [Nodes -> Nat \ {0}]]

Entries(s) == {s.order[i] : i \in 1..Len(s.order)}
Children(s, n) == {c \in Entries(s) : s.parent[c] = n}

\* What validateSpec accepts, and that the order is a preorder of the tree.
validateSpec(s) ==
  /\ s.order # <<>>
  /\ \A i, j \in 1..Len(s.order) : s.order[i] = s.order[j] => i = j
  /\ \A i \in 1..Len(s.order) :
       LET n == s.order[i] IN
         /\ s.parent[n] # TopLevel =>
              /\ s.parent[n] \in s.certificateAuthority
              /\ \E j \in 1..(i - 1) : s.order[j] = s.parent[n]
         /\ n \in s.certificateAuthority => n \notin s.sshPublicKey \cup s.emailAddresses
         /\ n \notin s.certificateAuthority =>
              s.maxPathLen[n] = countBelow /\ s.permitted[n] = {}
         /\ s.maxPathLen[n] >= countBelow

\* caDepth(s)[n]: the levels of CAs below entry n.
caDepth(s) ==
  LET levels[n \in Nodes] ==
        LET below == {1 + levels[c] : c \in Children(s, n) \cap s.certificateAuthority}
        IN CHOOSE d \in below \cup {0} : \A e \in below : e <= d
  IN levels

\* signsEmail(s)[n]: some entry below n has email addresses.
signsEmail(s) ==
  LET signs[n \in Nodes] ==
        \E c \in Children(s, n) : c \in s.emailAddresses \/ signs[c]
  IN signs

\* The path length generateSpec asks for: explicit, or counted from the tree.
pathLen(s, n) == IF s.maxPathLen[n] = countBelow THEN caDepth(s)[n] ELSE s.maxPathLen[n]
=============================================================================
