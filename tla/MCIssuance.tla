---------------------------- MODULE MCIssuance ----------------------------
(* Instances of Issuance, one for each concern of checkIssuer.             *)
EXTENDS Issuance

com == <<"com">>
example == <<"com", "example">>
sub == <<"com", "example", "sub">>
other == <<"com", "other">>
localhost == <<"localhost">>
loopback == <<"v4", "1", "1">>

All(d) == [labels |-> d, subdomainsOnly |-> FALSE]
SubOf(d) == [labels |-> d, subdomainsOnly |-> TRUE]

leaf == [ca |-> FALSE, maxPathLen |-> {}, domains |-> {}, ranges |-> {}, names |-> {}, ips |-> {},
         email |-> FALSE, emailCA |-> FALSE, codeSigning |-> FALSE, validity |-> 1]
authority == [leaf EXCEPT !.ca = TRUE]
body == [ca |-> TRUE, certSign |-> TRUE, pathLen |-> noLimit, domains |-> {}, ranges |-> {}, names |-> {},
         ips |-> {}, usages |-> {}, notBefore |-> 0, notAfter |-> 2]

NoForeign == <<>>

\* Names: domains that contain one another, siblings, and the bare domain;
\* address ranges of both families.  One domain has a leading dot.
NameRequests ==
  {[authority EXCEPT !.domains = d] : d \in {{}, {All(example)}, {All(sub)}, {SubOf(example), All(other)}}}
  \cup {[authority EXCEPT !.ranges = r] : r \in {{<<"v4", "1">>}, {<<"v4", "1", "0">>, <<"v6">>}}}
  \cup {[leaf EXCEPT !.names = {n}] : n \in {example, sub, other, localhost}}
  \cup {[leaf EXCEPT !.ips = {ip}, !.email = e] : ip \in {loopback, <<"v4", "1", "0">>, <<"v6", "1">>}, e \in BOOLEAN}
NameForeign == <<[body |-> [body EXCEPT !.domains = {All(com)}, !.ranges = {<<"v4">>}], above |-> {}]>>

\* Purposes, validity and path lengths: every kind of leaf and CA.
UsageRequests ==
  {[authority EXCEPT !.maxPathLen = l, !.emailCA = e, !.codeSigning = c, !.validity = v] :
     l \in {{}, {-2}}, e \in BOOLEAN, c \in BOOLEAN, v \in {1, 3}}
  \cup {[leaf EXCEPT !.email = e, !.codeSigning = c, !.validity = v] : e \in BOOLEAN, c \in BOOLEAN, v \in {1, 3}}
UsageForeign ==
  <<[body |-> [body EXCEPT !.certSign = FALSE], above |-> {}],
    [body |-> [body EXCEPT !.notBefore = 1, !.usages = {"server"}], above |-> {}]>>

\* Levels of CAs, with and without a path length.
LevelRequests ==
  {[authority EXCEPT !.maxPathLen = l, !.validity = 3] : l \in {{}, {0}, {1}, {2}}} \cup {[leaf EXCEPT !.validity = 3]}

\* CAs, with constraints or without, below a CA for ".example.com".
DotRequests ==
  {[authority EXCEPT !.domains = d] : d \in {{}, {SubOf(example)}, {All(sub)}}} \cup {[leaf EXCEPT !.names = {sub}]}
=============================================================================
