------------------------------ MODULE Issuance ------------------------------
(***************************************************************************)
(* How pkg/certtool issues certificates: GenerateKeyPair, self-signed or   *)
(* below a parent, and CreateSelfSignedCertificate for a YubiKey root.     *)
(* checkIssuer looks at one issuer and one template at a time; what        *)
(* clients verify (RFC 5280) is the whole chain.  The properties compare   *)
(* the two over every hierarchy that calls in any order can build.         *)
(*                                                                         *)
(* A DNS name or domain is the sequence of its labels, top level first, so *)
(* "below" is "has as prefix"; letter case is left out.  An address is its *)
(* family followed by its bits, and a range the part its mask keeps.       *)
(***************************************************************************)
EXTENDS Integers, FiniteSets, SequencesExt

CONSTANTS Requests,   \* the Args callers pass
          Foreign,    \* parents that certtool did not make, a sequence
          Localhost,  \* the name and the address that certtool adds itself
          Loopback,
          MaxCerts,   \* bounds on the certificates and on time
          MaxNow

Label == STRING
Domain == [labels : Seq(Label), subdomainsOnly : BOOLEAN]   \* "example.com" or ".example.com"
Usages == {"server", "client", "email", "code"}
noLimit == -1     \* MaxPathLen when there is none

\* Args.  maxPathLen is the set of its value, empty for nil.
Args == [ca : BOOLEAN, maxPathLen : SUBSET Int, domains : SUBSET Domain, ranges : SUBSET Seq(Label),
         names : SUBSET Seq(Label), ips : SUBSET Seq(Label), email : BOOLEAN, emailCA : BOOLEAN,
         codeSigning : BOOLEAN, validity : Nat]
Template == [ca : BOOLEAN, certSign : BOOLEAN, pathLen : Nat \cup {noLimit}, domains : SUBSET Domain,
             ranges : SUBSET Seq(Label), names : SUBSET Seq(Label), ips : SUBSET Seq(Label),
             usages : SUBSET Usages, notBefore : Int, notAfter : Int]
\* above: the certificates above it in its chain, kept for the properties.
Certificate == [body : Template, above : SUBSET Nat]

ASSUME RequestsAssumption == Requests \subseteq Args
ASSUME ForeignAssumption ==
  /\ Foreign \in Seq(Certificate)
  /\ \A i \in DOMAIN Foreign : Foreign[i].above = {}
ASSUME BoundsAssumption == MaxCerts \in Nat /\ MaxNow \in Nat
ASSUME LoopbackAssumption == Localhost \in Seq(Label) /\ Loopback \in Seq(Label)

VARIABLES certs,   \* the certificates there are
          now
vars == <<certs, now>>

-----------------------------------------------------------------------------
(* Name constraints.                                                       *)

Below(s, t) == IsPrefix(t, s)

\* Faulty variant: ".example.com" is read like "example.com".
dnsNamePermittedDotIgnored(name, domains) == \E d \in domains : Below(name, d.labels)

dnsNamePermitted(name, domains) ==
  \E d \in domains : Below(name, d.labels) /\ (d.subdomainsOnly => name # d.labels)

ipRangeWithin(r, parent) == Below(r, parent)
ipPermitted(ip, ranges) == \E r \in ranges : Below(ip, r)

-----------------------------------------------------------------------------
(* From Args to a template.                                                *)

extKeyUsage(a) ==
  CASE a.codeSigning -> {"code"}
    [] ~a.codeSigning /\ a.ca -> {"server", "client"} \cup (IF a.emailCA THEN {"email"} ELSE {})
    [] ~a.codeSigning /\ ~a.ca /\ a.email -> {"email", "client"}
    [] OTHER -> {"server", "client"}

\* Faulty variant: a negative path length goes into the certificate.
TemplateRefusedEmailOnly(a) == ~a.ca /\ a.email /\ a.codeSigning

\* A negative path length, and email addresses on a code signing leaf, are refused.
TemplateRefused(a) ==
  \/ a.ca /\ \E n \in a.maxPathLen : n < 0
  \/ ~a.ca /\ a.email /\ a.codeSigning

\* The names certtool adds itself go on TLS leaves only.
AddsLoopback(a) == ~a.ca /\ ~a.email /\ ~a.codeSigning

newCertificateTemplate(a) ==
  LET named == ~a.ca /\ (a.email \/ ~a.codeSigning)
  IN [ca |-> a.ca,
      certSign |-> a.ca,
      pathLen |-> IF a.ca /\ a.maxPathLen # {} THEN CHOOSE n \in a.maxPathLen : TRUE ELSE noLimit,
      domains |-> IF a.ca THEN a.domains ELSE {},
      ranges |-> IF a.ca THEN a.ranges ELSE {},
      names |-> (IF named THEN a.names ELSE {}) \cup (IF AddsLoopback(a) THEN {Localhost} ELSE {}),
      ips |-> (IF named THEN a.ips ELSE {}) \cup (IF AddsLoopback(a) THEN {Loopback} ELSE {}),
      usages |-> extKeyUsage(a),
      notBefore |-> now,
      notAfter |-> now + a.validity]

-----------------------------------------------------------------------------
(* checkIssuer and what it does to the template.                           *)

maySign(p, t) ==
  /\ p.ca
  /\ p.certSign
  /\ p.notBefore <= now /\ now <= p.notAfter
  /\ ~(t.ca /\ p.pathLen = 0)

\* Faulty variant: the names certtool adds must be permitted like any other.
namesFitAddedToo(p, t) ==
  /\ p.domains # {} => \A n \in t.names : dnsNamePermitted(n, p.domains)
  /\ p.ranges # {} => \A ip \in t.ips : ipPermitted(ip, p.ranges)

namesFit(p, t) ==
  /\ p.domains # {} => \A n \in t.names \ {Localhost} : dnsNamePermitted(n, p.domains)
  /\ p.ranges # {} => \A ip \in t.ips \ {Loopback} : ipPermitted(ip, p.ranges)

applyNameConstraints(p, t) ==
  [t EXCEPT
     !.names = IF p.domains = {} THEN @ ELSE {n \in @ : dnsNamePermitted(n, p.domains)},
     !.ips = IF p.ranges = {} THEN @ ELSE {ip \in @ : ipPermitted(ip, p.ranges)}]

\* Faulty variant: a CA without constraints stays without.
inheritNoConstraints(p, t) == t

inheritNameConstraints(p, t) ==
  [t EXCEPT !.domains = IF t.ca /\ @ = {} THEN p.domains ELSE @,
            !.ranges = IF t.ca /\ @ = {} THEN p.ranges ELSE @]

\* The check drops a domain's leading dot, and runs on inherited domains too.
constraintsFit(p, t) ==
  /\ p.domains # {} => \A d \in t.domains : dnsNamePermitted(d.labels, p.domains)
  /\ p.ranges # {} => \A r \in t.ranges : \E within \in p.ranges : ipRangeWithin(r, within)

usagesFit(p, t) == p.usages = {} \/ t.usages \subseteq p.usages

checkIssuer(p, t) ==
  /\ maySign(p, t)
  /\ namesFit(p, t)
  /\ constraintsFit(p, inheritNameConstraints(p, t))
  /\ usagesFit(p, t)

\* Faulty variant: the new certificate keeps the expiry it asked for.
issuedUncapped(p, t) == inheritNameConstraints(p, applyNameConstraints(p, t))

issued(p, t) ==
  [inheritNameConstraints(p, applyNameConstraints(p, t)) EXCEPT
     !.notAfter = IF @ > p.notAfter THEN p.notAfter ELSE @]

-----------------------------------------------------------------------------
Init == certs = Foreign /\ now = 0

Add(t, above) ==
  /\ Len(certs) < MaxCerts
  /\ certs' = Append(certs, [body |-> t, above |-> above])
  /\ UNCHANGED now

\* GenerateKeyPair without a parent.
SelfSign(a) ==
  /\ ~TemplateRefused(a)
  /\ Add(newCertificateTemplate(a), {})

\* GenerateKeyPair with ParentKeyPair, or with an Issuer, certificate i.
\* Whatever checkIssuer refuses leaves nothing behind.
Sign(a, i) ==
  /\ ~TemplateRefused(a)
  /\ checkIssuer(certs[i].body, newCertificateTemplate(a))
  /\ Add(issued(certs[i].body, newCertificateTemplate(a)), certs[i].above \cup {i})

\* CreateSelfSignedCertificate, for GenerateRoot, which asks for a CA.
CreateSelfSignedCertificate(a) ==
  /\ a.ca
  /\ ~TemplateRefused(a)
  /\ Add([newCertificateTemplate(a) EXCEPT !.usages = {}], {})

Tick == now < MaxNow /\ now' = now + 1 /\ UNCHANGED certs

Next ==
  \/ \E a \in Requests : SelfSign(a)
  \/ \E a \in Requests, i \in DOMAIN certs : Sign(a, i)
  \/ \E a \in Requests : CreateSelfSignedCertificate(a)
  \/ Tick

Spec == Init /\ [][Next]_vars

-----------------------------------------------------------------------------
(* Properties.                                                             *)

\* Every certificate is a template with earlier certificates above it, whose
\* own chains it shares; no path length is negative (certtool.go:556).
TypeOK ==
  /\ certs \in Seq(Certificate)
  /\ now \in Nat
  /\ \A i \in DOMAIN certs : \A j \in certs[i].above :
       j \in DOMAIN certs /\ j < i /\ certs[j].above \subseteq certs[i].above

\* How clients read a domain, for a name and for a whole other domain.
DomainHolds(d, n) == IsPrefix(d.labels, n) /\ (d.subdomainsOnly => Len(n) > Len(d.labels))
DomainCovers(d, c) ==
  IsPrefix(d.labels, c.labels) /\ (d.subdomainsOnly => Len(c.labels) > Len(d.labels) \/ c.subdomainsOnly)

\* What clients check of certificate t below p, whatever lies between them.
ClientPermits(p, t) ==
  /\ p.ca /\ p.certSign
  /\ p.domains # {} => \A n \in t.names : \E d \in p.domains : DomainHolds(d, n)
  /\ p.ranges # {} => \A ip \in t.ips : \E r \in p.ranges : IsPrefix(r, ip)
  /\ p.usages = {} \/ t.usages \subseteq p.usages

\* checkIssuer (certtool.go:604) promises certificates "that clients will
\* accept": every CA of the chain, not only the issuer, permits the names, the
\* addresses and the usages of every certificate below it.
ChainPermits ==
  \A i \in DOMAIN certs : \A j \in certs[i].above : ClientPermits(certs[j].body, certs[i].body)

\* A certificate "must not claim to outlive" its issuer (certtool.go:452): it is
\* valid at some time, and whenever it is so is each certificate above it.
ValidWithinIssuers ==
  \A i \in DOMAIN certs : \A j \in certs[i].above :
    /\ certs[j].body.notBefore <= certs[i].body.notBefore
    /\ certs[i].body.notBefore <= certs[i].body.notAfter
    /\ certs[i].body.notAfter <= certs[j].body.notAfter

\* "Every CA in a chain carries" name constraints (certtool.go:686): below a
\* constrained CA every CA is constrained, to nothing outside it.
Carries(c, p) ==
  /\ p.domains # {} =>
       c.domains # {} /\ \A d \in c.domains : \E e \in p.domains : DomainCovers(e, d)
  /\ p.ranges # {} =>
       c.ranges # {} /\ \A r \in c.ranges : \E within \in p.ranges : IsPrefix(within, r)
ConstraintsCarried ==
  \A i \in DOMAIN certs : \A j \in certs[i].above :
    certs[i].body.ca => Carries(certs[i].body, certs[j].body)

\* A request is refused for cause: clients would reject the certificate with
\* the names and the constraints it asks for, without the names certtool adds
\* (certtool.go:650).  Below a domain with a leading dot, see ConstraintsInherited.
AskedFor(a) ==
  [newCertificateTemplate(a) EXCEPT
     !.names = IF AddsLoopback(a) THEN @ \ {Localhost} ELSE @,
     !.ips = IF AddsLoopback(a) THEN @ \ {Loopback} ELSE @]
ClientRejects(p, t) ==
  \/ ~ClientPermits(p, t)
  \/ now < p.notBefore \/ p.notAfter < now
  \/ t.ca /\ p.pathLen = 0
  \/ p.domains # {} /\ \E d \in t.domains : \A e \in p.domains : ~DomainCovers(e, d)
  \/ p.ranges # {} /\ \E r \in t.ranges : \A within \in p.ranges : ~IsPrefix(within, r)
RefusedForCause ==
  \A a \in Requests, i \in DOMAIN certs :
    \/ TemplateRefused(a)
    \/ \E e \in certs[i].body.domains : e.subdomainsOnly
    \/ checkIssuer(certs[i].body, newCertificateTemplate(a))
    \/ ClientRejects(certs[i].body, AskedFor(a))

\* A CA that "sets none of its own" is given its issuer's constraints
\* (certtool.go:686), so it is never refused for constraints.
ConstraintsInherited ==
  \A a \in Requests, i \in DOMAIN certs :
    a.ca /\ a.domains = {} /\ a.ranges = {} =>
      constraintsFit(certs[i].body, inheritNameConstraints(certs[i].body, newCertificateTemplate(a)))

\* What is issued "clients will accept" (certtool.go:604): between a CA and any
\* certificate below it there are no more CAs than its path length allows.
PathLengthKept ==
  \A i \in DOMAIN certs : \A j \in certs[i].above :
    certs[j].body.pathLen # noLimit =>
      Cardinality({k \in certs[i].above : j \in certs[k].above}) <= certs[j].body.pathLen
=============================================================================
