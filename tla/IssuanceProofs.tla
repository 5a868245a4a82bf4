--------------------------- MODULE IssuanceProofs ---------------------------
(***************************************************************************)
(* For any requests, any parents made elsewhere, any number of             *)
(* certificates and any clock: what checkIssuer establishes between a      *)
(* certificate and its issuer holds between the certificate and every CA   *)
(* of its chain.  Apart from domains with a leading dot it refuses only    *)
(* what clients would refuse too.                                          *)
(*                                                                         *)
(* The argument: Within relates a certificate to one above it.  Signing    *)
(* establishes it for the issuer (IssuedWithin), and it is transitive      *)
(* (WithinTransitive) as long as the one in the middle has a usage;        *)
(* without one a CA restricts nothing below it.  Hence the conjunct        *)
(* UsagesGiven of the invariant.                                           *)
(***************************************************************************)
EXTENDS Issuance, TLAPS

\* Certificate t as the properties want it below p.
Within(p, t) ==
  /\ ClientPermits(p, t)
  /\ p.notBefore <= t.notBefore /\ t.notBefore <= t.notAfter /\ t.notAfter <= p.notAfter
  /\ t.ca => Carries(t, p)

ChainsNested ==
  \A i \in DOMAIN certs : \A j \in certs[i].above : Within(certs[j].body, certs[i].body)

\* A signed certificate has a usage.
UsagesGiven == \A i \in DOMAIN certs : certs[i].above # {} => certs[i].body.usages # {}

IInv == TypeOK /\ ChainsNested /\ UsagesGiven

-----------------------------------------------------------------------------
(* Prefixes and domains.                                                   *)

Labels == Seq(Label)

\* IsPrefix, element by element.
LEMMA PrefixElements ==
  ASSUME NEW s \in Labels, NEW t \in Labels
  PROVE  IsPrefix(s, t) <=> Len(s) <= Len(t) /\ \A k \in 1..Len(s) : s[k] = t[k]
<1>1. ASSUME Len(s) <= Len(t)
      PROVE  SubSeq(s, 1, Len(s)) = SubSeq(t, 1, Len(s)) <=> \A k \in 1..Len(s) : s[k] = t[k]
  BY <1>1 DEF Labels
<1> QED BY <1>1 DEF IsPrefix, Labels

LEMMA PrefixTransitive ==
  ASSUME NEW r \in Labels, NEW s \in Labels, NEW t \in Labels, IsPrefix(r, s), IsPrefix(s, t)
  PROVE  IsPrefix(r, t)
<1>1. Len(r) <= Len(s) /\ \A k \in 1..Len(r) : r[k] = s[k]
  BY PrefixElements
<1>2. Len(s) <= Len(t) /\ \A k \in 1..Len(s) : s[k] = t[k]
  BY PrefixElements
<1>3. Len(r) <= Len(t) /\ \A k \in 1..Len(r) : r[k] = t[k]
  BY <1>1, <1>2 DEF Labels
<1> QED BY <1>3, PrefixElements

\* A prefix that is not the whole is shorter.
LEMMA PrefixLength ==
  ASSUME NEW s \in Labels, NEW t \in Labels, IsPrefix(s, t)
  PROVE  Len(s) \in Nat /\ Len(t) \in Nat /\ Len(s) <= Len(t) /\ (s # t => Len(s) < Len(t))
<1>1. Len(s) <= Len(t) /\ \A k \in 1..Len(s) : s[k] = t[k]
  BY PrefixElements
<1>2. ASSUME Len(s) = Len(t) PROVE s = t
  BY <1>1, <1>2 DEF Labels
<1> QED BY <1>1, <1>2 DEF Labels

\* The code's reading of a domain is the clients' reading.
LEMMA PermittedHolds ==
  ASSUME NEW n \in Labels, NEW domains \in SUBSET Domain, dnsNamePermitted(n, domains)
  PROVE  \E d \in domains : DomainHolds(d, n)
<1>1. PICK d \in domains : IsPrefix(d.labels, n) /\ (d.subdomainsOnly => n # d.labels)
  BY DEF dnsNamePermitted, Below
<1>2. d.labels \in Labels
  BY DEF Domain, Labels
<1>3. d.subdomainsOnly => Len(n) > Len(d.labels)
  BY <1>1, <1>2, PrefixLength
<1> QED BY <1>1, <1>3 DEF DomainHolds

\* What holds for a domain holds for each domain that covers it ...
LEMMA CoversHolds ==
  ASSUME NEW e \in Domain, NEW d \in Domain, NEW n \in Labels, DomainCovers(e, d), DomainHolds(d, n)
  PROVE  DomainHolds(e, n)
<1>1. e.labels \in Labels /\ d.labels \in Labels
  BY DEF Domain, Labels
<1>2. IsPrefix(e.labels, d.labels) /\ IsPrefix(d.labels, n)
  BY DEF DomainCovers, DomainHolds
<1>3. IsPrefix(e.labels, n)
  BY <1>1, <1>2, PrefixTransitive
<1>4. /\ Len(e.labels) \in Nat /\ Len(d.labels) \in Nat /\ Len(n) \in Nat
      /\ Len(e.labels) <= Len(d.labels) /\ Len(d.labels) <= Len(n)
  BY <1>1, <1>2, PrefixLength
<1>5. e.subdomainsOnly => Len(n) > Len(e.labels)
  BY <1>4 DEF DomainCovers, DomainHolds
<1> QED BY <1>3, <1>5 DEF DomainHolds

\* ... and so does what it covers.
LEMMA CoversTransitive ==
  ASSUME NEW f \in Domain, NEW e \in Domain, NEW d \in Domain, DomainCovers(f, e), DomainCovers(e, d)
  PROVE  DomainCovers(f, d)
<1>1. f.labels \in Labels /\ e.labels \in Labels /\ d.labels \in Labels
  BY DEF Domain, Labels
<1>2. IsPrefix(f.labels, e.labels) /\ IsPrefix(e.labels, d.labels)
  BY DEF DomainCovers
<1>3. IsPrefix(f.labels, d.labels)
  BY <1>1, <1>2, PrefixTransitive
<1>4. /\ Len(f.labels) \in Nat /\ Len(e.labels) \in Nat /\ Len(d.labels) \in Nat
      /\ Len(f.labels) <= Len(e.labels) /\ Len(e.labels) <= Len(d.labels)
  BY <1>1, <1>2, PrefixLength
<1>5. f.subdomainsOnly => Len(d.labels) > Len(f.labels) \/ d.subdomainsOnly
  BY <1>4 DEF DomainCovers
<1> QED BY <1>3, <1>5 DEF DomainCovers

-----------------------------------------------------------------------------
(* Within is transitive.                                                   *)

LEMMA CarriesTransitive ==
  ASSUME NEW q \in Template, NEW p \in Template, NEW t \in Template, Carries(p, q), Carries(t, p)
  PROVE  Carries(t, q)
<1>1. /\ q.domains \subseteq Domain /\ p.domains \subseteq Domain /\ t.domains \subseteq Domain
      /\ q.ranges \subseteq Labels /\ p.ranges \subseteq Labels /\ t.ranges \subseteq Labels
  BY DEF Template, Labels
<1>2. ASSUME q.domains # {}
      PROVE  t.domains # {} /\ \A d \in t.domains : \E e \in q.domains : DomainCovers(e, d)
  <2>1. p.domains # {} /\ \A d \in p.domains : \E e \in q.domains : DomainCovers(e, d)
    BY <1>2 DEF Carries
  <2>2. t.domains # {} /\ \A d \in t.domains : \E e \in p.domains : DomainCovers(e, d)
    BY <2>1 DEF Carries
  <2> QED BY <1>1, <2>1, <2>2, CoversTransitive
<1>3. ASSUME q.ranges # {}
      PROVE  t.ranges # {} /\ \A r \in t.ranges : \E within \in q.ranges : IsPrefix(within, r)
  <2>1. p.ranges # {} /\ \A r \in p.ranges : \E within \in q.ranges : IsPrefix(within, r)
    BY <1>3 DEF Carries
  <2>2. t.ranges # {} /\ \A r \in t.ranges : \E within \in p.ranges : IsPrefix(within, r)
    BY <2>1 DEF Carries
  <2> QED BY <1>1, <2>1, <2>2, PrefixTransitive
<1> QED BY <1>2, <1>3 DEF Carries

LEMMA PermitsTransitive ==
  ASSUME NEW q \in Template, NEW p \in Template, NEW t \in Template,
         ClientPermits(q, p), Carries(p, q), p.usages # {}, ClientPermits(p, t)
  PROVE  ClientPermits(q, t)
<1>1. /\ q.domains \subseteq Domain /\ p.domains \subseteq Domain /\ t.names \subseteq Labels
      /\ q.ranges \subseteq Labels /\ p.ranges \subseteq Labels /\ t.ips \subseteq Labels
  BY DEF Template, Labels
<1>2. q.ca /\ q.certSign
  BY DEF ClientPermits
<1>3. ASSUME q.domains # {} PROVE \A n \in t.names : \E d \in q.domains : DomainHolds(d, n)
  <2>1. p.domains # {} /\ \A d \in p.domains : \E e \in q.domains : DomainCovers(e, d)
    BY <1>3 DEF Carries
  <2>2. \A n \in t.names : \E d \in p.domains : DomainHolds(d, n)
    BY <2>1 DEF ClientPermits
  <2> QED BY <1>1, <2>1, <2>2, CoversHolds
<1>4. ASSUME q.ranges # {} PROVE \A ip \in t.ips : \E r \in q.ranges : IsPrefix(r, ip)
  <2>1. p.ranges # {} /\ \A r \in p.ranges : \E within \in q.ranges : IsPrefix(within, r)
    BY <1>4 DEF Carries
  <2>2. \A ip \in t.ips : \E r \in p.ranges : IsPrefix(r, ip)
    BY <2>1 DEF ClientPermits
  <2> QED BY <1>1, <2>1, <2>2, PrefixTransitive
<1>5. q.usages = {} \/ t.usages \subseteq q.usages
  BY DEF ClientPermits
<1> QED BY <1>2, <1>3, <1>4, <1>5 DEF ClientPermits

LEMMA WithinTransitive ==
  ASSUME NEW q \in Template, NEW p \in Template, NEW t \in Template,
         Within(q, p), p.usages # {}, Within(p, t)
  PROVE  Within(q, t)
<1>1. p.ca /\ Carries(p, q)
  BY DEF Within, ClientPermits
<1>2. ClientPermits(q, t)
  BY <1>1, PermitsTransitive DEF Within
<1>3. q.notBefore <= t.notBefore /\ t.notBefore <= t.notAfter /\ t.notAfter <= q.notAfter
  BY DEF Within, Template
<1>4. t.ca => Carries(t, q)
  BY <1>1, CarriesTransitive DEF Within
<1> QED BY <1>2, <1>3, <1>4 DEF Within

-----------------------------------------------------------------------------
(* What signing establishes.                                               *)

LEMMA TemplateMade ==
  ASSUME now \in Nat, NEW a \in Args, ~TemplateRefused(a)
  PROVE  /\ newCertificateTemplate(a) \in Template
         /\ newCertificateTemplate(a).usages # {}
         /\ newCertificateTemplate(a).notBefore = now
         /\ newCertificateTemplate(a).notAfter = now + a.validity
<1> DEFINE t == newCertificateTemplate(a)
<1>1. t.usages = extKeyUsage(a) /\ t.notBefore = now /\ t.notAfter = now + a.validity
  BY DEF newCertificateTemplate
<1>2. extKeyUsage(a) \in SUBSET Usages /\ extKeyUsage(a) # {}
  BY DEF extKeyUsage, Usages, Args
<1>3. t.pathLen \in Nat \cup {noLimit}
  <2>1. CASE a.ca /\ a.maxPathLen # {}
    <3>1. \A n \in a.maxPathLen : n \in Int /\ ~(n < 0)
      BY <2>1 DEF TemplateRefused, Args
    <3>2. t.pathLen \in a.maxPathLen
      BY <2>1 DEF newCertificateTemplate
    <3> QED BY <3>1, <3>2
  <2>2. CASE ~(a.ca /\ a.maxPathLen # {})
    BY <2>2 DEF newCertificateTemplate
  <2> QED BY <2>1, <2>2
<1>4. /\ t.ca \in BOOLEAN /\ t.certSign \in BOOLEAN
      /\ t.domains \in SUBSET Domain /\ t.ranges \in SUBSET Seq(Label)
  BY DEF newCertificateTemplate, Args
<1>5. t.names \in SUBSET Seq(Label) /\ t.ips \in SUBSET Seq(Label)
  BY LoopbackAssumption DEF newCertificateTemplate, Args
<1>6. now \in Int /\ now + a.validity \in Int
  BY DEF Args
<1>7. t = [ca |-> t.ca, certSign |-> t.certSign, pathLen |-> t.pathLen, domains |-> t.domains,
           ranges |-> t.ranges, names |-> t.names, ips |-> t.ips, usages |-> t.usages,
           notBefore |-> t.notBefore, notAfter |-> t.notAfter]
  BY DEF newCertificateTemplate
<1> HIDE DEF t
<1>8. t \in Template
  BY <1>1, <1>2, <1>3, <1>4, <1>5, <1>6, <1>7 DEF Template
<1> QED BY <1>1, <1>2, <1>8 DEF t

\* The fields of what is issued.
LEMMA IssuedFields ==
  ASSUME NEW p \in Template, NEW t \in Template
  PROVE  /\ issued(p, t) \in Template
         /\ issued(p, t).ca = t.ca /\ issued(p, t).usages = t.usages
         /\ issued(p, t).notBefore = t.notBefore
         /\ issued(p, t).notAfter = IF t.notAfter > p.notAfter THEN p.notAfter ELSE t.notAfter
         /\ issued(p, t).names = IF p.domains = {} THEN t.names
                                 ELSE {n \in t.names : dnsNamePermitted(n, p.domains)}
         /\ issued(p, t).ips = IF p.ranges = {} THEN t.ips
                               ELSE {ip \in t.ips : ipPermitted(ip, p.ranges)}
         /\ issued(p, t).domains = IF t.ca /\ t.domains = {} THEN p.domains ELSE t.domains
         /\ issued(p, t).ranges = IF t.ca /\ t.ranges = {} THEN p.ranges ELSE t.ranges
<1> DEFINE names == IF p.domains = {} THEN t.names ELSE {n \in t.names : dnsNamePermitted(n, p.domains)}
           ips == IF p.ranges = {} THEN t.ips ELSE {ip \in t.ips : ipPermitted(ip, p.ranges)}
           u == applyNameConstraints(p, t)
           v == inheritNameConstraints(p, u)
<1>1. /\ u \in Template
      /\ u.names = names /\ u.ips = ips
      /\ u.ca = t.ca /\ u.usages = t.usages /\ u.notBefore = t.notBefore /\ u.notAfter = t.notAfter
      /\ u.domains = t.domains /\ u.ranges = t.ranges
  BY DEF applyNameConstraints, Template
<1> HIDE DEF u
<1>2. /\ v \in Template
      /\ v.names = names /\ v.ips = ips
      /\ v.ca = t.ca /\ v.usages = t.usages /\ v.notBefore = t.notBefore /\ v.notAfter = t.notAfter
      /\ v.domains = IF t.ca /\ t.domains = {} THEN p.domains ELSE t.domains
      /\ v.ranges = IF t.ca /\ t.ranges = {} THEN p.ranges ELSE t.ranges
  BY <1>1 DEF inheritNameConstraints, Template
<1>3. issued(p, t) = [v EXCEPT !.notAfter = IF @ > p.notAfter THEN p.notAfter ELSE @]
  BY DEF issued, u
<1> HIDE DEF v, names, ips
<1>4. issued(p, t) \in Template
  BY <1>2, <1>3 DEF Template
<1> QED BY <1>2, <1>3, <1>4 DEF Template, names, ips

LEMMA IssuedWithin ==
  ASSUME now \in Nat, NEW p \in Template, NEW t \in Template, checkIssuer(p, t),
         t.notBefore = now, t.notAfter >= now
  PROVE  Within(p, issued(p, t))
<1> DEFINE c == issued(p, t)
<1>1. /\ c \in Template
      /\ c.ca = t.ca /\ c.usages = t.usages /\ c.notBefore = t.notBefore
      /\ c.notAfter = IF t.notAfter > p.notAfter THEN p.notAfter ELSE t.notAfter
      /\ p.domains # {} => c.names = {n \in t.names : dnsNamePermitted(n, p.domains)}
      /\ p.ranges # {} => c.ips = {ip \in t.ips : ipPermitted(ip, p.ranges)}
      /\ c.domains = IF t.ca /\ t.domains = {} THEN p.domains ELSE t.domains
      /\ c.ranges = IF t.ca /\ t.ranges = {} THEN p.ranges ELSE t.ranges
  BY IssuedFields
<1> HIDE DEF c
<1>2. p.ca /\ p.certSign /\ p.notBefore <= now /\ now <= p.notAfter
  BY DEF checkIssuer, maySign
<1>3. ASSUME p.domains # {} PROVE \A n \in c.names : \E d \in p.domains : DomainHolds(d, n)
  <2>1. \A n \in c.names : n \in Labels /\ dnsNamePermitted(n, p.domains)
    BY <1>1, <1>3 DEF Template, Labels
  <2>2. p.domains \in SUBSET Domain
    BY DEF Template
  <2> QED BY <2>1, <2>2, PermittedHolds
<1>4. ASSUME p.ranges # {} PROVE \A ip \in c.ips : \E r \in p.ranges : IsPrefix(r, ip)
  BY <1>1, <1>4 DEF ipPermitted, Below
<1>5. p.usages = {} \/ c.usages \subseteq p.usages
  BY <1>1 DEF checkIssuer, usagesFit
<1>6. ClientPermits(p, c)
  BY <1>2, <1>3, <1>4, <1>5 DEF ClientPermits
<1>7. p.notBefore <= c.notBefore /\ c.notBefore <= c.notAfter /\ c.notAfter <= p.notAfter
  BY <1>1, <1>2 DEF Template
<1>8. ASSUME c.ca PROVE Carries(c, p)
  <2> DEFINE w == inheritNameConstraints(p, t)
  <2>1. w.domains = c.domains /\ w.ranges = c.ranges
    BY <1>1 DEF inheritNameConstraints, Template
  <2>2. constraintsFit(p, w)
    BY DEF checkIssuer
  <2> HIDE DEF w
  <2>3. ASSUME p.domains # {}
        PROVE  c.domains # {} /\ \A d \in c.domains : \E e \in p.domains : DomainCovers(e, d)
    <3>1. c.domains # {}
      BY <1>1, <1>8, <2>3
    <3>2. \A d \in c.domains : dnsNamePermitted(d.labels, p.domains)
      BY <2>1, <2>2, <2>3 DEF constraintsFit
    <3>3. ASSUME NEW d \in c.domains PROVE \E e \in p.domains : DomainCovers(e, d)
      <4>1. d.labels \in Labels /\ p.domains \in SUBSET Domain
        BY <1>1 DEF Template, Domain, Labels
      <4>2. PICK e \in p.domains : DomainHolds(e, d.labels)
        BY <3>2, <4>1, PermittedHolds
      <4> QED BY <4>2 DEF DomainHolds, DomainCovers
    <3> QED BY <3>1, <3>3
  <2>4. ASSUME p.ranges # {}
        PROVE  c.ranges # {} /\ \A r \in c.ranges : \E within \in p.ranges : IsPrefix(within, r)
    <3>1. c.ranges # {}
      BY <1>1, <1>8, <2>4
    <3> QED BY <2>1, <2>2, <2>4, <3>1 DEF constraintsFit, ipRangeWithin, Below
  <2> QED BY <2>3, <2>4 DEF Carries
<1> QED BY <1>6, <1>7, <1>8 DEF Within, c

-----------------------------------------------------------------------------
(* What checkIssuer refuses.                                               *)

LEMMA PrefixReflexive == \A s \in Labels : IsPrefix(s, s)
BY PrefixElements DEF Labels

\* Apart from leading dots, the code permits whatever clients permit.
LEMMA HoldsPermitted ==
  ASSUME NEW n, NEW domains, NEW d \in domains, ~d.subdomainsOnly, IsPrefix(d.labels, n)
  PROVE  dnsNamePermitted(n, domains)
BY DEF dnsNamePermitted, Below

\* The names and addresses that must be permitted are the ones asked for.
LEMMA AskedForFields ==
  ASSUME now \in Nat, NEW a \in Args, ~TemplateRefused(a)
  PROVE  LET t == newCertificateTemplate(a)
         IN  /\ t.names \ {Localhost} \subseteq AskedFor(a).names
             /\ t.ips \ {Loopback} \subseteq AskedFor(a).ips
             /\ AskedFor(a).ca = t.ca /\ AskedFor(a).usages = t.usages
             /\ AskedFor(a).domains = t.domains /\ AskedFor(a).ranges = t.ranges
<1> DEFINE t == newCertificateTemplate(a)
<1>1. t \in Template
  BY TemplateMade
<1>2. AskedFor(a) = [t EXCEPT !.names = IF AddsLoopback(a) THEN @ \ {Localhost} ELSE @,
                              !.ips = IF AddsLoopback(a) THEN @ \ {Loopback} ELSE @]
  BY DEF AskedFor
<1> HIDE DEF t
<1>3. /\ t.names \ {Localhost} \subseteq AskedFor(a).names
      /\ t.ips \ {Loopback} \subseteq AskedFor(a).ips
      /\ AskedFor(a).ca = t.ca /\ AskedFor(a).usages = t.usages
      /\ AskedFor(a).domains = t.domains /\ AskedFor(a).ranges = t.ranges
  BY <1>1, <1>2 DEF Template
<1> QED BY <1>3 DEF t

LEMMA AcceptsWhatClientsAccept ==
  ASSUME now \in Nat, NEW p \in Template, NEW a \in Args, ~TemplateRefused(a),
         \A e \in p.domains : ~e.subdomainsOnly, ~ClientRejects(p, AskedFor(a))
  PROVE  checkIssuer(p, newCertificateTemplate(a))
<1> DEFINE t == newCertificateTemplate(a)
           asked == AskedFor(a)
           w == inheritNameConstraints(p, t)
<1>1. t \in Template
  BY TemplateMade
<1>2. /\ t.names \ {Localhost} \subseteq asked.names /\ t.ips \ {Loopback} \subseteq asked.ips
      /\ asked.ca = t.ca /\ asked.usages = t.usages
      /\ asked.domains = t.domains /\ asked.ranges = t.ranges
  BY AskedForFields
<1>3. /\ w.domains = IF t.ca /\ t.domains = {} THEN p.domains ELSE t.domains
      /\ w.ranges = IF t.ca /\ t.ranges = {} THEN p.ranges ELSE t.ranges
  BY <1>1 DEF inheritNameConstraints, Template
<1> HIDE DEF t, asked
<1>4. /\ ClientPermits(p, asked) /\ ~(now < p.notBefore) /\ ~(p.notAfter < now) /\ ~(asked.ca /\ p.pathLen = 0)
      /\ p.domains # {} => \A d \in asked.domains : \E e \in p.domains : DomainCovers(e, d)
      /\ p.ranges # {} => \A r \in asked.ranges : \E within \in p.ranges : IsPrefix(within, r)
  BY DEF ClientRejects, asked
<1> HIDE DEF w
<1>5. maySign(p, t)
  BY <1>2, <1>4 DEF maySign, ClientPermits, Template
<1>6. namesFit(p, t)
  <2>1. ASSUME p.domains # {}, NEW n \in t.names \ {Localhost} PROVE dnsNamePermitted(n, p.domains)
    <3>1. PICK d \in p.domains : DomainHolds(d, n)
      BY <1>2, <1>4, <2>1 DEF ClientPermits
    <3> QED BY <3>1, HoldsPermitted DEF DomainHolds
  <2>2. ASSUME p.ranges # {}, NEW ip \in t.ips \ {Loopback} PROVE ipPermitted(ip, p.ranges)
    BY <1>2, <1>4, <2>2 DEF ClientPermits, ipPermitted, Below
  <2> QED BY <2>1, <2>2 DEF namesFit
<1>7. constraintsFit(p, w)
  <2>1. ASSUME p.domains # {}, NEW d \in w.domains PROVE dnsNamePermitted(d.labels, p.domains)
    <3>1. CASE d \in p.domains
      <4>1. IsPrefix(d.labels, d.labels)
        BY <3>1, PrefixReflexive DEF Template, Domain, Labels
      <4> QED BY <3>1, <4>1, HoldsPermitted
    <3>2. CASE d \in t.domains
      <4>1. PICK e \in p.domains : DomainCovers(e, d)
        BY <1>2, <1>4, <2>1, <3>2
      <4> QED BY <4>1, HoldsPermitted DEF DomainCovers
    <3> QED BY <1>3, <2>1, <3>1, <3>2
  <2>2. ASSUME p.ranges # {}, NEW r \in w.ranges PROVE \E within \in p.ranges : ipRangeWithin(r, within)
    <3>1. CASE r \in p.ranges
      <4>1. IsPrefix(r, r)
        BY <3>1, PrefixReflexive DEF Template, Labels
      <4> QED BY <3>1, <4>1 DEF ipRangeWithin, Below
    <3>2. CASE r \in t.ranges
      BY <1>2, <1>4, <2>2, <3>2 DEF ipRangeWithin, Below
    <3> QED BY <1>3, <2>2, <3>1, <3>2
  <2> QED BY <2>1, <2>2 DEF constraintsFit
<1>8. usagesFit(p, t)
  BY <1>2, <1>4 DEF usagesFit, ClientPermits
<1> QED BY <1>5, <1>6, <1>7, <1>8 DEF checkIssuer, t, w

-----------------------------------------------------------------------------
(* The inductive invariant.                                                *)

LEMMA InitIInv == Init => IInv
<1> SUFFICES ASSUME Init PROVE IInv
  OBVIOUS
<1>1. certs = Foreign /\ now = 0
  BY DEF Init
<1>2. \A i \in DOMAIN certs : certs[i].above = {}
  BY <1>1, ForeignAssumption
<1>3. TypeOK
  BY <1>1, <1>2, ForeignAssumption DEF TypeOK
<1> QED BY <1>2, <1>3 DEF IInv, ChainsNested, UsagesGiven

\* A new certificate keeps the invariant when it fits below each of its
\* issuers, which are all of a chain.
LEMMA AddKeeps ==
  ASSUME IInv, NEW t \in Template, NEW above \in SUBSET DOMAIN certs, Add(t, above),
         \A j \in above : certs[j].above \subseteq above,
         \A j \in above : Within(certs[j].body, t),
         above # {} => t.usages # {}
  PROVE  IInv'
<1> DEFINE new == [body |-> t, above |-> above]
           m == Len(certs)
<1>1. certs \in Seq(Certificate) /\ m \in Nat /\ DOMAIN certs = 1..m
  BY DEF IInv, TypeOK
<1>2. new \in Certificate /\ new.body = t /\ new.above = above
  <2>1. above \in SUBSET Nat
    BY <1>1
  <2> QED BY <2>1 DEF Certificate
<1>3. certs' = Append(certs, new) /\ now' = now
  BY DEF Add
<1> HIDE DEF new
<1>4. /\ certs' \in Seq(Certificate)
      /\ DOMAIN certs' = 1..(m + 1)
      /\ \A i \in 1..m : certs'[i] = certs[i]
      /\ certs'[m + 1] = new
  BY <1>1, <1>2, <1>3
<1> HIDE DEF m
<1>5. /\ now \in Nat
      /\ \A i \in 1..m : \A j \in certs[i].above :
           j \in 1..m /\ j < i /\ certs[j].above \subseteq certs[i].above
      /\ \A i \in 1..m : \A j \in certs[i].above : Within(certs[j].body, certs[i].body)
      /\ \A i \in 1..m : certs[i].above # {} => certs[i].body.usages # {}
  BY <1>1 DEF IInv, TypeOK, ChainsNested, UsagesGiven
<1>6. above \subseteq 1..m
  BY <1>1
<1>7. ASSUME NEW i \in 1..(m + 1)
      PROVE  /\ \A j \in certs'[i].above :
                  /\ j \in 1..(m + 1) /\ j < i /\ certs'[j].above \subseteq certs'[i].above
                  /\ Within(certs'[j].body, certs'[i].body)
             /\ certs'[i].above # {} => certs'[i].body.usages # {}
  <2>1. CASE i \in 1..m
    <3>1. certs'[i] = certs[i] /\ \A j \in certs[i].above : certs'[j] = certs[j] /\ j \in 1..(m + 1)
      BY <1>1, <1>4, <1>5, <2>1
    <3> QED BY <1>5, <2>1, <3>1
  <2>2. CASE i = m + 1
    <3>1. certs'[i].above = above /\ certs'[i].body = t
      BY <1>2, <1>4, <2>2
    <3>2. \A j \in above : j \in 1..(m + 1) /\ j < i /\ certs'[j] = certs[j]
      BY <1>1, <1>4, <1>6, <2>2
    <3> QED BY <3>1, <3>2
  <2> QED BY <1>1, <2>1, <2>2
<1>8. TypeOK'
  BY <1>3, <1>4, <1>5, <1>7 DEF TypeOK
<1>9. ChainsNested' /\ UsagesGiven'
  BY <1>4, <1>7 DEF ChainsNested, UsagesGiven
<1> QED BY <1>8, <1>9 DEF IInv

LEMMA SelfSignedKeeps ==
  ASSUME IInv, NEW t \in Template, Add(t, {})
  PROVE  IInv'
<1>1. {} \in SUBSET DOMAIN certs
  OBVIOUS
<1> QED BY <1>1, AddKeeps

LEMMA SignKeeps ==
  ASSUME IInv, NEW a \in Args, NEW i \in DOMAIN certs, Sign(a, i)
  PROVE  IInv'
<1> DEFINE p == certs[i].body
           t == newCertificateTemplate(a)
           c == issued(p, t)
           above == certs[i].above \cup {i}
<1>1. /\ certs \in Seq(Certificate) /\ DOMAIN certs = 1..Len(certs) /\ now \in Nat
      /\ \A k \in DOMAIN certs : certs[k] \in Certificate
      /\ \A k \in DOMAIN certs : \A j \in certs[k].above :
           j \in DOMAIN certs /\ j < k /\ certs[j].above \subseteq certs[k].above
  BY DEF IInv, TypeOK
<1>2. \A k \in DOMAIN certs : certs[k].body \in Template
  BY <1>1 DEF Certificate
<1>3. ~TemplateRefused(a) /\ checkIssuer(p, t) /\ Add(c, above)
  BY DEF Sign
<1>4. t \in Template /\ t.usages # {} /\ t.notBefore = now /\ t.notAfter = now + a.validity
  BY <1>1, <1>3, TemplateMade
<1>5. t.notAfter >= now
  BY <1>1, <1>4 DEF Args
<1>6. p \in Template
  BY <1>2
<1> HIDE DEF t, p
<1>7. c \in Template /\ c.usages # {}
  BY <1>4, <1>6, IssuedFields
<1>8. Within(p, c)
  BY <1>1, <1>3, <1>4, <1>5, <1>6, IssuedWithin
<1> HIDE DEF c
<1>9. above \in SUBSET DOMAIN certs /\ \A j \in above : certs[j].above \subseteq above
  BY <1>1
<1>10. ASSUME NEW j \in above PROVE Within(certs[j].body, c)
  <2>1. CASE j = i
    BY <1>8, <2>1 DEF p
  <2>2. CASE j \in certs[i].above
    <3>1. Within(certs[j].body, p) /\ p.usages # {}
      BY <2>2 DEF IInv, ChainsNested, UsagesGiven, p
    <3>2. certs[j].body \in Template
      BY <1>2, <1>9
    <3> QED BY <1>6, <1>7, <1>8, <3>1, <3>2, WithinTransitive
  <2> QED BY <2>1, <2>2
<1> HIDE DEF above
<1> QED BY <1>3, <1>7, <1>9, <1>10, AddKeeps

LEMMA StepIInv == IInv /\ [Next]_vars => IInv'
<1> SUFFICES ASSUME IInv, [Next]_vars PROVE IInv'
  OBVIOUS
<1>1. now \in Nat
  BY DEF IInv, TypeOK
<1>2. ASSUME NEW a \in Requests, SelfSign(a) PROVE IInv'
  <2>1. a \in Args
    BY RequestsAssumption
  <2>2. newCertificateTemplate(a) \in Template /\ Add(newCertificateTemplate(a), {})
    BY <1>1, <1>2, <2>1, TemplateMade DEF SelfSign
  <2> QED BY <2>2, SelfSignedKeeps
<1>3. ASSUME NEW a \in Requests, NEW i \in DOMAIN certs, Sign(a, i) PROVE IInv'
  <2>1. a \in Args
    BY RequestsAssumption
  <2> QED BY <1>3, <2>1, SignKeeps
<1>4. ASSUME NEW a \in Requests, CreateSelfSignedCertificate(a) PROVE IInv'
  <2> DEFINE t == newCertificateTemplate(a)
             u == [t EXCEPT !.usages = {}]
  <2>1. t \in Template /\ Add(u, {})
    BY <1>1, <1>4, RequestsAssumption, TemplateMade DEF CreateSelfSignedCertificate
  <2> HIDE DEF t
  <2>2. u \in Template
    BY <2>1 DEF Template
  <2> HIDE DEF u
  <2> QED BY <2>1, <2>2, SelfSignedKeeps
<1>5. CASE Tick
  BY <1>1, <1>5 DEF Tick, IInv, TypeOK, ChainsNested, UsagesGiven
<1>6. CASE UNCHANGED vars
  BY <1>6 DEF vars, IInv, TypeOK, ChainsNested, UsagesGiven
<1> QED BY <1>2, <1>3, <1>4, <1>5, <1>6 DEF Next

LEMMA Invariance == Spec => []IInv
<1> QED BY InitIInv, StepIInv, PTL DEF Spec

-----------------------------------------------------------------------------
(* The theorems.                                                           *)

\* Certificates are templates below earlier certificates, whose chains they
\* share, and none has a negative path length.
THEOREM TypeCorrect == Spec => []TypeOK
<1>1. IInv => TypeOK
  BY DEF IInv
<1> QED BY <1>1, Invariance, PTL

\* Every CA of a chain, not only the issuer that checkIssuer looked at, permits
\* the names, the addresses and the usages of every certificate below it.
THEOREM ChainsPermitted == Spec => []ChainPermits
<1>1. IInv => ChainPermits
  BY DEF IInv, ChainsNested, Within, ChainPermits
<1> QED BY <1>1, Invariance, PTL

\* No certificate is valid at a time when one above it is not.
THEOREM Lifetimes == Spec => []ValidWithinIssuers
<1>1. IInv => ValidWithinIssuers
  BY DEF IInv, ChainsNested, Within, ValidWithinIssuers
<1> QED BY <1>1, Invariance, PTL

\* Below a CA with name constraints every CA has some, within them.
THEOREM ConstraintsNarrow == Spec => []ConstraintsCarried
<1>1. IInv => ConstraintsCarried
  BY DEF IInv, ChainsNested, Within, ConstraintsCarried
<1> QED BY <1>1, Invariance, PTL

\* checkIssuer refuses nothing without cause: where no CA has a domain with a
\* leading dot, clients would reject what it refuses.
THEOREM RefusesForCause == Spec => []RefusedForCause
<1>1. IInv => RefusedForCause
  <2> SUFFICES ASSUME IInv, NEW a \in Requests, NEW i \in DOMAIN certs, ~TemplateRefused(a),
                      \A e \in certs[i].body.domains : ~e.subdomainsOnly,
                      ~ClientRejects(certs[i].body, AskedFor(a))
               PROVE  checkIssuer(certs[i].body, newCertificateTemplate(a))
    BY DEF RefusedForCause
  <2>1. now \in Nat /\ certs[i].body \in Template
    <3>1. now \in Nat /\ certs \in Seq(Certificate)
      BY DEF IInv, TypeOK
    <3>2. certs[i] \in Certificate
      BY <3>1
    <3> QED BY <3>1, <3>2 DEF Certificate
  <2>2. a \in Args
    BY RequestsAssumption DEF RequestsAssumption
  <2> QED BY <2>1, <2>2, AcceptsWhatClientsAccept
<1> QED BY <1>1, Invariance, PTL
=============================================================================
