---------------------------- MODULE MCFamilies ----------------------------
(* Two instances of Issuance in one run.  The names and the purposes have  *)
(* a family each: what is requested of what parents, and bounds.  A        *)
(* behaviour stays in one family.                                          *)
EXTENDS MCIssuance

Families ==
  {[requests |-> NameRequests, foreign |-> NameForeign, certs |-> 4, now |-> 0],
   [requests |-> UsageRequests, foreign |-> UsageForeign, certs |-> 5, now |-> 2]}
AllRequests == NameRequests \cup UsageRequests
VARIABLE family

MCInit == family \in Families /\ certs = family.foreign /\ now = 0
MCNext ==
  /\ \/ \E a \in family.requests : SelfSign(a)
     \/ \E a \in family.requests, i \in DOMAIN certs : Sign(a, i)
     \/ \E a \in family.requests : CreateSelfSignedCertificate(a)
     \/ Tick
  /\ Len(certs') <= family.certs /\ now' <= family.now
  /\ UNCHANGED family
MCSpec == MCInit /\ [][MCNext]_<<vars, family>>
=============================================================================
