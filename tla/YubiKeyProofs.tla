--------------------------- MODULE YubiKeyProofs ---------------------------
(***************************************************************************)
(* For any number of PIN retries, keys, sessions and changes by other      *)
(* programs: a session spends at most one attempt at the PIN, no           *)
(* certificate is issued that its issuer's certificate does not verify,    *)
(* and GenerateRoot leaves what it says it leaves.                         *)
(*                                                                         *)
(* None of the properties but IssuedVerifies is inductive.  PINNoted adds  *)
(* that the attempt which was spent is noted; RootInv what GenerateRoot    *)
(* knows between its calls: the Token is open, the slot's key is the one   *)
(* it generated, and the slot holds no certificate it may not overwrite.   *)
(***************************************************************************)
EXTENDS YubiKey, TLAPS

PINNoted ==
  /\ attempts \in {0, 1}
  /\ attempts = 1 => pinRejected
  /\ cfg.pin = "impossible" => attempts = 0

\* What GenerateRoot relies on in the middle of its steps.
RootPending ==
  pc # "idle" =>
    /\ open /\ outcome # "ok"
    /\ slotCert = NoCertificate \/ root.overwrite
    /\ pc \in {"selfSign", "store"} => root.key = slotKey /\ root.key # NoKey

RootInv == RootPending /\ RootUsable
IInv == TypeOK /\ PINNoted /\ IssuedVerifies /\ RootInv

LEMMA Bounds == MaxRetries \in Nat /\ MaxKeys \in Nat /\ 1 <= MaxKeys
BY BoundsAssumption DEF BoundsAssumption

LEMMA Ends == \A n \in Nat : 0 \in 0..n /\ n \in 0..n
OBVIOUS

LEMMA UpToIsNat == \A m \in Nat : \A n \in 0..m : n \in Nat
OBVIOUS

-----------------------------------------------------------------------------
(* What the operations on the PIN may change.                              *)

\* Each way to use the PIN: it changes the PIN's state only, and a rejected
\* one is noted.
LEMMA PINTypes ==
  ASSUME TypeOK, PINFails \/ PINPasses \/ UNCHANGED pinState
  PROVE  retries' \in 0..MaxRetries /\ verified' \in BOOLEAN /\ pinRejected' \in BOOLEAN /\ attempts' \in Nat
<1>1. /\ MaxRetries \in Nat /\ retries \in 0..MaxRetries
      /\ verified \in BOOLEAN /\ pinRejected \in BOOLEAN /\ attempts \in Nat
  BY Bounds DEF TypeOK
<1>2. CASE PINFails
  <2>1. \/ retries' = retries
        \/ retries' = IF retries = 0 THEN 0 ELSE retries - 1
    BY <1>2 DEF PINFails, pinState
  <2>2. retries' \in 0..MaxRetries
    BY <1>1, <2>1
  <2>3. attempts' \in Nat
    BY <1>1, <1>2 DEF PINFails, pinState
  <2>4. verified' \in BOOLEAN /\ pinRejected' \in BOOLEAN
    BY <1>1, <1>2, Zenon DEF PINFails, pinState
  <2> QED
    BY <2>2, <2>3, <2>4
<1>3. CASE PINPasses
  <2>1. retries' = MaxRetries /\ verified' = TRUE /\ pinRejected' = pinRejected /\ attempts' = attempts
    BY <1>3 DEF PINPasses
  <2> QED
    BY <1>1, <2>1
<1>4. CASE UNCHANGED pinState
  BY <1>1, <1>4 DEF pinState
<1> QED
  BY <1>2, <1>3, <1>4

LEMMA PINKeepsNote ==
  ASSUME TypeOK, PINNoted, PINFails \/ PINPasses \/ UNCHANGED pinState, cfg' = cfg
  PROVE  PINNoted'
<1>1. CASE PINFails
  <2>1. CASE UNCHANGED pinState
    BY <2>1 DEF PINNoted, pinState
  <2>2. CASE /\ ~pinRejected /\ pinRejected' = TRUE
             /\ attempts' = attempts \/ (attempts' = attempts + 1 /\ cfg.pin # "impossible")
    <3>1. attempts = 0
      BY <2>2 DEF PINNoted
    <3>2. attempts' \in {0, 1} /\ (cfg.pin = "impossible" => attempts' = 0)
      BY <2>2, <3>1
    <3> QED
      BY <2>2, <3>2 DEF PINNoted
  <2> QED
    BY <1>1, <2>1, <2>2, Zenon DEF PINFails
<1>2. CASE PINPasses
  BY <1>2 DEF PINNoted, PINPasses
<1>3. CASE UNCHANGED pinState
  BY <1>3 DEF PINNoted, pinState
<1> QED
  BY <1>1, <1>2, <1>3

LEMMA KeyUse ==
  ASSUME NEW policy, NEW actual, KeyUsed(policy, actual) \/ KeyRefused(policy)
  PROVE  PINFails \/ PINPasses \/ UNCHANGED pinState
BY DEF KeyUsed, KeyRefused

\* Each step leaves the PIN alone, uses it within the session, or opens one.
LEMMA PINOfStep ==
  ASSUME Next
  PROVE  \/ (PINFails \/ PINPasses \/ UNCHANGED pinState) /\ cfg' = cfg
         \/ \E c \in Configs : Open(c)
         \/ Close \/ OtherProgram
<1> USE DEF session
<1>1. ASSUME NEW s \in signers, Sign(s)
      PROVE  (PINFails \/ PINPasses \/ UNCHANGED pinState) /\ cfg' = cfg
  BY <1>1, KeyUse DEF Sign
<1>2. CASE ECDH
  BY <1>2, KeyUse DEF ECDH
<1>3. ASSUME NEW overwrite \in BOOLEAN, GenerateRoot(overwrite)
      PROVE  (PINFails \/ PINPasses \/ UNCHANGED pinState) /\ cfg' = cfg
  BY <1>3 DEF GenerateRoot, managementKey
<1>4. CASE SelfSign
  BY <1>4 DEF SelfSign
<1>5. CASE Issuer \/ GenerateKey \/ SetCertificate
  BY <1>5 DEF Issuer, GenerateKey, SetCertificate, pinState
<1> QED
  BY <1>1, <1>2, <1>3, <1>4, <1>5 DEF Next

-----------------------------------------------------------------------------
(* Types.                                                                  *)

LEMMA TypeInit == Init => TypeOK
<1> SUFFICES ASSUME Init PROVE TypeOK
  OBVIOUS
<1> USE Bounds DEF Init, NoKey, NoRoot
<1>1. slotKey \in {NoKey} \cup 1..keys /\ slotPolicy \in Policies /\ keys \in 0..MaxKeys
  OBVIOUS
<1>2. slotCert \in {NoCertificate} \cup SlotCertificate
  <2>1. 1 \in Keys
    BY DEF Keys
  <2> QED
    BY <2>1 DEF SlotCertificate
<1>3. cfg \in Configs
  BY ConfigsAssumption DEF ConfigsAssumption
<1>4. retries \in 0..MaxRetries
  OBVIOUS
<1>5. root \in [overwrite : BOOLEAN, key : 0..keys, authorized : BOOLEAN]
  OBVIOUS
<1> QED
  BY <1>1, <1>2, <1>3, <1>4, <1>5 DEF TypeOK

\* The parts of the state, each with the operations that change it.
SlotTypes ==
  /\ slotKey \in {NoKey} \cup 1..keys /\ slotPolicy \in Policies /\ keys \in 0..MaxKeys
  /\ slotCert \in {NoCertificate} \cup SlotCertificate
CardTypes == agePolicy \in Policies /\ mkDefault \in BOOLEAN /\ mkProtected \in BOOLEAN
PINTypesOK == retries \in 0..MaxRetries /\ verified \in BOOLEAN /\ pinRejected \in BOOLEAN /\ attempts \in Nat
SessionTypes == open \in BOOLEAN /\ cfg \in Configs /\ signers \subseteq Signer
RootTypes ==
  /\ pc \in {"idle", "generate", "selfSign", "store"}
  /\ root \in [overwrite : BOOLEAN, key : 0..keys, authorized : BOOLEAN]
  /\ outcome \in {"none", "ok", "failed", "key without certificate"}
IssuedTypes == issued \subseteq [by : Keys, issuer : Keys]

LEMMA TypeParts ==
  TypeOK <=> SlotTypes /\ CardTypes /\ PINTypesOK /\ SessionTypes /\ RootTypes /\ IssuedTypes
             /\ sessions \in Nat /\ changes \in Nat
BY DEF TypeOK, SlotTypes, CardTypes, PINTypesOK, SessionTypes, RootTypes, IssuedTypes

LEMMA PINTypesStep == TypeOK /\ [Next]_vars => PINTypesOK'
<1> SUFFICES ASSUME TypeOK, [Next]_vars PROVE PINTypesOK'
  OBVIOUS
<1>1. CASE PINFails \/ PINPasses \/ UNCHANGED pinState
  BY <1>1, PINTypes DEF PINTypesOK
<1>2. ASSUME NEW c \in Configs, Open(c) PROVE PINTypesOK'
  BY <1>2 DEF Open, TypeOK, PINTypesOK
<1>3. CASE Close
  BY <1>3 DEF Close, TypeOK, PINTypesOK
<1>4. CASE OtherProgram
  <2>1. retries' \in {retries, MaxRetries} /\ UNCHANGED <<verified, pinRejected, attempts>>
    BY <1>4 DEF OtherProgram, slot
  <2> QED
    <3>1. retries' \in 0..MaxRetries
      <4>1. retries \in 0..MaxRetries /\ MaxRetries \in 0..MaxRetries
        BY Bounds, Ends, Zenon DEF TypeOK
      <4> QED
        BY <2>1, <4>1
    <3> QED
      BY <2>1, <3>1 DEF TypeOK, PINTypesOK
<1> QED
  BY <1>1, <1>2, <1>3, <1>4, PINOfStep DEF vars

\* What GenerateRoot does before its first change to the slot.
LEMMA ManagementKey ==
  ASSUME NEW overwrite, managementKey(overwrite)
  PROVE  (\E authorized \in BOOLEAN : Starts(overwrite, authorized)) \/ UNCHANGED rootCall
<1>1. ASSUME cfg.managementKey \in {"right", "wrong"}, Starts(overwrite, cfg.managementKey = "right")
      PROVE  \E authorized \in BOOLEAN : Starts(overwrite, authorized)
  <2>1. (cfg.managementKey = "right") \in BOOLEAN
    OBVIOUS
  <2> QED
    BY <1>1, <2>1
<1>2. ASSUME Starts(overwrite, mkProtected \/ mkDefault)
      PROVE  \E authorized \in BOOLEAN : Starts(overwrite, authorized)
  <2>1. (mkProtected \/ mkDefault) \in BOOLEAN
    OBVIOUS
  <2> QED
    BY <1>2, <2>1
<1> QED
  BY <1>1, <1>2 DEF managementKey

LEMMA Frames ==
  /\ SlotTypes /\ UNCHANGED slot => SlotTypes'
  /\ CardTypes /\ UNCHANGED card => CardTypes'
  /\ SessionTypes /\ UNCHANGED session => SessionTypes'
  /\ RootTypes /\ UNCHANGED <<rootCall, keys>> => RootTypes'
  /\ IssuedTypes /\ UNCHANGED issued => IssuedTypes'
<1>1. SlotTypes /\ UNCHANGED slot => SlotTypes'
  BY DEF SlotTypes, slot
<1>2. CardTypes /\ UNCHANGED card => CardTypes'
  BY DEF CardTypes, card
<1>3. SessionTypes /\ UNCHANGED session => SessionTypes'
  BY DEF SessionTypes, session
<1>4. RootTypes /\ UNCHANGED <<rootCall, keys>> => RootTypes'
  BY DEF RootTypes, rootCall
<1> QED
  BY <1>1, <1>2, <1>3, <1>4 DEF IssuedTypes

LEMMA KeysTypes ==
  ASSUME SlotTypes
  PROVE  keys \in Nat /\ MaxKeys \in Nat /\ keys <= MaxKeys
BY Bounds DEF SlotTypes

\* A step that ends GenerateRoot, or leaves its variables.
LEMMA RootEnds ==
  ASSUME SlotTypes, SlotTypes', NEW what \in {"none", "ok", "failed", "key without certificate"},
         pc' = "idle", root' = NoRoot, outcome' = what
  PROVE  RootTypes'
<1>1. NoRoot \in [overwrite : BOOLEAN, key : 0..keys', authorized : BOOLEAN]
  <2>1. 0 \in 0..keys'
    <3>1. keys' \in 0..MaxKeys
      BY DEF SlotTypes
    <3>2. keys' \in Nat
      BY <3>1, Bounds, UpToIsNat, Zenon
    <3> QED
      BY <3>2, Ends, Zenon
  <2> QED
    BY <2>1, Zenon DEF NoRoot, NoKey
<1> QED
  BY <1>1 DEF RootTypes

\* The key GenerateRoot will certify exists.
LEMMA GeneratedKey ==
  ASSUME TypeOK, RootPending, pc = "store"
  PROVE  root.key \in Keys
<1>1. SlotTypes /\ RootTypes
  BY TypeParts
<1>2. root.key # 0
  BY Zenon DEF RootPending, NoKey
<1>3. root.key \in 0..keys
  BY <1>1 DEF RootTypes
<1> QED
  BY <1>1, <1>2, <1>3, KeysTypes DEF Keys

LEMMA SlotStep == TypeOK /\ RootPending /\ [Next]_vars => SlotTypes'
<1> SUFFICES ASSUME TypeOK, RootPending, [Next]_vars PROVE SlotTypes'
  OBVIOUS
<1>0. SlotTypes /\ RootTypes
  BY TypeParts
<1>1. CASE GenerateKey
  <2>1. CASE keys < MaxKeys /\ keys' = keys + 1 /\ slotKey' = keys + 1 /\ slotPolicy' = "always" /\ slotCert' = slotCert
    BY <1>0, <2>1, KeysTypes DEF SlotTypes, Policies
  <2> QED
    BY <1>0, <1>1, <2>1, Frames DEF GenerateKey
<1>2. CASE SetCertificate
  <2>1. root.key \in Keys
    BY <1>2, GeneratedKey DEF SetCertificate
  <2>2. slotCert' \in {NoCertificate} \cup SlotCertificate
    <3>1. slotCert' \in {slotCert, [key |-> root.key, usable |-> TRUE]}
      BY <1>2 DEF SetCertificate
    <3>2. [key |-> root.key, usable |-> TRUE] \in SlotCertificate
      BY <2>1 DEF SlotCertificate
    <3> QED
      BY <1>0, <3>1, <3>2 DEF SlotTypes
  <2> QED
    BY <1>0, <1>2, <2>2 DEF SetCertificate, SlotTypes
<1>3. CASE OtherProgram
  <2>1. CASE keys < MaxKeys /\ keys' = keys + 1 /\ slotKey' = keys + 1 /\ slotPolicy' \in Policies /\ slotCert' = slotCert
    BY <1>0, <2>1, KeysTypes DEF SlotTypes
  <2>2. CASE slotCert' \in {NoCertificate} \cup [key : 1..keys, usable : BOOLEAN] /\ UNCHANGED <<slotKey, slotPolicy, keys>>
    <3>1. 1..keys \subseteq Keys
      BY <1>0, KeysTypes DEF Keys
    <3>2. slotCert' \in {NoCertificate} \cup SlotCertificate
      BY <2>2, <3>1 DEF SlotCertificate
    <3> QED
      BY <1>0, <2>2, <3>2 DEF SlotTypes
  <2> QED
    BY <1>0, <1>3, <2>1, <2>2, Frames DEF OtherProgram
<1>4. CASE UNCHANGED slot
  BY <1>0, <1>4, Frames
<1> QED
  BY <1>1, <1>2, <1>3, <1>4
  DEF Next, vars, Open, Close, Issuer, Sign, ECDH, GenerateRoot, SelfSign
LEMMA RootTypesStep == TypeOK /\ RootPending /\ [Next]_vars => RootTypes'
<1> SUFFICES ASSUME TypeOK, RootPending, [Next]_vars PROVE RootTypes'
  OBVIOUS
<1>0. SlotTypes /\ SlotTypes' /\ RootTypes
  BY TypeParts, SlotStep
<1>1. ASSUME NEW what \in {"none", "ok", "failed", "key without certificate"}, Fails(what)
      PROVE  RootTypes'
  BY <1>0, <1>1, RootEnds DEF Fails
<1>2. CASE UNCHANGED <<rootCall, keys>>
  BY <1>0, <1>2, Frames
<1>3. CASE Close
  BY <1>0, <1>3, RootEnds DEF Close, RootTypes
<1>4. ASSUME NEW overwrite \in BOOLEAN, GenerateRoot(overwrite) PROVE RootTypes'
  <2>1. keys' = keys
    BY <1>4 DEF GenerateRoot, slot
  <2>2. ASSUME NEW authorized \in BOOLEAN, Starts(overwrite, authorized) PROVE RootTypes'
    <3>1. keys' \in Nat
      BY <1>0, <2>1, KeysTypes
    <3>2. 0 \in 0..keys'
      BY <3>1, Ends, Zenon
    <3> QED
      BY <2>2, <3>2 DEF Starts, RootTypes, NoKey
  <2> QED
    BY <1>2, <1>4, <2>1, <2>2, ManagementKey DEF GenerateRoot
<1>5. CASE GenerateKey
  <2>1. CASE keys' = keys + 1 /\ pc' = "selfSign" /\ root' = [root EXCEPT !.key = keys + 1] /\ outcome' = outcome
    <3>1. keys + 1 \in 0..keys'
      BY <1>0, <2>1, KeysTypes
    <3> QED
      BY <1>0, <2>1, <3>1 DEF RootTypes
  <2> QED
    BY <1>1, <1>5, <2>1 DEF GenerateKey
<1>6. CASE SelfSign
  <2>1. CASE pc' = "store" /\ UNCHANGED <<root, outcome, keys>>
    BY <1>0, <2>1 DEF RootTypes
  <2> QED
    BY <1>1, <1>6, <2>1 DEF SelfSign, slot
<1>7. CASE SetCertificate
  BY <1>0, <1>1, <1>7, RootEnds DEF SetCertificate
<1>8. CASE OtherProgram
  <2>1. /\ UNCHANGED <<pc, root>> /\ outcome' = "none"
        /\ keys' = keys \/ keys' = keys + 1
    BY <1>8 DEF OtherProgram, slot
  <2>2. 0..keys \subseteq 0..keys'
    BY <1>0, <2>1, KeysTypes
  <2> QED
    BY <1>0, <2>1, <2>2 DEF RootTypes
<1> QED
  BY <1>2, <1>3, <1>4, <1>5, <1>6, <1>7, <1>8
  DEF Next, vars, Open, Issuer, Sign, ECDH, slot

LEMMA CardStep == CardTypes /\ [Next]_vars => CardTypes'
<1>1. [Next]_vars => UNCHANGED card
  BY DEF Next, vars, Open, Close, Issuer, Sign, ECDH, GenerateRoot, GenerateKey, SelfSign,
         SetCertificate, OtherProgram
<1> QED
  BY <1>1, Frames

LEMMA SessionStep == TypeOK /\ [Next]_vars => SessionTypes'
<1> SUFFICES ASSUME TypeOK, [Next]_vars PROVE SessionTypes'
  OBVIOUS
<1>0. SlotTypes /\ SessionTypes
  BY TypeParts
<1>1. ASSUME NEW c \in Configs, Open(c) PROVE SessionTypes'
  BY <1>1 DEF Open, SessionTypes
<1>2. CASE Close
  BY <1>0, <1>2 DEF Close, SessionTypes
<1>3. CASE Issuer
  <2>1. PICK policy \in {slotPolicy, "always"} :
          signers' = signers \cup {[pub |-> slotCert.key, policy |-> policy]}
    BY <1>3 DEF Issuer
  <2>2. slotCert.key \in Keys
    BY <1>0, <1>3 DEF Issuer, SlotTypes, SlotCertificate
  <2>3. signers' \subseteq Signer
    BY <1>0, <2>1, <2>2 DEF SlotTypes, SessionTypes, Signer, Policies
  <2> QED
    BY <1>0, <1>3, <2>3 DEF Issuer, SessionTypes
<1>4. CASE UNCHANGED session
  BY <1>0, <1>4, Frames
<1> QED
  BY <1>1, <1>2, <1>3, <1>4
  DEF Next, vars, Sign, ECDH, GenerateRoot, GenerateKey, SelfSign, SetCertificate, OtherProgram

LEMMA IssuedStep == TypeOK /\ IssuedVerifies /\ [Next]_vars => IssuedTypes' /\ IssuedVerifies'
<1> SUFFICES ASSUME TypeOK, IssuedVerifies, [Next]_vars PROVE IssuedTypes' /\ IssuedVerifies'
  OBVIOUS
<1>0. SessionTypes /\ IssuedTypes
  BY TypeParts
<1>1. ASSUME NEW s \in signers, Sign(s) PROVE IssuedTypes' /\ IssuedVerifies'
  <2>1. s.pub \in Keys
    BY <1>0 DEF SessionTypes, Signer
  <2>2. \/ issued' = issued
        \/ s.pub = slotKey /\ issued' = issued \cup {[by |-> slotKey, issuer |-> s.pub]}
    BY <1>1 DEF Sign, verifySignature
  <2> QED
    BY <1>0, <2>1, <2>2 DEF IssuedTypes, IssuedVerifies
<1>2. CASE UNCHANGED issued
  BY <1>0, <1>2 DEF IssuedTypes, IssuedVerifies
<1> QED
  BY <1>1, <1>2
  DEF Next, vars, Open, Close, Issuer, ECDH, GenerateRoot, GenerateKey, SelfSign, SetCertificate, OtherProgram

LEMMA TypeStep == TypeOK /\ RootPending /\ IssuedVerifies /\ [Next]_vars => TypeOK'
<1> SUFFICES ASSUME TypeOK, RootPending, IssuedVerifies, [Next]_vars PROVE TypeOK'
  OBVIOUS
<1>1. SlotTypes' /\ CardTypes' /\ PINTypesOK' /\ SessionTypes' /\ RootTypes' /\ IssuedTypes'
  BY TypeParts, SlotStep, CardStep, PINTypesStep, SessionStep, RootTypesStep, IssuedStep
<1>2. sessions' \in {sessions, sessions + 1} /\ changes' \in {changes, changes + 1}
  BY DEF Next, vars, Open, Close, Issuer, Sign, ECDH, GenerateRoot, GenerateKey, SelfSign,
         SetCertificate, OtherProgram
<1>3. sessions' \in Nat /\ changes' \in Nat
  <2>1. sessions \in Nat /\ changes \in Nat
    BY TypeParts
  <2> QED
    BY <1>2, <2>1
<1> QED
  BY <1>1, <1>3 DEF TypeOK, SlotTypes, CardTypes, PINTypesOK, SessionTypes, RootTypes, IssuedTypes
-----------------------------------------------------------------------------
(* The inductive invariant.                                                *)

LEMMA IInvInit == Init => IInv
<1> SUFFICES ASSUME Init PROVE IInv
  OBVIOUS
<1>1. TypeOK
  BY TypeInit
<1>2. PINNoted
  BY DEF Init, PINNoted
<1>3. IssuedVerifies
  BY DEF Init, IssuedVerifies
<1>4. RootInv
  BY DEF Init, RootInv, RootPending, RootUsable
<1> QED
  BY <1>1, <1>2, <1>3, <1>4 DEF IInv

LEMMA PINNotedStep == TypeOK /\ PINNoted /\ [Next]_vars => PINNoted'
<1> SUFFICES ASSUME TypeOK, PINNoted, [Next]_vars PROVE PINNoted'
  OBVIOUS
<1>1. CASE (PINFails \/ PINPasses \/ UNCHANGED pinState) /\ cfg' = cfg
  BY <1>1, PINKeepsNote
<1>2. ASSUME NEW c \in Configs, Open(c) PROVE PINNoted'
  BY <1>2 DEF Open, PINNoted
<1>3. CASE Close \/ OtherProgram
  <2>1. UNCHANGED <<attempts, pinRejected, cfg>>
    BY <1>3 DEF Close, OtherProgram, session
  <2> QED
    BY <2>1 DEF PINNoted
<1> QED
  BY <1>1, <1>2, <1>3, PINOfStep DEF vars, session

\* GenerateRoot's steps.  Only GenerateKey and another program give the slot a
\* key, and another program finds no Token open; nothing but SetCertificate,
\* the last step, stores a certificate while a Token is open.
LEMMA RootStep == TypeOK /\ RootInv /\ [Next]_vars => RootInv'
<1> SUFFICES ASSUME TypeOK, RootInv, [Next]_vars PROVE RootInv'
  OBVIOUS
<1> USE DEF RootInv, RootPending, RootUsable
<1>1. ASSUME NEW c \in Configs, Open(c) PROVE RootInv'
  BY <1>1 DEF Open, slot, rootCall
<1>2. CASE Close
  BY <1>2 DEF Close, slot
<1>3. CASE Issuer \/ ECDH \/ \E s \in signers : Sign(s)
  <2>1. UNCHANGED <<slot, open, rootCall>>
    BY <1>3 DEF Issuer, ECDH, Sign, session
  <2> QED
    BY <2>1 DEF slot, rootCall
<1>4. ASSUME NEW overwrite \in BOOLEAN, GenerateRoot(overwrite) PROVE RootInv'
  <2>1. open /\ UNCHANGED <<slot, open>> /\ (overwrite \/ slotCert = NoCertificate)
    BY <1>4 DEF GenerateRoot, Idle, session
  <2>2. ASSUME NEW authorized \in BOOLEAN, Starts(overwrite, authorized) PROVE RootInv'
    BY <2>1, <2>2 DEF Starts, slot
  <2>3. CASE UNCHANGED rootCall
    BY <2>1, <2>3 DEF slot, rootCall
  <2> QED
    BY <1>4, <2>2, <2>3, ManagementKey DEF GenerateRoot
<1>5. CASE GenerateKey
  <2>1. CASE /\ slotKey' = keys + 1 /\ root' = [root EXCEPT !.key = keys + 1]
             /\ UNCHANGED <<slotCert, outcome>>
    <3>1. SlotTypes /\ RootTypes
      BY TypeParts
    <3>2. keys + 1 # 0
      BY <3>1, KeysTypes
    <3>3. root'.key = slotKey' /\ root'.key # NoKey /\ root'.overwrite = root.overwrite
      BY <2>1, <3>1, <3>2 DEF RootTypes, NoKey
    <3> QED
      BY <1>5, <2>1, <3>3 DEF GenerateKey, session
  <2>2. CASE Fails("failed") /\ UNCHANGED slot
    BY <2>2 DEF Fails, slot
  <2> QED
    BY <1>5, <2>1, <2>2 DEF GenerateKey
<1>6. CASE SelfSign
  BY <1>6 DEF SelfSign, Fails, slot, session
<1>7. CASE SetCertificate
  <2>1. CASE slotCert' = [key |-> root.key, usable |-> TRUE] /\ pc' = "idle" /\ outcome' = "ok"
    <3>1. root.key \in Keys
      BY <1>7, GeneratedKey DEF SetCertificate
    <3>2. slotCert' # NoCertificate
      <4>1. [key |-> root.key, usable |-> TRUE] \in SlotCertificate
        BY <3>1 DEF SlotCertificate
      <4> QED
        BY <2>1, <4>1, SentinelAssumption, Zenon DEF SentinelAssumption
    <3> QED
      BY <1>7, <2>1, <3>2 DEF SetCertificate
  <2>2. CASE Fails("key without certificate")
    BY <2>2 DEF Fails
  <2> QED
    BY <1>7, <2>1, <2>2 DEF SetCertificate
<1>8. CASE OtherProgram
  BY <1>8 DEF OtherProgram, session
<1>9. CASE UNCHANGED vars
  BY <1>9 DEF vars, slot, session, rootCall
<1> QED
  BY <1>1, <1>2, <1>3, <1>4, <1>5, <1>6, <1>7, <1>8, <1>9 DEF Next

LEMMA IInvStep == IInv /\ [Next]_vars => IInv'
<1> SUFFICES ASSUME IInv, [Next]_vars PROVE IInv'
  OBVIOUS
<1>1. TypeOK'
  BY TypeStep DEF IInv, RootInv
<1>2. PINNoted' /\ IssuedVerifies' /\ RootInv'
  BY PINNotedStep, IssuedStep, RootStep DEF IInv
<1> QED
  BY <1>1, <1>2 DEF IInv

LEMMA AlwaysIInv == Spec => []IInv
BY IInvInit, IInvStep, PTL DEF Spec

-----------------------------------------------------------------------------
(* The theorems.                                                           *)

\* Types: the slot, the session and GenerateRoot's variables are what the rest
\* takes them for, and every key named anywhere is one that was generated.
THEOREM TypeCorrect == Spec => []TypeOK
<1>1. IInv => TypeOK
  BY DEF IInv
<1> QED
  BY <1>1, AlwaysIInv, PTL

\* A session spends at most one attempt at the PIN, and none on a PIN that
\* cannot be right (yubikey_piv.go:82, 338).
THEOREM SpendsOneAttempt == Spec => []OneWrongAttempt
<1>1. IInv => OneWrongAttempt
  BY DEF IInv, PINNoted, OneWrongAttempt
<1> QED
  BY <1>1, AlwaysIInv, PTL

\* What the YubiKey has signed verifies with the certificate Issuer read,
\* whatever was put into the slot since (yubikey_piv.go:485).
THEOREM IssuesWhatVerifies == Spec => []IssuedVerifies
<1>1. IInv => IssuedVerifies
  BY DEF IInv
<1> QED
  BY <1>1, AlwaysIInv, PTL

\* After GenerateRoot has succeeded the slot's certificate is of the slot's
\* key, until another program changes the slot (yubikey_piv.go:284).
THEOREM RootIsUsable == Spec => []RootUsable
<1>1. IInv => RootUsable
  BY DEF IInv, RootInv
<1> QED
  BY <1>1, AlwaysIInv, PTL

\* While a Token is open, the key of an existing certificate is replaced by an
\* explicit overwrite only (yubikey_piv.go:235).
THEOREM KeepsCertifiedKey == Spec => CertifiedKeyKept
<1>1. IInv /\ [Next]_vars => [open /\ slotCert # NoCertificate /\ slotKey' # slotKey => root.overwrite]_vars
  <2> SUFFICES ASSUME IInv, [Next]_vars, open, slotCert # NoCertificate, slotKey' # slotKey
               PROVE  root.overwrite
    BY Zenon
  <2>1. GenerateKey
    BY DEF Next, vars, slot, Open, Close, Issuer, Sign, ECDH, GenerateRoot, SelfSign, SetCertificate,
           OtherProgram
  <2> QED
    BY <2>1 DEF IInv, RootInv, RootPending, GenerateKey
<1> QED
  BY <1>1, AlwaysIInv, PTL DEF Spec, CertifiedKeyKept
=============================================================================
