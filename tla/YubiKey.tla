------------------------------ MODULE YubiKey ------------------------------
(***************************************************************************)
(* pkg/yubikey: a Token, the open connection to one YubiKey, and the slot  *)
(* that holds the CA key.  Callers use a Token in any order: Issuer, the   *)
(* signers it returned, age decryption, GenerateRoot.  Sessions follow one *)
(* another; between them other programs change the YubiKey, which a Token  *)
(* holds exclusively while it is open.                                     *)
(*                                                                         *)
(* Keys are numbers.  A certificate is the key it certifies and whether it *)
(* is a CA certificate that is valid now.  An operation that fails before  *)
(* it changes anything is a step that leaves the state as it is.           *)
(***************************************************************************)
EXTENDS Naturals, FiniteSets

CONSTANTS Configs,      \* Config: the PIN and the management key of a session
          NoCertificate,
          MaxRetries,   \* wrong PINs before the YubiKey blocks it
          MaxKeys, MaxSessions, MaxChanges   \* bounds

NoKey == 0
Keys == 1..MaxKeys
Policies == {"always", "once", "never"}
PINs == {"right", "wrong", "impossible", "none"}    \* impossible: not 6 to 8 characters
Config == [pin : PINs, managementKey : {"right", "wrong", "malformed", "none"}]
SlotCertificate == [key : Keys, usable : BOOLEAN]
Signer == [pub : Keys, policy : Policies]

ASSUME ConfigsAssumption == Configs # {} /\ Configs \subseteq Config
ASSUME BoundsAssumption ==
  MaxRetries \in Nat \ {0} /\ MaxKeys \in Nat \ {0} /\ MaxSessions \in Nat /\ MaxChanges \in Nat
ASSUME SentinelAssumption == NoCertificate \notin SlotCertificate

VARIABLES
  slotKey, slotPolicy, slotCert,  \* the slot: key, its PIN policy, certificate
  keys,          \* keys generated so far
  agePolicy,     \* PIN policy of the age key, in a slot of its own
  retries,       \* attempts before the PIN is blocked
  mkDefault,     \* the management key is the factory default,
  mkProtected,   \* or is stored on the YubiKey, protected by the PIN
  open, cfg,     \* the session
  verified,      \* the YubiKey verified the PIN in this session
  pinRejected,   \* Token.pinRejected
  attempts,      \* PINs this session sent that the YubiKey rejected
  signers,       \* the signers Issuer returned
  pc,            \* the next step of GenerateRoot
  root,          \* its overwrite, key and whether the management key is right
  outcome,       \* what GenerateRoot said last
  issued,        \* certificates signed: by which key, for which issuer key
  sessions, changes

slot == <<slotKey, slotPolicy, slotCert, keys>>
pinState == <<retries, verified, pinRejected, attempts>>
card == <<agePolicy, mkDefault, mkProtected>>
session == <<open, cfg, signers>>
rootCall == <<pc, root, outcome>>
vars == <<slot, pinState, card, session, rootCall, issued, sessions, changes>>

NoRoot == [overwrite |-> FALSE, key |-> NoKey, authorized |-> FALSE]
Init ==
  /\ slotKey \in {NoKey, 1} /\ slotPolicy \in Policies /\ keys = slotKey
  /\ slotCert \in {NoCertificate} \cup [key : {1}, usable : BOOLEAN]
  /\ slotKey = NoKey => slotCert = NoCertificate
  /\ agePolicy \in Policies
  /\ mkDefault \in BOOLEAN /\ mkProtected \in BOOLEAN
  /\ mkProtected => ~mkDefault
  /\ retries = MaxRetries /\ verified = FALSE /\ pinRejected = FALSE /\ attempts = 0
  /\ open = FALSE /\ cfg = (CHOOSE c \in Configs : TRUE) /\ signers = {}
  /\ pc = "idle" /\ root = NoRoot /\ outcome = "none"
  /\ issued = {} /\ sessions = 0 /\ changes = 0

-----------------------------------------------------------------------------
(* The PIN.                                                                *)

\* Faulty variant: a rejected PIN is not remembered.
PINFailsForgotten ==
  \/ /\ cfg.pin \in {"none", "impossible"}
     /\ UNCHANGED pinState
  \/ /\ cfg.pin = "wrong" \/ (cfg.pin = "right" /\ retries = 0)
     /\ retries' = IF retries = 0 THEN 0 ELSE retries - 1
     /\ attempts' = IF attempts < 2 THEN attempts + 1 ELSE attempts
     /\ UNCHANGED <<verified, pinRejected>>

\* getPIN fails, or the YubiKey rejects the PIN and notePINFailure notes it.
PINFails ==
  \/ /\ pinRejected \/ cfg.pin = "none"
     /\ UNCHANGED pinState
  \/ /\ ~pinRejected /\ cfg.pin = "impossible"
     /\ pinRejected' = TRUE
     /\ UNCHANGED <<retries, verified, attempts>>
  \/ /\ ~pinRejected
     /\ cfg.pin = "wrong" \/ (cfg.pin = "right" /\ retries = 0)
     /\ retries' = IF retries = 0 THEN 0 ELSE retries - 1
     /\ attempts' = attempts + 1
     /\ pinRejected' = TRUE
     /\ UNCHANGED verified

PINPasses ==
  /\ ~pinRejected /\ cfg.pin = "right" /\ retries > 0
  /\ retries' = MaxRetries /\ verified' = TRUE
  /\ UNCHANGED <<pinRejected, attempts>>

\* piv-go asks for the PIN by the policy it found when it opened the key; the
\* YubiKey insists on the policy of the key that is there.
Prompts(policy) == policy = "always" \/ (policy = "once" /\ ~verified)
Insists(policy, prompted) == ~prompted /\ (policy = "always" \/ (policy = "once" /\ ~verified))
KeyUsed(policy, actual) ==
  /\ IF Prompts(policy) THEN PINPasses ELSE UNCHANGED pinState
  /\ ~Insists(actual, Prompts(policy))
KeyRefused(policy) == Prompts(policy) /\ PINFails

-----------------------------------------------------------------------------
(* A session.                                                              *)

Idle == open /\ pc = "idle"

Open(c) ==
  /\ ~open /\ sessions < MaxSessions
  /\ open' = TRUE /\ cfg' = c /\ signers' = {} /\ sessions' = sessions + 1
  /\ verified' = FALSE /\ pinRejected' = FALSE /\ attempts' = 0
  /\ UNCHANGED <<slot, retries, card, rootCall, issued, changes>>

\* Close, or the death of the process, also in the middle of GenerateRoot.
Close ==
  /\ open
  /\ open' = FALSE /\ signers' = {} /\ verified' = FALSE
  /\ pc' = "idle" /\ root' = NoRoot
  /\ UNCHANGED <<slot, retries, pinRejected, attempts, card, cfg, outcome, issued, sessions, changes>>

\* Issuer.  Where the PIN policy cannot be looked up, signer takes "always".
Issuer ==
  /\ Idle
  /\ slotCert # NoCertificate /\ slotCert.usable
  /\ slotKey # NoKey
  /\ \E policy \in {slotPolicy, "always"} :
       signers' = signers \cup {[pub |-> slotCert.key, policy |-> policy]}
  /\ UNCHANGED <<slot, pinState, card, open, cfg, rootCall, issued, sessions, changes>>

\* Faulty variant: no signature is checked.
verifyNothing(pub, by) == TRUE

\* A signature made by a key verifies with that key only.
verifySignature(pub, by) == pub = by

\* tokenSigner.Sign: the slot's key signs, and the signature is checked
\* against the certificate that Issuer read.
Sign(s) ==
  /\ Idle /\ s \in signers
  /\ \/ /\ KeyUsed(s.policy, slotPolicy) /\ verifySignature(s.pub, slotKey)
        /\ issued' = issued \cup {[by |-> slotKey, issuer |-> s.pub]}
     \/ KeyUsed(s.policy, slotPolicy) /\ ~verifySignature(s.pub, slotKey) /\ UNCHANGED issued
     \/ KeyRefused(s.policy) /\ UNCHANGED issued
  /\ UNCHANGED <<slot, card, session, rootCall, sessions, changes>>

\* slotKeyExchanger.ECDH, to decrypt a key file; a policy is taken as in Issuer.
ECDH ==
  /\ Idle
  /\ \E policy \in {agePolicy, "always"} : KeyUsed(policy, agePolicy) \/ KeyRefused(policy)
  /\ UNCHANGED <<slot, card, session, rootCall, issued, sessions, changes>>

-----------------------------------------------------------------------------
(* GenerateRoot.                                                           *)

\* managementKey: the configured key, the one protected by the PIN, or the
\* default.  Metadata asks for the PIN.
Starts(overwrite, authorized) ==
  /\ pc' = "generate" /\ outcome' = "none"
  /\ root' = [overwrite |-> overwrite, key |-> NoKey, authorized |-> authorized]
managementKey(overwrite) ==
  \/ /\ cfg.managementKey \in {"right", "wrong"}
     /\ Starts(overwrite, cfg.managementKey = "right")
     /\ UNCHANGED pinState
  \/ /\ cfg.managementKey = "none"
     /\ \/ PINPasses /\ Starts(overwrite, mkProtected \/ mkDefault)
        \/ PINPasses /\ UNCHANGED rootCall       \* the metadata is unreadable
        \/ PINFails /\ UNCHANGED rootCall

\* Faulty variant: an existing certificate is not looked at.
GenerateRootUnchecked(overwrite) ==
  /\ Idle
  /\ managementKey(overwrite)
  /\ UNCHANGED <<slot, card, session, issued, sessions, changes>>

GenerateRoot(overwrite) ==
  /\ Idle
  /\ overwrite \/ slotCert = NoCertificate
  /\ managementKey(overwrite)
  /\ UNCHANGED <<slot, card, session, issued, sessions, changes>>

Fails(what) == pc' = "idle" /\ root' = NoRoot /\ outcome' = what

\* Faulty variant: an error of key generation is ignored.
GenerateKeyIgnored ==
  /\ pc = "generate"
  /\ pc' = "selfSign"
  /\ IF root.authorized /\ keys < MaxKeys
     THEN /\ keys' = keys + 1 /\ slotKey' = keys + 1 /\ slotPolicy' = "always"
          /\ root' = [root EXCEPT !.key = keys + 1]
     ELSE UNCHANGED <<keys, slotKey, slotPolicy, root>>
  /\ UNCHANGED <<slotCert, outcome, pinState, card, session, issued, sessions, changes>>

GenerateKey ==
  /\ pc = "generate"
  /\ \/ /\ root.authorized /\ keys < MaxKeys
        /\ keys' = keys + 1 /\ slotKey' = keys + 1 /\ slotPolicy' = "always"
        /\ pc' = "selfSign" /\ root' = [root EXCEPT !.key = keys + 1]
        /\ UNCHANGED <<slotCert, outcome>>
     \/ Fails("failed") /\ UNCHANGED slot
  /\ UNCHANGED <<pinState, card, session, issued, sessions, changes>>

\* CreateSelfSignedCertificate.  It fails on a rejected PIN, a touch not given
\* in time, or arguments that newCertificateTemplate refuses.  signer may fail
\* before it, with an error of its own.
SelfSign ==
  /\ pc = "selfSign"
  /\ \/ PINPasses /\ pc' = "store" /\ UNCHANGED <<root, outcome>>
     \/ PINFails /\ Fails("key without certificate")
     \/ UNCHANGED pinState /\ (Fails("key without certificate") \/ Fails("failed"))
  /\ UNCHANGED <<slot, card, session, issued, sessions, changes>>

\* Faulty variant: success is reported although the certificate was not stored.
SetCertificateIgnored ==
  /\ pc = "store"
  /\ \/ /\ slotCert' = [key |-> root.key, usable |-> TRUE]
        /\ pc' = "idle" /\ root' = NoRoot /\ outcome' = "ok"
     \/ Fails("ok") /\ UNCHANGED slotCert
  /\ UNCHANGED <<slotKey, slotPolicy, keys, pinState, card, session, issued, sessions, changes>>

SetCertificate ==
  /\ pc = "store"
  /\ \/ /\ root.authorized
        /\ slotCert' = [key |-> root.key, usable |-> TRUE]
        /\ pc' = "idle" /\ root' = NoRoot /\ outcome' = "ok"
     \/ Fails("key without certificate") /\ UNCHANGED slotCert
  /\ UNCHANGED <<slotKey, slotPolicy, keys, pinState, card, session, issued, sessions, changes>>

-----------------------------------------------------------------------------
\* Another program, such as ykman, between sessions: imports a key, stores or
\* deletes a certificate, unblocks the PIN.  A certificate expires.
OtherProgram ==
  /\ ~open /\ changes < MaxChanges
  /\ changes' = changes + 1 /\ outcome' = "none"
  /\ \/ /\ keys < MaxKeys
        /\ keys' = keys + 1 /\ slotKey' = keys + 1 /\ slotPolicy' \in Policies
        /\ UNCHANGED <<slotCert, retries>>
     \/ /\ slotCert' \in {NoCertificate} \cup [key : 1..keys, usable : BOOLEAN]
        /\ UNCHANGED <<slotKey, slotPolicy, keys, retries>>
     \/ retries' = MaxRetries /\ UNCHANGED slot
  /\ UNCHANGED <<verified, pinRejected, attempts, card, session, pc, root, issued, sessions>>

Next ==
  \/ \E c \in Configs : Open(c)
  \/ Close
  \/ Issuer
  \/ \E s \in signers : Sign(s)
  \/ ECDH
  \/ \E overwrite \in BOOLEAN : GenerateRoot(overwrite)
  \/ GenerateKey
  \/ SelfSign
  \/ SetCertificate
  \/ OtherProgram

Spec == Init /\ [][Next]_vars

-----------------------------------------------------------------------------
(* Properties.                                                             *)

\* Types, and the slot's key and certificate are of keys that exist.
TypeOK ==
  /\ slotKey \in {NoKey} \cup 1..keys /\ slotPolicy \in Policies /\ keys \in 0..MaxKeys
  /\ slotCert \in {NoCertificate} \cup SlotCertificate
  /\ agePolicy \in Policies /\ mkDefault \in BOOLEAN /\ mkProtected \in BOOLEAN
  /\ retries \in 0..MaxRetries /\ verified \in BOOLEAN /\ pinRejected \in BOOLEAN /\ attempts \in Nat
  /\ open \in BOOLEAN /\ cfg \in Configs /\ signers \subseteq Signer
  /\ pc \in {"idle", "generate", "selfSign", "store"}
  /\ root \in [overwrite : BOOLEAN, key : 0..keys, authorized : BOOLEAN]
  /\ outcome \in {"none", "ok", "failed", "key without certificate"}
  /\ issued \subseteq [by : Keys, issuer : Keys]
  /\ sessions \in Nat /\ changes \in Nat

\* "Each wrong attempt brings the PIN closer to being blocked", so whatever a
\* caller does with a Token it spends at most one attempt, and none on an
\* impossible PIN (yubikey_piv.go:82, 338).
OneWrongAttempt == attempts <= (IF cfg.pin = "impossible" THEN 0 ELSE 1)

\* No certificate leaves the YubiKey that its issuer's certificate does not
\* verify, although keys and certificates are replaced separately
\* (yubikey_piv.go:485).
IssuedVerifies == \A c \in issued : c.by = c.issuer

\* Once GenerateRoot has succeeded and until something else changes the slot,
\* the slot's certificate is of the slot's key, so the slot can issue
\* (yubikey_piv.go:284).
RootUsable ==
  outcome = "ok" => slotCert # NoCertificate /\ slotCert.usable /\ slotCert.key = slotKey

\* "GenerateRoot fails if the slot already holds a certificate" (yubikey_piv.go:235):
\* while a Token is open a certified key is lost by an explicit overwrite only.
CertifiedKeyKept ==
  [][open /\ slotCert # NoCertificate /\ slotKey' # slotKey => root.overwrite]_vars
=============================================================================
