--------------------------- MODULE ReadersProofs ---------------------------
(***************************************************************************)
(* For any readers, any YubiKeys and any changes: Open returns the YubiKey *)
(* it was asked for, and refuses for a reason.                             *)
(*                                                                         *)
(* Neither property is inductive, because the readers change after Open    *)
(* has looked at them.  What stays true of what Open has seen is Holds: a  *)
(* YubiKey that was in a reader is there still, and nowhere else, as far   *)
(* as readers have not changed since they were listed.  Accounted says     *)
(* that Open forgets no YubiKey on its way.                                *)
(***************************************************************************)
EXTENDS Readers, FiniteSetTheorems, TLAPS

\* What Open knows after it has seen YubiKey s in reader r.
Holds(r, s) ==
  /\ r \notin moved => inReader[r] = s
  /\ \A q \in Reader \ moved : inReader[q] = s => q = r

CardsOnce == \A r, q \in Present : inReader[r] = inReader[q] => r = q

Blamed ==
  /\ moved \subseteq disturbed
  /\ at # "closed" => taken \subseteq disturbed
  /\ unreadable => disturbed # {}

Connected ==
  /\ at \notin {"read", "close", "open"} => conn = {}
  /\ at \in {"read", "close"} => \E c \in Connection : conn = {c}
  /\ at = "open" => token \in Match /\ \E s \in Serial : conn = {[reader |-> token.reader, card |-> s]}
  /\ \A c \in conn : Holds(c.reader, c.card)

Asked ==
  at = "close" => \A c \in conn : IF serial = NoYubiKey THEN c.reader \in disturbed ELSE serial = c.card

Matched ==
  /\ IsFiniteSet(matches)
  /\ \A m \in matches : Holds(m.reader, m.serial) /\ wanted \in {AnySerial, m.serial}

Handled(r) == r \in todo \/ (\E c \in conn : c.reader = r) \/ (\E m \in matches : m.reader = r)
Accounted ==
  at \in {"probe", "read", "close", "reopen"} =>
    /\ todo \subseteq Present \cup moved
    /\ \A r \in Present \ moved :
         /\ wanted = AnySerial => Handled(r) \/ unreadable
         /\ wanted = inReader[r] => Handled(r) \/ r \in disturbed

Decided == at = "reopen" => todo = {} /\ Chosen # {}

Opened ==
  at = "open" =>
    /\ Holds(token.reader, token.serial) /\ wanted \in {AnySerial, token.serial}
    /\ wanted = AnySerial => Present \subseteq moved \cup {token.reader}

SearchInv == CardsOnce /\ Blamed /\ Connected /\ Asked /\ Matched /\ Accounted /\ Decided /\ Opened /\ OpenRefusedForCause
IInv == ReadersTypeOK /\ SearchInv

-----------------------------------------------------------------------------
(* Types.                                                                  *)

LEMMA TypeInit == ReadersInit => ReadersTypeOK
<1> SUFFICES ASSUME ReadersInit PROVE ReadersTypeOK
  OBVIOUS
<1>1. inReader \in [Reader -> Serial \cup {NoYubiKey}] /\ taken \subseteq Reader
  BY DEF ReadersInit, Present
<1>2. changes \in 0..MaxChanges
  BY ReadersAssumption DEF ReadersAssumption, ReadersInit
<1>3. at \in Steps /\ unreadable \in BOOLEAN
  BY DEF ReadersInit, Steps
<1> QED
  BY <1>1, <1>2, <1>3 DEF ReadersInit, ReadersTypeOK

LEMMA TypeStep == ReadersTypeOK /\ [ReadersNext]_readerVars => ReadersTypeOK'
<1> SUFFICES ASSUME ReadersTypeOK, [ReadersNext]_readerVars PROVE ReadersTypeOK'
  OBVIOUS
<1> USE ReadersAssumption DEF ReadersAssumption, ReadersTypeOK, Steps, Connection, Match, readerVars, cards, search, seen
<1>1. ASSUME NEW w \in Serial \cup {AnySerial}, Open(w) PROVE ReadersTypeOK'
  BY <1>1 DEF Open
<1>2. CASE ListCards
  BY <1>2 DEF ListCards, Present
<1>3. CASE ListCardsFails
  BY <1>3 DEF ListCardsFails
<1>4. ASSUME NEW r \in Reader, ProbeOpen(r) PROVE ReadersTypeOK'
  BY <1>4 DEF ProbeOpen, Free, Present, Connect
<1>5. ASSUME NEW r \in Reader, ProbeFails(r) PROVE ReadersTypeOK'
  BY <1>5 DEF ProbeFails
<1>6. ASSUME NEW c \in conn, ProbeSerial(c) PROVE ReadersTypeOK'
  BY <1>6 DEF ProbeSerial
<1>7. ASSUME NEW c \in conn, ProbeSerialFails(c) PROVE ReadersTypeOK'
  BY <1>7 DEF ProbeSerialFails
<1>8. ASSUME NEW c \in conn, ProbeClose(c) PROVE ReadersTypeOK'
  <2>1. c \in Connection /\ (serial # NoYubiKey => [reader |-> c.reader, serial |-> serial] \in Match)
    BY <1>8
  <2>2. matches' \subseteq Match /\ unreadable' \in BOOLEAN
    BY <1>8, <2>1 DEF ProbeClose
  <2> QED
    BY <1>8, <2>2 DEF ProbeClose
<1>9. ASSUME NEW c \in conn, ProbeCloseFails(c) PROVE ReadersTypeOK'
  BY <1>9 DEF ProbeCloseFails
<1>10. CASE Decide
  BY <1>10 DEF Decide
<1>11. ASSUME NEW m \in matches, Reopen(m) PROVE ReadersTypeOK'
  BY <1>11 DEF Reopen, Free, Present, Connect
<1>12. ASSUME NEW m \in matches, ReopenFails(m) PROVE ReadersTypeOK'
  BY <1>12 DEF ReopenFails
<1>13. CASE CloseToken
  BY <1>13 DEF CloseToken, NoToken
<1>14. CASE Killed
  BY <1>14 DEF Killed, NoToken
<1>15. ASSUME NEW r \in Reader, NEW s \in Serial \cup {NoYubiKey}, Swap(r, s) PROVE ReadersTypeOK'
  BY <1>15 DEF Swap
<1>16. ASSUME NEW r \in Reader, Take(r) PROVE ReadersTypeOK'
  BY <1>16 DEF Take
<1>17. ASSUME NEW r \in Reader, Release(r) PROVE ReadersTypeOK'
  BY <1>17 DEF Release
<1>18. CASE UNCHANGED readerVars
  BY <1>18
<1> QED
  BY <1>1, <1>2, <1>3, <1>4, <1>5, <1>6, <1>7, <1>8, <1>9, <1>10, <1>11, <1>12, <1>13, <1>14, <1>15, <1>16, <1>17, <1>18
  DEF ReadersNext, OpenStep, Others

\* Every variable keeps its type: no reader, YubiKey or connection that does not
\* exist is ever looked for, matched or opened (yubikey_piv.go:98).
THEOREM TypeCorrect == ReadersSpec => []ReadersTypeOK
BY TypeInit, TypeStep, PTL DEF ReadersSpec

-----------------------------------------------------------------------------
(* What Open has seen stays true.                                          *)

\* A YubiKey that was seen in a reader is there and nowhere else, as far as
\* readers did not change.
LEMMA Seen ==
  ASSUME IInv, NEW r \in Present
  PROVE  Holds(r, inReader[r])
BY DEF IInv, SearchInv, CardsOnce, Holds, Present

LEMMA HoldsKept ==
  ASSUME ReadersTypeOK, moved \subseteq moved', \A q \in Reader \ moved' : inReader'[q] = inReader[q],
         NEW r \in Reader, NEW s, Holds(r, s)
  PROVE  Holds(r, s)'
BY DEF Holds, ReadersTypeOK

\* What is known of the open YubiKey outlives every change of a reader.
LEMMA OpenedKept ==
  ASSUME IInv, at' = at, token' = token, wanted' = wanted, moved \subseteq moved',
         \A q \in Reader \ moved' : inReader'[q] = inReader[q]
  PROVE  Opened'
<1> SUFFICES ASSUME at = "open" PROVE Opened'
  BY DEF Opened
<1> USE DEF IInv, SearchInv
<1>1. PICK t \in Match : t = token
  BY DEF Connected
<1>2. t.reader \in Reader /\ Holds(t.reader, t.serial)
  BY <1>1 DEF Opened, Match
<1>3. Holds(t.reader, t.serial)'
  BY <1>2, HoldsKept
<1>4. wanted' = AnySerial => Present' \subseteq moved' \cup {t.reader}
  BY <1>1 DEF Opened, Present
<1> QED
  BY <1>1, <1>3, <1>4 DEF Opened

\* A reader that was listed and cannot be opened has been taken or has changed.
LEMMA NotFree ==
  ASSUME IInv, conn = {}, at # "closed", NEW r \in Present \cup moved, ~Free(r)
  PROVE  r \in disturbed
BY DEF IInv, SearchInv, Blamed, Free

-----------------------------------------------------------------------------
(* The invariant, action by action.                                        *)

LEMMA OpenKeeps ==
  ASSUME IInv, NEW w \in Serial \cup {AnySerial}, Open(w)
  PROVE  SearchInv'
<1> USE DEF IInv, SearchInv, ReadersTypeOK, cards, search, seen, Present, Connection, Match
<1>1. CardsOnce' /\ Blamed' /\ Asked' /\ Decided'
  BY ReadersAssumption DEF ReadersAssumption, Open, CardsOnce, Blamed, Asked, Decided, Chosen
<1>2. Connected' /\ Opened'
  BY HoldsKept, ReadersAssumption DEF ReadersAssumption, Open, Connected, Opened
<1>3. Accounted' /\ OpenRefusedForCause'
  BY ReadersAssumption DEF ReadersAssumption, Open, Accounted, Handled, OpenRefusedForCause
<1>4. Matched'
  BY FS_EmptySet DEF Matched, Open
<1> QED
  BY <1>1, <1>2, <1>3, <1>4

LEMMA ListCardsKeeps ==
  ASSUME IInv, ListCards
  PROVE  SearchInv'
<1> USE DEF IInv, SearchInv, ReadersTypeOK, cards, search, seen, Present, Connection, Match
<1>1. CardsOnce' /\ Blamed' /\ Asked' /\ Decided'
  BY ReadersAssumption DEF ReadersAssumption, ListCards, CardsOnce, Blamed, Asked, Decided, Chosen
<1>2. Connected' /\ Matched' /\ Opened'
  BY HoldsKept, ReadersAssumption DEF ReadersAssumption, ListCards, Connected, Matched, Opened
<1>3. Accounted' /\ OpenRefusedForCause'
  BY ReadersAssumption DEF ReadersAssumption, ListCards, Accounted, Handled, OpenRefusedForCause
<1> QED
  BY <1>1, <1>2, <1>3

LEMMA ListCardsFailsKeeps ==
  ASSUME IInv, ListCardsFails
  PROVE  SearchInv'
<1> USE DEF IInv, SearchInv, ReadersTypeOK, cards, search, seen, Present, Connection, Match
<1>1. CardsOnce' /\ Blamed' /\ Asked' /\ Decided'
  BY ReadersAssumption DEF ReadersAssumption, ListCardsFails, CardsOnce, Blamed, Asked, Decided, Chosen
<1>2. Connected' /\ Matched' /\ Opened'
  BY HoldsKept, ReadersAssumption DEF ReadersAssumption, ListCardsFails, Connected, Matched, Opened
<1>3. Accounted' /\ OpenRefusedForCause'
  BY ReadersAssumption DEF ReadersAssumption, ListCardsFails, Accounted, Handled, OpenRefusedForCause
<1> QED
  BY <1>1, <1>2, <1>3

LEMMA ProbeOpenKeeps ==
  ASSUME IInv, NEW r \in Reader, ProbeOpen(r)
  PROVE  SearchInv'
<1> USE DEF IInv, SearchInv, ReadersTypeOK, cards, search, seen, Present, Connection, Match
<1>1. CardsOnce' /\ Blamed' /\ Asked' /\ Decided'
  BY ReadersAssumption DEF ReadersAssumption, ProbeOpen, Free, Connect, CardsOnce, Blamed, Asked, Decided, Chosen
<1>2. Matched' /\ Opened'
  BY HoldsKept, ReadersAssumption DEF ReadersAssumption, ProbeOpen, Free, Connect, Matched, Opened
<1>3. OpenRefusedForCause'
  BY ReadersAssumption DEF ReadersAssumption, ProbeOpen, Free, Connect, OpenRefusedForCause
<1>4. Connected'
  <2>1. PICK k \in Serial : k = inReader[r]
    BY DEF ProbeOpen, Free
  <2>2. conn' = {[reader |-> r, card |-> k]}
    BY <2>1 DEF ProbeOpen, Connected, Connect
  <2>3. Holds(r, k)'
    BY <2>1, Seen, HoldsKept DEF ProbeOpen, Free
  <2>4. [reader |-> r, card |-> k] \in Connection
    OBVIOUS
  <2>5. at' = "read" /\ \A d \in conn' : Holds(d.reader, d.card)'
    BY <2>2, <2>3 DEF ProbeOpen
  <2> QED
    BY <2>2, <2>4, <2>5 DEF Connected
<1>5. Accounted'
  <2>1. [reader |-> r, card |-> inReader[r]] \in conn'
    BY DEF ProbeOpen, Connect
  <2>2. \A q \in Reader : Handled(q) => Handled(q)'
    BY <2>1 DEF ProbeOpen, Connect, Handled
  <2> QED
    BY <2>2 DEF ProbeOpen, Accounted
<1> QED
  BY <1>1, <1>2, <1>3, <1>4, <1>5

LEMMA ProbeFailsKeeps ==
  ASSUME IInv, NEW r \in Reader, ProbeFails(r)
  PROVE  SearchInv'
<1> USE DEF IInv, SearchInv, ReadersTypeOK, cards, search, seen, Present, Connection, Match
<1>1. CardsOnce' /\ Asked' /\ Decided'
  BY ReadersAssumption DEF ReadersAssumption, ProbeFails, Free, CardsOnce, Asked, Decided, Chosen
<1>2. Connected' /\ Matched' /\ Opened'
  BY HoldsKept, ReadersAssumption DEF ReadersAssumption, ProbeFails, Free, Connected, Matched, Opened
<1>3. OpenRefusedForCause'
  BY ReadersAssumption DEF ReadersAssumption, ProbeFails, Free, OpenRefusedForCause
<1>4. Blamed'
  <2>1. r \in disturbed'
    BY NotFree DEF ProbeFails, Accounted, Connected
  <2> QED
    BY <2>1 DEF ProbeFails, Blamed
<1>5. Accounted'
  <2>1. r \in disturbed'
    BY NotFree DEF ProbeFails, Accounted, Connected
  <2>2. \A q \in Reader : Handled(q) => q = r \/ Handled(q)'
    BY DEF ProbeFails, Handled
  <2> QED
    BY <2>1, <2>2 DEF ProbeFails, Accounted
<1> QED
  BY <1>1, <1>2, <1>3, <1>4, <1>5

LEMMA ProbeSerialKeeps ==
  ASSUME IInv, NEW c \in conn, ProbeSerial(c)
  PROVE  SearchInv'
<1> USE DEF IInv, SearchInv, ReadersTypeOK, cards, search, seen, Present, Connection, Match
<1>1. CardsOnce' /\ Blamed' /\ Decided'
  BY ReadersAssumption DEF ReadersAssumption, ProbeSerial, CardsOnce, Blamed, Decided, Chosen
<1>2. Connected' /\ Matched' /\ Opened'
  BY HoldsKept, ReadersAssumption DEF ReadersAssumption, ProbeSerial, Connected, Matched, Opened
<1>3. Accounted' /\ OpenRefusedForCause'
  BY ReadersAssumption DEF ReadersAssumption, ProbeSerial, Accounted, Handled, OpenRefusedForCause
<1>4. Asked'
  <2>1. conn = {c}
    BY DEF ProbeSerial, Connected
  <2> QED
    BY <2>1, ReadersAssumption DEF ReadersAssumption, ProbeSerial, Asked
<1> QED
  BY <1>1, <1>2, <1>3, <1>4

LEMMA ProbeSerialFailsKeeps ==
  ASSUME IInv, NEW c \in conn, ProbeSerialFails(c)
  PROVE  SearchInv'
<1> USE DEF IInv, SearchInv, ReadersTypeOK, cards, search, seen, Present, Connection, Match
<1>1. CardsOnce' /\ Blamed' /\ Decided'
  BY ReadersAssumption DEF ReadersAssumption, ProbeSerialFails, CardsOnce, Blamed, Decided, Chosen
<1>2. Connected' /\ Matched' /\ Opened'
  BY HoldsKept, ReadersAssumption DEF ReadersAssumption, ProbeSerialFails, Connected, Matched, Opened
<1>3. Accounted' /\ OpenRefusedForCause'
  BY ReadersAssumption DEF ReadersAssumption, ProbeSerialFails, Accounted, Handled, OpenRefusedForCause
<1>4. Asked'
  <2>1. conn = {c}
    BY DEF ProbeSerialFails, Connected
  <2> QED
    BY <2>1 DEF ProbeSerialFails, Asked
<1> QED
  BY <1>1, <1>2, <1>3, <1>4

LEMMA ProbeCloseKeeps ==
  ASSUME IInv, NEW c \in conn, ProbeClose(c)
  PROVE  SearchInv'
<1> USE DEF IInv, SearchInv, ReadersTypeOK, cards, search, seen, Present, Connection, Match
<1>1. CardsOnce' /\ Asked' /\ Decided'
  BY ReadersAssumption DEF ReadersAssumption, ProbeClose, CardsOnce, Asked, Decided, Chosen
<1>2. Connected' /\ Opened'
  BY HoldsKept, ReadersAssumption DEF ReadersAssumption, ProbeClose, Connected, Opened
<1>3. OpenRefusedForCause'
  BY ReadersAssumption DEF ReadersAssumption, ProbeClose, OpenRefusedForCause
<1>4. Blamed'
  <2>1. unreadable' => unreadable \/ c.reader \in disturbed
    BY DEF ProbeClose, Asked
  <2> QED
    BY <2>1 DEF ProbeClose, Blamed
<1>5. Matched'
  <2> DEFINE found == [reader |-> c.reader, serial |-> serial]
  <2>1. \/ matches' = matches
        \/ matches' = matches \cup {found} /\ serial = c.card /\ wanted \in {AnySerial, serial}
    <3>1. serial # NoYubiKey => serial = c.card
      BY DEF ProbeClose, Asked
    <3> QED
      BY <3>1 DEF ProbeClose
  <2>2. IsFiniteSet(matches')
    <3>1. IsFiniteSet(matches \cup {found})
      BY FS_AddElement DEF Matched
    <3> QED
      BY <2>1, <3>1 DEF Matched
  <2>3. ASSUME NEW m \in matches' PROVE Holds(m.reader, m.serial) /\ wanted \in {AnySerial, m.serial}
    <3>1. Holds(c.reader, c.card)
      BY DEF Connected
    <3> QED
      BY <2>1, <2>3, <3>1 DEF Matched
  <2>4. \A m \in matches' : Holds(m.reader, m.serial)' /\ wanted' \in {AnySerial, m.serial}
    BY <2>3 DEF ProbeClose, Holds
  <2> QED
    BY <2>2, <2>4 DEF Matched
<1>6. Accounted'
  <2>1. conn = {c} /\ Holds(c.reader, c.card)
    BY DEF ProbeClose, Connected
  <2>2. \A q \in Reader : Handled(q) => q = c.reader \/ Handled(q)'
    BY <2>1 DEF ProbeClose, Handled
  <2>3. CASE serial = NoYubiKey
    <3>1. c.reader \in disturbed /\ unreadable'
      BY <2>3 DEF ProbeClose, Asked
    <3> QED
      BY <2>2, <3>1 DEF ProbeClose, Accounted
  <2>4. CASE serial # NoYubiKey
    <3>1. serial = c.card
      BY <2>4 DEF ProbeClose, Asked
    <3>2. CASE wanted \in {AnySerial, serial}
      <4>1. [reader |-> c.reader, serial |-> serial] \in matches'
        BY <2>4, <3>2 DEF ProbeClose
      <4>2. Handled(c.reader)'
        BY <4>1 DEF Handled, ProbeClose
      <4> QED
        BY <2>2, <4>1 DEF ProbeClose, Accounted, Handled
    <3>3. CASE wanted \notin {AnySerial, serial}
      <4>1. c.reader \notin moved => inReader[c.reader] = serial
        BY <2>1, <3>1 DEF Holds
      <4> QED
        BY <2>2, <3>3, <4>1, <2>4 DEF ProbeClose, Accounted
    <3> QED
      BY <3>2, <3>3
  <2> QED
    BY <2>3, <2>4
<1> QED
  BY <1>1, <1>2, <1>3, <1>4, <1>5, <1>6

LEMMA ProbeCloseFailsKeeps ==
  ASSUME IInv, NEW c \in conn, ProbeCloseFails(c)
  PROVE  SearchInv'
<1> USE DEF IInv, SearchInv, ReadersTypeOK, cards, search, seen, Present, Connection, Match
<1>1. CardsOnce' /\ Blamed' /\ Asked' /\ Decided'
  BY ReadersAssumption DEF ReadersAssumption, ProbeCloseFails, CardsOnce, Blamed, Asked, Decided, Chosen
<1>2. Connected' /\ Matched' /\ Opened'
  BY HoldsKept, ReadersAssumption DEF ReadersAssumption, ProbeCloseFails, Connected, Matched, Opened
<1>3. Accounted' /\ OpenRefusedForCause'
  BY ReadersAssumption DEF ReadersAssumption, ProbeCloseFails, Accounted, Handled, OpenRefusedForCause
<1> QED
  BY <1>1, <1>2, <1>3

LEMMA DecideKeeps ==
  ASSUME IInv, Decide
  PROVE  SearchInv'
<1> USE DEF IInv, SearchInv, ReadersTypeOK, cards, search, seen, Present, Connection, Match
<1>1. CardsOnce' /\ Blamed' /\ Asked' /\ Decided'
  BY ReadersAssumption DEF ReadersAssumption, Decide, CardsOnce, Blamed, Asked, Decided, Chosen
<1>2. Connected' /\ Matched' /\ Opened'
  BY HoldsKept, ReadersAssumption DEF ReadersAssumption, Decide, Connected, Matched, Opened
<1>3. Accounted'
  BY ReadersAssumption DEF ReadersAssumption, Decide, Accounted, Handled
<1>4. OpenRefusedForCause'
  <2> SUFFICES ASSUME at' = "refused" PROVE OpenRefusedForCause'
    BY DEF OpenRefusedForCause
  <2>1. at = "probe" /\ todo = {} /\ conn = {} /\ Chosen = {}
    BY DEF Decide, Connected
  <2>2. \A r \in Reader : Handled(r) <=> \E m \in matches : m.reader = r
    BY <2>1 DEF Handled
  <2>3. CASE wanted = AnySerial
    <3> SUFFICES ASSUME disturbed = {}, Cardinality(Present) = 1 PROVE FALSE
      BY <2>3 DEF Decide, OpenRefusedForCause
    <3>1. moved = {} /\ ~unreadable
      BY DEF Blamed
    <3>2. PICK p : Present = {p}
      BY FS_Subset, FS_Singleton, ReadersAssumption DEF ReadersAssumption
    <3>3. \A m \in matches : m = [reader |-> p, serial |-> inReader[p]]
      BY <3>1, <3>2, ReadersAssumption DEF ReadersAssumption, Matched, Holds
    <3>4. \E m \in matches : m.reader = p
      BY <2>1, <2>2, <2>3, <3>1, <3>2 DEF Accounted
    <3>5. matches = {[reader |-> p, serial |-> inReader[p]]}
      BY <3>3, <3>4
    <3> QED
      BY <2>1, <3>1, <3>5, FS_Singleton DEF Chosen, Matched
  <2>4. CASE wanted # AnySerial
    <3> SUFFICES ASSUME NEW r \in Reader, inReader[r] = wanted, r \notin disturbed PROVE FALSE
      BY <2>4 DEF Decide, OpenRefusedForCause
    <3>1. r \in Present \ moved
      BY <2>4, ReadersAssumption DEF ReadersAssumption, Blamed
    <3>2. \E m \in matches : m.reader = r
      BY <2>1, <2>2, <3>1 DEF Accounted
    <3>3. \A m \in matches : m = [reader |-> r, serial |-> wanted]
      BY <2>4, <3>1 DEF Matched, Holds
    <3>4. \E m : matches = {m}
      BY <3>2, <3>3
    <3> QED
      BY <2>1, <2>4, <3>4, FS_Singleton DEF Chosen, Matched
  <2> QED
    BY <2>3, <2>4
<1> QED
  BY <1>1, <1>2, <1>3, <1>4

LEMMA ReopenKeeps ==
  ASSUME IInv, NEW m \in matches, Reopen(m)
  PROVE  SearchInv'
<1> USE DEF IInv, SearchInv, ReadersTypeOK, cards, search, seen, Present, Connection, Match
<1>1. CardsOnce' /\ Blamed' /\ Asked' /\ Decided'
  BY ReadersAssumption DEF ReadersAssumption, Reopen, Free, Connect, CardsOnce, Blamed, Asked, Decided, Chosen
<1>2. Matched'
  BY HoldsKept, ReadersAssumption DEF ReadersAssumption, Reopen, Free, Connect, Matched
<1>3. Accounted' /\ OpenRefusedForCause'
  BY ReadersAssumption DEF ReadersAssumption, Reopen, Free, Connect, Accounted, Handled, OpenRefusedForCause
<1>4. Connected'
  <2>1. PICK k \in Serial : k = inReader[m.reader]
    BY DEF Reopen, Free
  <2>2. conn' = {[reader |-> m.reader, card |-> k]}
    BY <2>1 DEF Reopen, Connected, Connect
  <2>3. Holds(m.reader, k)'
    BY <2>1, Seen, HoldsKept DEF Reopen, Free
  <2> QED
    BY <2>1, <2>2, <2>3 DEF Reopen, Connected
<1>5. Opened'
  <2>1. Holds(m.reader, m.serial)' /\ wanted' \in {AnySerial, m.serial}
    BY HoldsKept DEF Reopen, Matched
  <2>2. ASSUME wanted = AnySerial PROVE Present \subseteq moved \cup {m.reader}
    <3>1. matches = {m} /\ ~unreadable
      BY <2>2, FS_Singleton DEF Reopen, Chosen, Matched
    <3>2. conn = {} /\ todo = {}
      BY DEF Reopen, Connected, Decided
    <3> QED
      BY <2>2, <3>1, <3>2 DEF Reopen, Accounted, Handled
  <2> QED
    BY <2>1, <2>2 DEF Reopen, Opened
<1> QED
  BY <1>1, <1>2, <1>3, <1>4, <1>5

LEMMA ReopenFailsKeeps ==
  ASSUME IInv, NEW m \in matches, ReopenFails(m)
  PROVE  SearchInv'
<1> USE DEF IInv, SearchInv, ReadersTypeOK, cards, search, seen, Present, Connection, Match
<1>1. CardsOnce' /\ Blamed' /\ Asked' /\ Decided'
  BY ReadersAssumption DEF ReadersAssumption, ReopenFails, Free, CardsOnce, Blamed, Asked, Decided, Chosen
<1>2. Connected' /\ Matched' /\ Opened'
  BY HoldsKept, ReadersAssumption DEF ReadersAssumption, ReopenFails, Free, Connected, Matched, Opened
<1>3. Accounted'
  BY ReadersAssumption DEF ReadersAssumption, ReopenFails, Free, Accounted, Handled
<1>4. OpenRefusedForCause'
  <2>1. m.reader \in disturbed'
    <3>1. m.reader \in Present \cup moved
      BY ReadersAssumption DEF ReadersAssumption, Matched, Holds
    <3>2. conn = {} /\ at = "reopen"
      BY DEF ReopenFails, Connected
    <3>3. ~Free(m.reader) => m.reader \in disturbed
      BY <3>1, <3>2, NotFree
    <3> QED
      BY <3>3 DEF ReopenFails
  <2>2. \A r \in Reader : inReader[r] = wanted /\ wanted # AnySerial => r \in disturbed'
    BY <2>1 DEF ReopenFails, Matched, Holds, Blamed
  <2> QED
    BY <2>1, <2>2 DEF ReopenFails, OpenRefusedForCause
<1> QED
  BY <1>1, <1>2, <1>3, <1>4

LEMMA CloseTokenKeeps ==
  ASSUME IInv, CloseToken
  PROVE  SearchInv'
<1> USE DEF IInv, SearchInv, ReadersTypeOK, cards, search, seen, Present, Connection, Match
<1>1. CardsOnce' /\ Blamed' /\ Asked' /\ Decided'
  BY ReadersAssumption DEF ReadersAssumption, CloseToken, CardsOnce, Blamed, Asked, Decided, Chosen
<1>2. Connected' /\ Matched' /\ Opened'
  BY HoldsKept, ReadersAssumption DEF ReadersAssumption, CloseToken, Connected, Matched, Opened
<1>3. Accounted' /\ OpenRefusedForCause'
  BY ReadersAssumption DEF ReadersAssumption, CloseToken, Accounted, Handled, OpenRefusedForCause
<1> QED
  BY <1>1, <1>2, <1>3

LEMMA KilledKeeps ==
  ASSUME IInv, Killed
  PROVE  SearchInv'
<1> USE DEF IInv, SearchInv, ReadersTypeOK, cards, search, seen, Present, Connection, Match
<1>1. CardsOnce' /\ Blamed' /\ Asked' /\ Decided'
  BY ReadersAssumption DEF ReadersAssumption, Killed, CardsOnce, Blamed, Asked, Decided, Chosen
<1>2. Connected' /\ Matched' /\ Opened'
  BY HoldsKept, ReadersAssumption DEF ReadersAssumption, Killed, Connected, Matched, Opened
<1>3. Accounted' /\ OpenRefusedForCause'
  BY ReadersAssumption DEF ReadersAssumption, Killed, Accounted, Handled, OpenRefusedForCause
<1> QED
  BY <1>1, <1>2, <1>3

LEMMA SwapKeeps ==
  ASSUME IInv, NEW r \in Reader, NEW s \in Serial \cup {NoYubiKey}, Swap(r, s)
  PROVE  SearchInv'
<1> USE DEF IInv, SearchInv, ReadersTypeOK, cards, search, seen, Present, Connection, Match
<1>1. CardsOnce' /\ Blamed' /\ Asked' /\ Decided'
  BY ReadersAssumption DEF ReadersAssumption, Swap, CardsOnce, Blamed, Asked, Decided, Chosen
<1>2. Connected' /\ Matched'
  BY HoldsKept, ReadersAssumption DEF ReadersAssumption, Swap, Connected, Matched
<1>3. Accounted' /\ OpenRefusedForCause'
  BY ReadersAssumption DEF ReadersAssumption, Swap, Accounted, Handled, OpenRefusedForCause
<1>4. Opened'
  BY OpenedKept DEF Swap
<1> QED
  BY <1>1, <1>2, <1>3, <1>4

LEMMA TakeKeeps ==
  ASSUME IInv, NEW r \in Reader, Take(r)
  PROVE  SearchInv'
<1> USE DEF IInv, SearchInv, ReadersTypeOK, cards, search, seen, Present, Connection, Match
<1>1. CardsOnce' /\ Blamed' /\ Asked' /\ Decided'
  BY ReadersAssumption DEF ReadersAssumption, Take, Free, CardsOnce, Blamed, Asked, Decided, Chosen
<1>2. Connected' /\ Matched'
  BY HoldsKept, ReadersAssumption DEF ReadersAssumption, Take, Free, Connected, Matched
<1>3. Accounted' /\ OpenRefusedForCause'
  BY ReadersAssumption DEF ReadersAssumption, Take, Free, Accounted, Handled, OpenRefusedForCause
<1>4. Opened'
  BY OpenedKept DEF Take
<1> QED
  BY <1>1, <1>2, <1>3, <1>4

LEMMA ReleaseKeeps ==
  ASSUME IInv, NEW r \in Reader, Release(r)
  PROVE  SearchInv'
<1> USE DEF IInv, SearchInv, ReadersTypeOK, cards, search, seen, Present, Connection, Match
<1>1. CardsOnce' /\ Blamed' /\ Asked' /\ Decided'
  BY ReadersAssumption DEF ReadersAssumption, Release, CardsOnce, Blamed, Asked, Decided, Chosen
<1>2. Connected' /\ Matched'
  BY HoldsKept, ReadersAssumption DEF ReadersAssumption, Release, Connected, Matched
<1>3. Accounted' /\ OpenRefusedForCause'
  BY ReadersAssumption DEF ReadersAssumption, Release, Accounted, Handled, OpenRefusedForCause
<1>4. Opened'
  BY OpenedKept DEF Release
<1> QED
  BY <1>1, <1>2, <1>3, <1>4

-----------------------------------------------------------------------------
(* The theorems.                                                           *)

LEMMA InvInit == ReadersInit => IInv
<1> SUFFICES ASSUME ReadersInit PROVE SearchInv
  BY TypeInit DEF IInv
<1>1. CardsOnce /\ Blamed /\ Connected /\ Asked /\ Accounted /\ Decided /\ Opened /\ OpenRefusedForCause
  BY DEF ReadersInit, CardsOnce, Blamed, Connected, Asked, Accounted, Decided, Opened, OpenRefusedForCause
<1>2. Matched
  BY FS_EmptySet DEF ReadersInit, Matched
<1> QED
  BY <1>1, <1>2 DEF SearchInv

LEMMA InvStep == IInv /\ [ReadersNext]_readerVars => IInv'
<1> SUFFICES ASSUME IInv, [ReadersNext]_readerVars PROVE SearchInv'
  BY TypeStep DEF IInv
<1>1. ASSUME NEW w \in Serial \cup {AnySerial}, Open(w) PROVE SearchInv'
  BY <1>1, OpenKeeps
<1>2. CASE ListCards
  BY <1>2, ListCardsKeeps
<1>3. CASE ListCardsFails
  BY <1>3, ListCardsFailsKeeps
<1>4. ASSUME NEW r \in Reader, ProbeOpen(r) PROVE SearchInv'
  BY <1>4, ProbeOpenKeeps
<1>5. ASSUME NEW r \in Reader, ProbeFails(r) PROVE SearchInv'
  BY <1>5, ProbeFailsKeeps
<1>6. ASSUME NEW c \in conn, ProbeSerial(c) PROVE SearchInv'
  BY <1>6, ProbeSerialKeeps
<1>7. ASSUME NEW c \in conn, ProbeSerialFails(c) PROVE SearchInv'
  BY <1>7, ProbeSerialFailsKeeps
<1>8. ASSUME NEW c \in conn, ProbeClose(c) PROVE SearchInv'
  BY <1>8, ProbeCloseKeeps
<1>9. ASSUME NEW c \in conn, ProbeCloseFails(c) PROVE SearchInv'
  BY <1>9, ProbeCloseFailsKeeps
<1>10. CASE Decide
  BY <1>10, DecideKeeps
<1>11. ASSUME NEW m \in matches, Reopen(m) PROVE SearchInv'
  BY <1>11, ReopenKeeps
<1>12. ASSUME NEW m \in matches, ReopenFails(m) PROVE SearchInv'
  BY <1>12, ReopenFailsKeeps
<1>13. CASE CloseToken
  BY <1>13, CloseTokenKeeps
<1>14. CASE Killed
  BY <1>14, KilledKeeps
<1>15. ASSUME NEW r \in Reader, NEW s \in Serial \cup {NoYubiKey}, Swap(r, s) PROVE SearchInv'
  BY <1>15, SwapKeeps
<1>16. ASSUME NEW r \in Reader, Take(r) PROVE SearchInv'
  BY <1>16, TakeKeeps
<1>17. ASSUME NEW r \in Reader, Release(r) PROVE SearchInv'
  BY <1>17, ReleaseKeeps
<1>18. CASE UNCHANGED readerVars
  BY <1>18 DEF IInv, SearchInv, readerVars, cards, search, seen, CardsOnce, Blamed, Connected, Asked, Matched, Accounted,
    Handled, Decided, Chosen, Opened, OpenRefusedForCause, Holds, Present
<1> QED
  BY <1>1, <1>2, <1>3, <1>4, <1>5, <1>6, <1>7, <1>8, <1>9, <1>10, <1>11, <1>12, <1>13, <1>14, <1>15, <1>16, <1>17, <1>18
  DEF ReadersNext, OpenStep, Others

LEMMA Invariant == ReadersSpec => []IInv
BY InvInit, InvStep, PTL DEF ReadersSpec

LEMMA RightCardHolds == IInv => RightCard
<1> SUFFICES ASSUME IInv, at = "open", token.reader \notin moved
             PROVE  RightCard
  BY DEF RightCard
<1> USE DEF IInv, SearchInv
<1>1. PICK k \in Serial : conn = {[reader |-> token.reader, card |-> k]}
  BY DEF Connected
<1>2. inReader[token.reader] = k
  BY <1>1 DEF Connected, Holds
<1>3. inReader[token.reader] = token.serial
  BY DEF Opened, Holds
<1> QED
  BY <1>1, <1>2, <1>3 DEF Opened, RightCard

\* Open returns the YubiKey it was asked for, or the only one there is, unless it
\* was changed in its own reader between the search and the second connection
\* (yubikey_piv.go:151).
THEOREM OpensRightCard == ReadersSpec => []RightCard
BY Invariant, RightCardHolds, PTL

\* Open refuses only when the YubiKey is missing, held or not the only one, or a
\* reader failed or changed meanwhile (yubikey_piv.go:136).
THEOREM RefusesForCause == ReadersSpec => []OpenRefusedForCause
<1>1. IInv => OpenRefusedForCause
  BY DEF IInv, SearchInv
<1> QED
  BY <1>1, Invariant, PTL
=============================================================================
