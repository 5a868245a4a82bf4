------------------------------ MODULE Readers ------------------------------
(***************************************************************************)
(* yubikey.Open: one process looks for a YubiKey among those connected and *)
(* keeps a connection to it, until Token.Close.  A connection is           *)
(* exclusive.  Open reads the serial number of each YubiKey over a         *)
(* connection that it closes again, decides, and then connects once more   *)
(* to the reader it chose.  Meanwhile YubiKeys are unplugged and plugged   *)
(* in, and other programs connect to them.                                 *)
(*                                                                         *)
(* Only readers with "yubikey" in their names are modelled, the others are *)
(* passed over.  A reader without a YubiKey is not listed.                 *)
(***************************************************************************)
EXTENDS Naturals, FiniteSets

CONSTANTS Reader, Serial,
          NoYubiKey,      \* a reader that is not there
          AnySerial,      \* Config.Serial is 0
          MaxChanges      \* bounds what users and other programs do

ASSUME ReadersAssumption ==
  /\ NoYubiKey \notin Serial /\ AnySerial \notin Serial
  /\ IsFiniteSet(Reader) /\ MaxChanges \in Nat

VARIABLES
  inReader,    \* the YubiKey in each reader
  taken,       \* the readers other programs are connected to
  changes,
  conn,        \* the connections of this process
  at,          \* the next step of Open, or "closed", "open", "refused"
  wanted,      \* Config.Serial
  todo,        \* the readers listed and not yet asked
  serial,      \* the serial number cardSerial read
  matches, unreadable,    \* what Open found
  token,       \* the Token: its reader and its serial number
  moved,       \* readers whose YubiKey changed since Open listed them
  disturbed    \* readers that failed, moved or were taken since then

cards == <<inReader, taken, changes>>
search == <<wanted, todo, serial, matches, unreadable>>
seen == <<moved, disturbed>>
readerVars == <<cards, conn, at, search, token, seen>>

Connection == [reader : Reader, card : Serial]
Match == [reader : Reader, serial : Serial]
NoToken == [reader |-> NoYubiKey, serial |-> NoYubiKey]
Steps == {"closed", "list", "probe", "read", "close", "reopen", "open", "refused"}
Present == {r \in Reader : inReader[r] # NoYubiKey}

ReadersInit ==
  /\ inReader \in [Reader -> Serial \cup {NoYubiKey}]
  /\ \A r, q \in Present : inReader[r] = inReader[q] => r = q
  /\ taken \in SUBSET Present /\ changes = 0
  /\ conn = {} /\ at = "closed" /\ wanted = AnySerial
  /\ todo = {} /\ serial = NoYubiKey /\ matches = {} /\ unreadable = FALSE
  /\ token = NoToken /\ moved = {} /\ disturbed = {}

-----------------------------------------------------------------------------
(* Open.                                                                   *)

Open(w) ==
  /\ at \in {"closed", "refused"}
  /\ at' = "list" /\ wanted' = w /\ matches' = {} /\ unreadable' = FALSE
  /\ todo' = {} /\ serial' = NoYubiKey
  /\ moved' = {} /\ disturbed' = taken
  /\ UNCHANGED <<cards, conn, token>>

ListCards ==
  /\ at = "list"
  /\ at' = "probe" /\ todo' = Present
  /\ UNCHANGED <<cards, conn, wanted, serial, matches, unreadable, token, seen>>

ListCardsFails ==
  /\ at = "list"
  /\ at' = "refused" /\ disturbed' = Reader
  /\ UNCHANGED <<cards, conn, search, token, moved>>

\* openCard reaches a YubiKey that is there and that no one holds.
Free(r) == r \in Present \ taken /\ \A c \in conn : c.reader # r
Connect(r) == conn' = conn \cup {[reader |-> r, card |-> inReader[r]]}

\* cardSerial of one of the readers listed.
ProbeOpen(r) ==
  /\ at = "probe" /\ r \in todo /\ Free(r)
  /\ Connect(r) /\ at' = "read" /\ todo' = todo \ {r}
  /\ UNCHANGED <<cards, wanted, serial, matches, unreadable, token, seen>>

\* ... which cannot be opened, whether someone holds it or not.
ProbeFails(r) ==
  /\ at = "probe" /\ r \in todo
  /\ unreadable' = TRUE /\ todo' = todo \ {r}
  /\ disturbed' = IF Free(r) THEN disturbed \cup {r} ELSE disturbed
  /\ UNCHANGED <<cards, conn, at, wanted, serial, matches, token, moved>>

ProbeSerial(c) ==
  /\ at = "read" /\ c \in conn /\ inReader[c.reader] = c.card
  /\ serial' = c.card /\ at' = "close"
  /\ UNCHANGED <<cards, conn, wanted, todo, matches, unreadable, token, seen>>

ProbeSerialFails(c) ==
  /\ at = "read" /\ c \in conn
  /\ serial' = NoYubiKey /\ at' = "close" /\ disturbed' = disturbed \cup {c.reader}
  /\ UNCHANGED <<cards, conn, wanted, todo, matches, unreadable, token, moved>>

\* Faulty variant: when the serial number cannot be read the YubiKey stays open.
ProbeCloseOnSuccess(c) ==
  /\ at = "close" /\ c \in conn
  /\ at' = "probe"
  /\ IF serial # NoYubiKey
     THEN /\ conn' = conn \ {c}
          /\ matches' = IF wanted \in {AnySerial, serial} THEN matches \cup {[reader |-> c.reader, serial |-> serial]} ELSE matches
          /\ UNCHANGED unreadable
     ELSE unreadable' = TRUE /\ UNCHANGED <<conn, matches>>
  /\ UNCHANGED <<cards, wanted, todo, serial, token, seen>>

\* The YubiKey is closed whether its serial number was read or not, and a match
\* when it is the one wanted.
ProbeClose(c) ==
  /\ at = "close" /\ c \in conn
  /\ at' = "probe" /\ conn' = conn \ {c}
  /\ IF serial = NoYubiKey
     THEN unreadable' = TRUE /\ UNCHANGED matches
     ELSE /\ matches' = IF wanted \in {AnySerial, serial}
                          THEN matches \cup {[reader |-> c.reader, serial |-> serial]} ELSE matches
          /\ UNCHANGED unreadable
  /\ UNCHANGED <<cards, wanted, todo, serial, token, seen>>

ProbeCloseFails(c) ==
  /\ at = "close" /\ c \in conn
  /\ at' = "probe" /\ conn' = conn \ {c} /\ unreadable' = TRUE
  /\ disturbed' = disturbed \cup {c.reader}
  /\ UNCHANGED <<cards, wanted, todo, serial, matches, token, moved>>

\* Faulty variant: an unreadable YubiKey is not the one wanted, surely.
ChosenReadable == {m \in matches : Cardinality(matches) = 1}

\* Faulty variant: every YubiKey must be readable, whichever is wanted.
ChosenAllReadable == {m \in matches : Cardinality(matches) = 1 /\ ~unreadable}

\* The match to open: the only one, and without a serial number to look for
\* every YubiKey must have been readable.
Chosen ==
  {m \in matches : Cardinality(matches) = 1 /\ ~(unreadable /\ wanted = AnySerial)}

Decide ==
  /\ at = "probe" /\ todo = {}
  /\ at' = IF Chosen = {} THEN "refused" ELSE "reopen"
  /\ UNCHANGED <<cards, conn, search, token, seen>>

Reopen(m) ==
  /\ at = "reopen" /\ m \in Chosen /\ Free(m.reader)
  /\ Connect(m.reader) /\ token' = m /\ at' = "open"
  /\ UNCHANGED <<cards, search, seen>>

ReopenFails(m) ==
  /\ at = "reopen" /\ m \in Chosen
  /\ at' = "refused"
  /\ disturbed' = IF Free(m.reader) THEN disturbed \cup {m.reader} ELSE disturbed
  /\ UNCHANGED <<cards, conn, search, token, moved>>

\* Token.Close.  The connection is gone even when it fails, which is logged.
CloseToken ==
  /\ at = "open"
  /\ at' = "closed" /\ conn' = {} /\ token' = NoToken
  /\ UNCHANGED <<cards, search, seen>>

\* The process is killed: the operating system closes its connections.
Killed ==
  /\ at' = "closed" /\ conn' = {} /\ token' = NoToken
  /\ UNCHANGED <<cards, search, seen>>

OpenStep ==
  \/ ListCards \/ ListCardsFails \/ Decide
  \/ \E r \in Reader : ProbeOpen(r) \/ ProbeFails(r)
  \/ \E c \in conn : ProbeSerial(c) \/ ProbeSerialFails(c) \/ ProbeClose(c) \/ ProbeCloseFails(c)
  \/ \E m \in matches : Reopen(m) \/ ReopenFails(m)

-----------------------------------------------------------------------------
(* Users and other programs.                                               *)

\* A user unplugs the YubiKey in r, plugs one in, or swaps it for another one.
Swap(r, s) ==
  /\ changes < MaxChanges /\ s # inReader[r]
  /\ s # NoYubiKey => \A q \in Reader : inReader[q] # s
  /\ inReader' = [inReader EXCEPT ![r] = s] /\ taken' = taken \ {r}
  /\ changes' = changes + 1
  /\ moved' = moved \cup {r} /\ disturbed' = disturbed \cup {r}
  /\ UNCHANGED <<conn, at, search, token>>

Take(r) ==
  /\ changes < MaxChanges /\ Free(r)
  /\ taken' = taken \cup {r} /\ changes' = changes + 1 /\ disturbed' = disturbed \cup {r}
  /\ UNCHANGED <<inReader, conn, at, search, token, moved>>

Release(r) ==
  /\ r \in taken
  /\ taken' = taken \ {r}
  /\ UNCHANGED <<inReader, changes, conn, at, search, token, seen>>

Others ==
  \E r \in Reader : Take(r) \/ Release(r) \/ \E s \in Serial \cup {NoYubiKey} : Swap(r, s)

ReadersNext == (\E w \in Serial \cup {AnySerial} : Open(w)) \/ OpenStep \/ CloseToken \/ Killed \/ Others
ReadersSpec == ReadersInit /\ [][ReadersNext]_readerVars

-----------------------------------------------------------------------------
(* Properties.                                                             *)

ReadersTypeOK ==
  /\ inReader \in [Reader -> Serial \cup {NoYubiKey}]
  /\ taken \subseteq Reader /\ changes \in 0..MaxChanges
  /\ conn \subseteq Connection /\ at \in Steps /\ wanted \in Serial \cup {AnySerial}
  /\ todo \subseteq Reader /\ serial \in Serial \cup {NoYubiKey}
  /\ matches \subseteq Match /\ unreadable \in BOOLEAN
  /\ token \in Match \cup {NoToken}
  /\ moved \subseteq Reader /\ disturbed \subseteq Reader

\* Open returns the YubiKey with the serial number asked for, or the only one
\* there is, unless a user changed the YubiKey in that very reader meanwhile
\* (yubikey_piv.go:151); other changes do not mislead it.
RightCard ==
  at = "open" /\ token.reader \notin moved =>
    /\ conn = {[reader |-> token.reader, card |-> token.serial]}
    /\ inReader[token.reader] = token.serial
    /\ wanted # AnySerial => token.serial = wanted
    /\ wanted = AnySerial => Present \subseteq moved \cup {token.reader}

\* Open refuses for a reason (yubikey_piv.go:136): the YubiKey asked for is not
\* there or is held, or, when any will do, there is not exactly one or one of them
\* is held.  A YubiKey with another serial number never stands in the way.
OpenRefusedForCause ==
  at = "refused" /\ Reader # disturbed =>
    IF wanted = AnySerial
    THEN disturbed # {} \/ Cardinality(Present) # 1
    ELSE \A r \in Reader : inReader[r] = wanted => r \in disturbed
=============================================================================
