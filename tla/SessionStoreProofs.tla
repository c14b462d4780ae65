------------------------- MODULE SessionStoreProofs -------------------------
(***************************************************************************)
(* Theorems about SessionStore, for any number of handlers and emails.     *)
(*                                                                         *)
(* Expiry is final, whatever cleaning, deletion and erasure do beside the  *)
(* handlers: every copy of the document that a handler or administration   *)
(* holds carries the expiry of the first save, so that a late save writes  *)
(* back what is expired already.  Erasure and deletion are final as long   *)
(* as neither meets a handler in flight.                                   *)
(***************************************************************************)
EXTENDS SessionStore, TLAPS

\* All copies of the document, wherever they are held, expire at Life.
OneExpiry ==
    /\ row # NoRow => row.doc.expiresAt = Life
    /\ \A r \in Requests : InFlight(r) => req[r].doc.expiresAt = Life
    /\ admin.pc = "updatePayload" => admin.doc.expiresAt = Life

Inv == TypeOK /\ OneExpiry

\* The documents that are held after a scrub or a handler's change keep their form
\* and their expiry: Scrubbed and Holds.
LEMMA ScrubbedKeepsExpiry ==
    ASSUME NEW document \in Documents
    PROVE  /\ Scrubbed(document) \in Documents
           /\ Scrubbed(document).expiresAt = document.expiresAt
BY DEF Scrubbed, Documents

\* A handler that comes to hold a copy of a document holds one of the same expiry.
LEMMA HoldsKeepsInv ==
    ASSUME Inv, NEW r \in Requests, NEW document \in Documents,
           NEW base \in {NoRow} \cup [doc : Documents, version : Nat],
           NEW version \in Nat, NEW quotes \in BOOLEAN,
           document.expiresAt = Life,
           Holds(r, base, document, version, quotes),
           UNCHANGED <<mode, now, row, snapshots, records, admin, deleted>>,
           erased' \in BOOLEAN
    PROVE  Inv'
<1>1. serial' \in Nat
  BY DEF Holds, Inv, TypeOK
<1> DEFINE d == [document EXCEPT !.serial = serial']
<1>2. d \in Documents /\ d.expiresAt = Life
  BY <1>1 DEF Documents
<1> DEFINE h == [pc |-> "save", base |-> base, doc |-> d, version |-> version,
                 quotes |-> quotes]
<1>3. h \in Handlers
  BY <1>2 DEF Handlers
<1>4. req' = [req EXCEPT ![r] = h]
  BY DEF Holds
<1>5. req' \in [Requests -> Handlers]
  BY <1>3, <1>4 DEF Inv, TypeOK
<1>6. \A q \in Requests : req'[q] # Idle => req'[q].doc.expiresAt = Life
  BY <1>2, <1>4 DEF Inv, TypeOK, OneExpiry, InFlight
<1>7. TypeOK'
  BY <1>1, <1>5 DEF Inv, TypeOK, Holds
<1>8. OneExpiry'
  BY <1>6 DEF Inv, OneExpiry, InFlight
<1> QED BY <1>7, <1>8 DEF Inv

\* A handler in flight holds one of the records of Handlers, with a copy in it.
LEMMA InFlightHolds ==
    ASSUME TypeOK, NEW r \in Requests, InFlight(r)
    PROVE  /\ req[r] \in [pc : {"save", "insert", "update", "saveQuote", "saveRecord"},
                          base : {NoRow} \cup [doc : Documents, version : Nat],
                          doc : Documents, version : Nat, quotes : BOOLEAN]
BY DEF TypeOK, InFlight, Handlers

\* A handler that moves on or ends leaves every copy as it is.
LEMMA MovesOn ==
    ASSUME Inv, NEW r \in Requests, InFlight(r),
           \/ \E pc \in {"insert", "update", "saveQuote", "saveRecord"} : Goto(r, pc)
           \/ Drop(r)
    PROVE  /\ req' \in [Requests -> Handlers]
           /\ \A q \in Requests : req'[q] # Idle => req'[q].doc.expiresAt = Life
<1>1. CASE Drop(r)
  BY <1>1 DEF Drop, Inv, TypeOK, OneExpiry, InFlight, Handlers
<1>2. ASSUME NEW pc \in {"insert", "update", "saveQuote", "saveRecord"}, Goto(r, pc)
      PROVE  /\ req' \in [Requests -> Handlers]
             /\ \A q \in Requests : req'[q] # Idle => req'[q].doc.expiresAt = Life
  <2>1. [req[r] EXCEPT !.pc = pc] \in Handlers
    BY InFlightHolds DEF Inv, Handlers
  <2>2. [req[r] EXCEPT !.pc = pc].doc = req[r].doc
    BY InFlightHolds DEF Inv
  <2>3. req' = [req EXCEPT ![r] = [req[r] EXCEPT !.pc = pc]]
    BY <1>2 DEF Goto
  <2>4. req' \in [Requests -> Handlers]
    BY <2>1, <2>3 DEF Inv, TypeOK
  <2>5. \A q \in Requests : req'[q] # Idle => req'[q].doc.expiresAt = Life
    BY <2>2, <2>3 DEF Inv, TypeOK, OneExpiry, InFlight
  <2> QED BY <2>4, <2>5
<1> QED BY <1>1, <1>2

-----------------------------------------------------------------------------
(* One lemma per kind of step. *)

\* Init: nothing is held.
LEMMA InitInv == ASSUME Init PROVE Inv
<1>1. req \in [Requests -> Handlers] /\ admin \in Admins
  BY DEF Init, Handlers, Admins
<1>2. now \in 0..(Life + 1) /\ serial \in Nat
  BY StoreAssumption DEF Init
<1>3. TypeOK
  BY <1>1, <1>2, Zenon DEF Init, TypeOK
<1>4. OneExpiry
  BY DEF Init, OneExpiry, InFlight, Idle
<1> QED BY <1>3, <1>4 DEF Inv

\* The steps that put a handler in flight, startSession and requireSession.
LEMMA LoadInv ==
    ASSUME Inv, NEW r \in Requests,
           \/ StartSession(r)
           \/ \E email \in Emails \cup {NoEmail}, quotes \in BOOLEAN, count \in {0, 1} :
                 Handle(r, email, quotes, count)
    PROVE  Inv'
<1>1. CASE StartSession(r)
  <2> DEFINE first == [email |-> NoEmail, expiresAt |-> Life, serial |-> 0]
  <2>1. first \in Documents
    BY StoreAssumption DEF Documents
  <2>2. Holds(r, NoRow, first, 1, FALSE)
    BY <1>1 DEF StartSession
  <2>3. UNCHANGED <<mode, now, row, snapshots, records, admin, deleted>>
    BY <1>1 DEF StartSession
  <2>4. erased' \in BOOLEAN
    BY <1>1 DEF StartSession, Inv, TypeOK
  <2> QED BY <2>1, <2>2, <2>3, <2>4, HoldsKeepsInv
<1>2. ASSUME NEW email \in Emails \cup {NoEmail}, NEW quotes \in BOOLEAN,
             NEW count \in {0, 1}, Handle(r, email, quotes, count)
      PROVE  Inv'
  <2> DEFINE copy == [row.doc EXCEPT !.email = email]
  <2>1. row # NoRow
    BY <1>2 DEF Handle, getSession
  <2>2. row \in [doc : Documents, version : Nat]
    BY <2>1 DEF Inv, TypeOK
  <2>3. copy \in Documents /\ copy.expiresAt = Life
    BY <2>1, <2>2 DEF Documents, Inv, OneExpiry
  <2>4. Holds(r, row, copy, row.version + count, quotes) /\ row.version + count \in Nat
    BY <1>2, <2>2 DEF Handle
  <2>5. UNCHANGED <<mode, now, row, snapshots, records, admin, deleted>>
    BY <1>2 DEF Handle
  <2>6. erased' \in BOOLEAN
    BY <1>2 DEF Handle, Inv, TypeOK
  <2> QED BY <2>2, <2>3, <2>4, <2>5, <2>6, HoldsKeepsInv
<1> QED BY <1>1, <1>2

\* The awaits of saveSession and what follows it: a row is written from a copy.
LEMMA SaveInv ==
    ASSUME Inv, NEW r \in Requests,
           \/ SaveInMemory(r) \/ SelectVersion(r) \/ InsertRow(r) \/ UpdateRow(r)
           \/ SaveQuote(r) \/ SaveRecord(r) \/ Crash(r)
    PROVE  Inv'
<1>1. InFlight(r)
  BY DEF SaveInMemory, SelectVersion, InsertRow, UpdateRow, SaveQuote, SaveRecord,
         Crash, InFlight, Idle
<1>2. /\ req[r].doc \in Documents /\ req[r].version \in Nat
      /\ req[r].doc.expiresAt = Life
  BY <1>1, InFlightHolds DEF Inv, OneExpiry
<1>3. \/ \E pc \in {"insert", "update", "saveQuote", "saveRecord"} : Goto(r, pc)
      \/ Drop(r)
  BY DEF SaveInMemory, SelectVersion, InsertRow, UpdateRow, SaveQuote, SaveRecord,
         Crash, Saved
<1>4. /\ req' \in [Requests -> Handlers]
      /\ \A q \in Requests : req'[q] # Idle => req'[q].doc.expiresAt = Life
  BY <1>1, <1>3, MovesOn
<1>5. \/ UNCHANGED row
      \/ \E version \in Nat : row' = [doc |-> req[r].doc, version |-> version]
  <2>1. CASE SaveInMemory(r)
    BY <2>1, <1>2 DEF SaveInMemory
  <2>2. CASE InsertRow(r)
    BY <2>2 DEF InsertRow
  <2>3. CASE UpdateRow(r)
    <3>1. CASE row # NoRow /\ row.version = req[r].version
      <4>1. row' = [doc |-> req[r].doc, version |-> row.version + 1]
        BY <2>3, <3>1 DEF UpdateRow
      <4>2. row.version + 1 \in Nat
        BY <3>1 DEF Inv, TypeOK
      <4> QED BY <4>1, <4>2
    <3>2. CASE ~(row # NoRow /\ row.version = req[r].version)
      BY <2>3, <3>2 DEF UpdateRow
    <3> QED BY <3>1, <3>2
  <2>4. CASE SelectVersion(r) \/ SaveQuote(r) \/ SaveRecord(r) \/ Crash(r)
    BY <2>4 DEF SelectVersion, SaveQuote, SaveRecord, Crash
  <2> QED BY <2>1, <2>2, <2>3, <2>4
<1>6. /\ row' \in {NoRow} \cup [doc : Documents, version : Nat]
      /\ row' # NoRow => row'.doc.expiresAt = Life
  BY <1>2, <1>5 DEF Inv, TypeOK, OneExpiry
<1>7. snapshots' \subseteq Emails /\ records' \subseteq Emails
  <2>1. {req[r].doc.email} \ {NoEmail} \subseteq Emails
    BY <1>2 DEF Documents
  <2> QED BY <2>1 DEF SaveInMemory, SelectVersion, InsertRow, UpdateRow, SaveQuote,
                      SaveRecord, Crash, Inv, TypeOK
<1>8. UNCHANGED <<mode, now, admin, serial, erased, deleted, disturbed>>
  BY DEF SaveInMemory, SelectVersion, InsertRow, UpdateRow, SaveQuote, SaveRecord,
         Crash
<1>9. TypeOK'
  BY <1>4, <1>6, <1>7, <1>8 DEF Inv, TypeOK
<1>10. OneExpiry'
  BY <1>4, <1>6, <1>8 DEF Inv, OneExpiry, InFlight
<1> QED BY <1>9, <1>10 DEF Inv

\* Erasure writes back a scrubbed document, at once or in the next await.
LEMMA AnonymizeInv ==
    ASSUME Inv, AnonymizeInMemory \/ Anonymize \/ UpdatePayload \/ ScrubHistory
    PROVE  Inv'
<1>1. UNCHANGED <<mode, now, records, req, serial, deleted>>
  BY DEF AnonymizeInMemory, Anonymize, UpdatePayload, ScrubHistory
<1>2. erased' \in BOOLEAN /\ disturbed' \in BOOLEAN /\ snapshots' \subseteq Emails
  BY DEF AnonymizeInMemory, Anonymize, UpdatePayload, ScrubHistory, Disturbs, Inv,
         TypeOK
<1>3. /\ row' \in {NoRow} \cup [doc : Documents, version : Nat]
      /\ row' # NoRow => row'.doc.expiresAt = Life
      /\ admin' \in Admins
      /\ admin'.pc = "updatePayload" => admin'.doc.expiresAt = Life
  <2>1. CASE AnonymizeInMemory
    <3>1. row \in [doc : Documents, version : Nat] /\ row.doc.expiresAt = Life
      BY <2>1 DEF AnonymizeInMemory, Inv, TypeOK, OneExpiry
    <3> DEFINE d == Scrubbed(row.doc)
    <3>2. d \in Documents /\ d.expiresAt = Life
      BY <3>1, ScrubbedKeepsExpiry
    <3>3. row' = [row EXCEPT !.doc = d] /\ UNCHANGED admin
      BY <2>1 DEF AnonymizeInMemory
    <3> HIDE DEF d
    <3> QED BY <3>1, <3>2, <3>3 DEF Inv, TypeOK, OneExpiry
  <2>2. CASE Anonymize
    <3>1. row \in [doc : Documents, version : Nat] /\ row.doc.expiresAt = Life
      BY <2>2 DEF Anonymize, getSession, Inv, TypeOK, OneExpiry
    <3> DEFINE d == Scrubbed(row.doc)
    <3>2. d \in Documents /\ d.expiresAt = Life
      BY <3>1, ScrubbedKeepsExpiry
    <3>3. UNCHANGED row /\ admin' = [pc |-> "updatePayload", doc |-> d]
      BY <2>2 DEF Anonymize
    <3> HIDE DEF d
    <3> QED BY <3>1, <3>2, <3>3 DEF Admins, Inv, TypeOK, OneExpiry
  <2>3. CASE UpdatePayload
    <3>1. admin.doc \in Documents /\ admin.doc.expiresAt = Life
      BY <2>3 DEF UpdatePayload, Inv, TypeOK, OneExpiry, Admins, Idle
    <3>2. /\ row' = IF row = NoRow THEN row ELSE [row EXCEPT !.doc = admin.doc]
          /\ admin' = [pc |-> "scrubHistory"]
      BY <2>3 DEF UpdatePayload
    <3> QED BY <3>1, <3>2 DEF Admins, Inv, TypeOK, OneExpiry
  <2>4. CASE ScrubHistory
    BY <2>4 DEF ScrubHistory, Admins, Idle, Inv, TypeOK, OneExpiry
  <2> QED BY <2>1, <2>2, <2>3, <2>4
<1>4. TypeOK'
  BY <1>1, <1>2, <1>3 DEF Inv, TypeOK
<1>5. OneExpiry'
  BY <1>1, <1>3 DEF Inv, OneExpiry, InFlight
<1> QED BY <1>4, <1>5 DEF Inv

\* Deletion, cleaning and the lapse of an entry take the row away or leave it.
LEMMA RemoveInv ==
    ASSUME Inv, \/ DropExpired \/ DeleteInMemory \/ DeleteRow \/ DeleteHistory
                \/ CleanExpired
    PROVE  Inv'
<1>1. UNCHANGED <<mode, now, records, req, serial, erased>>
  BY DEF DropExpired, DeleteInMemory, DeleteRow, DeleteHistory, CleanExpired
<1>2. /\ deleted' \in BOOLEAN /\ disturbed' \in BOOLEAN /\ snapshots' \subseteq Emails
      /\ row' \in {row, NoRow}
  BY DEF DropExpired, DeleteInMemory, DeleteRow, DeleteHistory, CleanExpired, Disturbs,
         Inv, TypeOK
<1>3. admin' \in {admin, Idle, [pc |-> "deleteHistory"]}
  BY DEF DropExpired, DeleteInMemory, DeleteRow, DeleteHistory, CleanExpired
<1>4. admin' \in Admins /\ (admin'.pc = "updatePayload" => admin'.doc.expiresAt = Life)
  BY <1>3 DEF Admins, Idle, Inv, TypeOK, OneExpiry
<1>5. TypeOK'
  BY <1>1, <1>2, <1>4 DEF Inv, TypeOK
<1>6. OneExpiry'
  BY <1>1, <1>2, <1>4 DEF Inv, OneExpiry, InFlight
<1> QED BY <1>5, <1>6 DEF Inv

\* Time passes up to the moment behind the expiry.
LEMMA TickInv == ASSUME Inv, Tick PROVE Inv'
BY StoreAssumption DEF Tick, Inv, TypeOK, OneExpiry, InFlight

\* Every step keeps the invariant, a stutter included.
LEMMA NextInv == ASSUME Inv, [Next]_vars PROVE Inv'
<1>1. CASE UNCHANGED vars
  BY <1>1 DEF vars, Inv, TypeOK, OneExpiry, InFlight
<1>2. CASE Next
  BY <1>2, TickInv, LoadInv, SaveInv, AnonymizeInv, RemoveInv DEF Next
<1> QED BY <1>1, <1>2

-----------------------------------------------------------------------------
(* Theorems *)

\* The invariant: rows and copies are well formed and share one expiry, under every
\* interleaving of handlers, administration and time.
THEOREM Invariance == Spec => []Inv
<1>1. Init => Inv
  BY InitInv
<1>2. Inv /\ [Next]_vars => Inv'
  BY NextInv
<1> QED BY <1>1, <1>2, PTL DEF Spec

\* What the adapters store and what handlers hold is well formed: an email is gone
\* where it was erased, a version is a number, no handler waits where there is no await.
THEOREM TypeCorrect == Spec => []TypeOK
<1>1. Inv => TypeOK
  BY DEF Inv
<1> QED BY <1>1, Invariance, PTL

\* A handler comes to hold a loaded document in requireSession alone.
LEMMA OnlyHandleLoads ==
    ASSUME Inv, Next, NEW r \in Requests,
           ~InFlight(r), req'[r] # Idle, req'[r].base # NoRow
    PROVE  \E email \in Emails \cup {NoEmail}, quotes \in BOOLEAN, count \in {0, 1} :
               Handle(r, email, quotes, count)
<1>1. req'[r] # req[r]
  BY DEF InFlight
<1>2. PICK q \in Requests :
         \/ StartSession(q)
         \/ \E email \in Emails \cup {NoEmail}, quotes \in BOOLEAN, count \in {0, 1} :
               Handle(q, email, quotes, count)
         \/ SaveInMemory(q) \/ SelectVersion(q) \/ InsertRow(q) \/ UpdateRow(q)
         \/ SaveQuote(q) \/ SaveRecord(q) \/ Crash(q)
  BY <1>1 DEF Next, Tick, DropExpired, AnonymizeInMemory, Anonymize, UpdatePayload,
              ScrubHistory, DeleteInMemory, DeleteRow, DeleteHistory, CleanExpired
<1>3. \E h : req' = [req EXCEPT ![q] = h]
  BY <1>2 DEF StartSession, Handle, Holds, SaveInMemory, SelectVersion, InsertRow,
              UpdateRow, SaveQuote, SaveRecord, Crash, Saved, Goto, Drop
<1>4. q = r
  BY <1>1, <1>3 DEF Inv, TypeOK
<1>5. ~ \/ SaveInMemory(q) \/ SelectVersion(q) \/ InsertRow(q) \/ UpdateRow(q)
        \/ SaveQuote(q) \/ SaveRecord(q) \/ Crash(q)
  BY <1>4 DEF SaveInMemory, SelectVersion, InsertRow, UpdateRow, SaveQuote, SaveRecord,
              Crash, InFlight, Idle
<1>6. ~StartSession(q)
  <2>1. SUFFICES ASSUME StartSession(q) PROVE FALSE
    OBVIOUS
  <2>2. req'[q].base = NoRow
    BY <2>1 DEF StartSession, Holds, Inv, TypeOK
  <2> QED BY <1>4, <2>2
<1> QED BY <1>2, <1>4, <1>5, <1>6

\* requireSession never finds an expired session: not after a late save, and not
\* after one has inserted the session anew behind cleanExpiredSessions.
THEOREM ReadUntilExpiry == Spec => ExpiredUnread
<1>1. ASSUME Inv, [Next]_vars
      PROVE  [\A r \in Requests :
                 /\ ~InFlight(r)
                 /\ req'[r] # Idle
                 /\ req'[r].base # NoRow
                 => now <= Life]_vars
  <2>1. CASE UNCHANGED vars
    BY <2>1
  <2>2. ASSUME Next, NEW r \in Requests, ~InFlight(r), req'[r] # Idle,
               req'[r].base # NoRow
        PROVE  now <= Life
    <3>1. PICK email \in Emails \cup {NoEmail}, quotes \in BOOLEAN, count \in {0, 1} :
             Handle(r, email, quotes, count)
      BY <1>1, <2>2, OnlyHandleLoads
    <3>2. row # NoRow /\ Readable(row.doc)
      BY <3>1 DEF Handle, getSession
    <3>3. row.doc.expiresAt = Life
      BY <1>1, <3>2 DEF Inv, OneExpiry
    <3> QED BY <1>1, <3>2, <3>3, StoreAssumption DEF Readable, Inv, TypeOK
  <2> QED BY <1>1, <2>1, <2>2
<1> QED BY <1>1, Invariance, PTL DEF Spec, ExpiredUnread

-----------------------------------------------------------------------------
(* Erasure and deletion *)

NoneInFlight == \A r \in Requests : ~InFlight(r)

\* Administration that met no handler has met none since.
AdminAlone == admin # Idle /\ ~disturbed => NoneInFlight

\* An erasure leaves no copy with an email anywhere.
Erasure ==
    /\ admin.pc = "updatePayload" => admin.doc.email = NoEmail
    /\ admin.pc = "scrubHistory" /\ ~disturbed =>
          (row # NoRow => row.doc.email = NoEmail)
    /\ erased /\ ~disturbed =>
          /\ snapshots = {}
          /\ row # NoRow => row.doc.email = NoEmail
          /\ \A r \in Requests : InFlight(r) => req[r].doc.email = NoEmail

\* A deletion leaves no copy at all, and no session is started twice.
Deletion ==
    /\ admin.pc = "deleteHistory" /\ ~disturbed => row = NoRow /\ serial > 0
    /\ deleted /\ ~disturbed =>
          row = NoRow /\ snapshots = {} /\ serial > 0 /\ NoneInFlight

Traceless == AdminAlone /\ Erasure /\ Deletion

\* Init: there is nothing to erase or delete.
LEMMA InitTraceless == ASSUME Init PROVE Traceless
BY Zenon DEF Init, Traceless, AdminAlone, Erasure, Deletion, NoneInFlight, InFlight, Idle

\* A handler that comes to hold a copy while administration is at work disturbs it; after
\* an erasure the copy has no email but one the customer supplies, which ends the claim;
\* after a deletion there is nothing to load.
LEMMA LoadTraceless ==
    ASSUME Inv, Traceless, NEW r \in Requests,
           \/ StartSession(r)
           \/ \E email \in Emails \cup {NoEmail}, quotes \in BOOLEAN, count \in {0, 1} :
                 Handle(r, email, quotes, count)
    PROVE  Traceless'
<1>1. PICK base \in {NoRow} \cup [doc : Documents, version : Nat], document \in Documents,
           version \in Nat, quotes \in BOOLEAN :
         /\ Holds(r, base, document, version, quotes)
         /\ erased' => erased /\ (~disturbed => document.email = NoEmail)
  <2>1. CASE StartSession(r)
    <3> DEFINE first == [email |-> NoEmail, expiresAt |-> Life, serial |-> 0]
    <3>1. first \in Documents /\ first.email = NoEmail
      BY StoreAssumption DEF Documents
    <3>2. Holds(r, NoRow, first, 1, FALSE) /\ erased' = erased
      BY <2>1 DEF StartSession
    <3> QED BY <3>1, <3>2
  <2>2. ASSUME NEW email \in Emails \cup {NoEmail}, NEW quotes \in BOOLEAN,
               NEW count \in {0, 1}, Handle(r, email, quotes, count)
        PROVE  \E base \in {NoRow} \cup [doc : Documents, version : Nat],
                  document \in Documents, version \in Nat, q \in BOOLEAN :
                  /\ Holds(r, base, document, version, q)
                  /\ erased' => erased /\ (~disturbed => document.email = NoEmail)
    <3> DEFINE copy == [row.doc EXCEPT !.email = email]
    <3>1. row # NoRow /\ row \in [doc : Documents, version : Nat]
      BY <2>2 DEF Handle, getSession, Inv, TypeOK
    <3>2. copy \in Documents /\ copy.email = email
      BY <3>1 DEF Documents
    <3>3. /\ Holds(r, row, copy, row.version + count, quotes)
          /\ erased' = (erased /\ email \in {NoEmail, row.doc.email})
      BY <2>2 DEF Handle
    <3>4. erased /\ ~disturbed => row.doc.email = NoEmail
      BY <3>1 DEF Traceless, Erasure
    <3> HIDE DEF copy
    <3>5. erased' => erased /\ (~disturbed => copy.email = NoEmail)
      BY <3>2, <3>3, <3>4
    <3>6. row.version + count \in Nat
      BY <3>1
    <3> QED BY <3>1, <3>2, <3>3, <3>5, <3>6
  <2> QED BY <2>1, <2>2
<1>2. UNCHANGED <<row, snapshots, admin, deleted>>
  BY DEF StartSession, Handle
<1>3. /\ disturbed' = (disturbed \/ admin # Idle)
      /\ serial' = serial + 1 /\ serial \in Nat
  BY <1>1 DEF Holds, Inv, TypeOK
<1>4. \A q \in Requests :
         req'[q] # Idle => q = r \/ (InFlight(q) /\ req'[q] = req[q])
  BY <1>1 DEF Holds, InFlight, Inv, TypeOK
<1>5. erased' /\ ~disturbed =>
         \A q \in Requests : req'[q] # Idle => req'[q].doc.email = NoEmail
  <2>1. SUFFICES ASSUME erased', ~disturbed PROVE req'[r].doc.email = NoEmail
    BY <1>1, <1>4 DEF Traceless, Erasure
  <2>2. /\ req'[r].doc = [document EXCEPT !.serial = serial + 1]
        /\ document.email = NoEmail
    <3>1. DEFINE h == [pc |-> "save", base |-> base,
                       doc |-> [document EXCEPT !.serial = serial'],
                       version |-> version, quotes |-> quotes]
    <3>2. req' = [req EXCEPT ![r] = h]
      BY <1>1 DEF Holds
    <3>3. req'[r] = h
      BY <3>2 DEF Inv, TypeOK
    <3> QED BY <1>1, <1>3, <2>1, <3>3
  <2> QED BY <2>2 DEF Documents
<1>6. ~(deleted /\ ~disturbed)
  <2>1. serial = 0 \/ row # NoRow
    BY DEF StartSession, Handle, getSession
  <2>2. deleted /\ ~disturbed => row = NoRow /\ serial > 0
    BY DEF Traceless, Deletion
  <2> QED BY <1>3, <2>1, <2>2
<1>7. AdminAlone'
  BY <1>2, <1>3 DEF AdminAlone
<1>8. Erasure'
  BY <1>1, <1>2, <1>3, <1>5 DEF Traceless, Erasure, InFlight
<1>9. Deletion'
  <2>1. ~(deleted' /\ ~disturbed')
    BY <1>2, <1>3, <1>6
  <2>2. admin'.pc = "deleteHistory" => admin # Idle
    BY <1>2 DEF Idle
  <2>3. admin # Idle => disturbed'
    BY <1>3, Zenon
  <2> QED BY <2>1, <2>2, <2>3, Zenon DEF Deletion
<1> QED BY <1>7, <1>8, <1>9 DEF Traceless

\* A handler that saves has met no finished deletion and no administration at work, or has
\* disturbed it; after an erasure its copy has no email.
LEMMA SaveTraceless ==
    ASSUME Inv, Traceless, NEW r \in Requests,
           \/ SaveInMemory(r) \/ SelectVersion(r) \/ InsertRow(r) \/ UpdateRow(r)
           \/ SaveQuote(r) \/ SaveRecord(r) \/ Crash(r)
    PROVE  Traceless'
<1>1. InFlight(r)
  BY DEF SaveInMemory, SelectVersion, InsertRow, UpdateRow, SaveQuote, SaveRecord,
         Crash, InFlight, Idle
<1>2. UNCHANGED <<admin, serial, erased, deleted, disturbed>>
  BY DEF SaveInMemory, SelectVersion, InsertRow, UpdateRow, SaveQuote, SaveRecord,
         Crash
<1>3. CASE disturbed
  BY <1>2, <1>3, Zenon DEF Traceless, AdminAlone, Erasure, Deletion
<1>4. CASE ~disturbed
  <2>1. admin = Idle /\ ~deleted
    BY <1>1, <1>4 DEF Traceless, AdminAlone, Deletion, NoneInFlight
  <2>2. ASSUME erased
        PROVE  /\ snapshots' = {}
               /\ row' # NoRow => row'.doc.email = NoEmail
               /\ \A q \in Requests : req'[q] # Idle => req'[q].doc.email = NoEmail
    <3>1. /\ snapshots = {} /\ (row # NoRow => row.doc.email = NoEmail)
          /\ req[r].doc.email = NoEmail
      BY <1>1, <1>4, <2>2 DEF Traceless, Erasure
    <3>2. row' = row \/ row'.doc = req[r].doc
      BY DEF SaveInMemory, SelectVersion, InsertRow, UpdateRow, SaveQuote, SaveRecord,
             Crash
    <3>3. snapshots' = {}
      BY <3>1 DEF SaveInMemory, SelectVersion, InsertRow, UpdateRow, SaveQuote,
                  SaveRecord, Crash
    <3>4. \A q \in Requests :
             req'[q] # Idle => InFlight(q) /\ req'[q].doc = req[q].doc
      <4>1. \/ \E pc \in {"insert", "update", "saveQuote", "saveRecord"} : Goto(r, pc)
            \/ Drop(r)
        BY DEF SaveInMemory, SelectVersion, InsertRow, UpdateRow, SaveQuote,
               SaveRecord, Crash, Saved
      <4>2. CASE Drop(r)
        BY <4>2 DEF Drop, Inv, TypeOK, InFlight
      <4>3. ASSUME NEW pc \in {"insert", "update", "saveQuote", "saveRecord"}, Goto(r, pc)
            PROVE  \A q \in Requests :
                      req'[q] # Idle => InFlight(q) /\ req'[q].doc = req[q].doc
        <5>1. [req[r] EXCEPT !.pc = pc].doc = req[r].doc
          BY <1>1, InFlightHolds DEF Inv
        <5>2. req' = [req EXCEPT ![r] = [req[r] EXCEPT !.pc = pc]]
          BY <4>3 DEF Goto
        <5> QED BY <1>1, <5>1, <5>2 DEF Inv, TypeOK, InFlight
      <4> QED BY <4>1, <4>2, <4>3
    <3> QED BY <1>4, <2>2, <3>1, <3>2, <3>3, <3>4 DEF Traceless, Erasure
  <2> QED BY <1>2, <1>4, <2>1, <2>2
          DEF Traceless, AdminAlone, Erasure, Deletion, InFlight, Idle
<1> QED BY <1>3, <1>4

\* Administration begins alone or disturbed, and each of its steps leaves what the next
\* one relies on.
LEMMA AdminTraceless ==
    ASSUME Inv, Traceless,
           \/ AnonymizeInMemory \/ Anonymize \/ UpdatePayload \/ ScrubHistory
           \/ DropExpired \/ DeleteInMemory \/ DeleteRow \/ DeleteHistory \/ CleanExpired
    PROVE  Traceless'
<1>1. UNCHANGED <<req, serial>>
  BY DEF AnonymizeInMemory, Anonymize, UpdatePayload, ScrubHistory, DropExpired,
         DeleteInMemory, DeleteRow, DeleteHistory, CleanExpired
<1>2. CASE AnonymizeInMemory
  <2>1. row # NoRow /\ row \in [doc : Documents, version : Nat]
    BY <1>2 DEF AnonymizeInMemory, Inv, TypeOK
  <2>2. [row EXCEPT !.doc = Scrubbed(row.doc)].doc.email = NoEmail
    BY <2>1 DEF Scrubbed, Documents
  <2>3. row'.doc.email = NoEmail /\ snapshots' = {} /\ UNCHANGED <<admin, deleted>>
    BY <1>2, <2>2 DEF AnonymizeInMemory
  <2>4. ~disturbed' => ~disturbed /\ NoneInFlight
    BY <1>2 DEF AnonymizeInMemory, Disturbs, NoneInFlight
  <2> QED BY <1>1, <2>1, <2>3, <2>4
          DEF Traceless, AdminAlone, Erasure, Deletion, NoneInFlight, InFlight
<1>3. CASE Anonymize
  <2>1. row # NoRow /\ row \in [doc : Documents, version : Nat]
    BY <1>3 DEF Anonymize, getSession, Inv, TypeOK
  <2>2. Scrubbed(row.doc).email = NoEmail
    BY <2>1 DEF Scrubbed, Documents
  <2>3. /\ admin' = [pc |-> "updatePayload", doc |-> Scrubbed(row.doc)]
        /\ UNCHANGED <<row, snapshots, erased, deleted>>
    BY <1>3 DEF Anonymize
  <2>4. ~disturbed' => ~disturbed /\ NoneInFlight
    BY <1>3 DEF Anonymize, Disturbs, NoneInFlight
  <2> QED BY <1>1, <2>2, <2>3, <2>4
          DEF Traceless, AdminAlone, Erasure, Deletion, NoneInFlight, InFlight
<1>4. CASE UpdatePayload
  <2>1. admin # Idle /\ admin.doc.email = NoEmail
    BY <1>4 DEF UpdatePayload, Idle, Traceless, Erasure
  <2>2. /\ row' = IF row = NoRow THEN row ELSE [row EXCEPT !.doc = admin.doc]
        /\ admin' = [pc |-> "scrubHistory"]
        /\ UNCHANGED <<snapshots, erased, deleted, disturbed>>
    BY <1>4 DEF UpdatePayload
  <2>3. /\ row' # NoRow => row'.doc.email = NoEmail
        /\ row = NoRow => row' = NoRow
    BY <2>1, <2>2 DEF Inv, TypeOK
  <2> QED BY <1>1, <2>1, <2>2, <2>3
          DEF Traceless, AdminAlone, Erasure, Deletion, NoneInFlight, InFlight
<1>5. CASE ScrubHistory
  <2>1. admin # Idle
    BY <1>5 DEF ScrubHistory, Idle
  <2> QED BY <1>1, <1>5, <2>1
          DEF ScrubHistory, Traceless, AdminAlone, Erasure, Deletion, NoneInFlight,
              InFlight, Idle
<1>6. CASE DropExpired \/ CleanExpired
  BY <1>1, <1>6 DEF DropExpired, CleanExpired, Traceless, AdminAlone, Erasure, Deletion,
                    NoneInFlight, InFlight
<1>7. CASE DeleteInMemory \/ DeleteRow
  <2>1. ~disturbed' => ~disturbed /\ NoneInFlight
    BY <1>7 DEF DeleteInMemory, DeleteRow, Disturbs, NoneInFlight
  <2> QED BY <1>1, <1>7, <2>1
          DEF DeleteInMemory, DeleteRow, Traceless, AdminAlone, Erasure, Deletion,
              NoneInFlight, InFlight
<1>8. CASE DeleteHistory
  <2>1. admin # Idle
    BY <1>8 DEF DeleteHistory, Idle
  <2> QED BY <1>1, <1>8, <2>1
          DEF DeleteHistory, Traceless, AdminAlone, Erasure, Deletion, NoneInFlight,
              InFlight, Idle
<1> QED BY <1>2, <1>3, <1>4, <1>5, <1>6, <1>7, <1>8

\* Undisturbed administration leaves no trace, at any moment.
LEMMA AlwaysTraceless == Spec => []Traceless
<1>1. Init => Traceless
  BY InitTraceless
<1>2. Inv /\ Traceless /\ [Next]_vars => Traceless'
  <2>1. SUFFICES ASSUME Inv, Traceless, [Next]_vars PROVE Traceless'
    OBVIOUS
  <2>2. CASE UNCHANGED vars \/ Tick
    BY <2>1, <2>2 DEF vars, Tick, Traceless, AdminAlone, Erasure, Deletion,
                      NoneInFlight, InFlight
  <2> QED BY <2>1, <2>2, LoadTraceless, SaveTraceless, AdminTraceless DEF Next
<1> QED BY <1>1, <1>2, Invariance, PTL DEF Spec

\* An email erased with no handler in flight is back neither in the session nor in
\* quote_history, in either adapter, until the customer supplies one.
THEOREM ErasureFinal == Spec => []ErasedStaysErased
<1>1. Traceless => ErasedStaysErased
  BY DEF Traceless, Erasure, ErasedStaysErased
<1> QED BY <1>1, AlwaysTraceless, PTL

\* No handler brings back a session that was deleted with none in flight.
THEOREM DeletionFinal == Spec => []DeletedStaysDeleted
<1>1. Traceless => DeletedStaysDeleted
  BY DEF Traceless, Deletion, DeletedStaysDeleted
<1> QED BY <1>1, AlwaysTraceless, PTL

-----------------------------------------------------------------------------
(* The order of writes.  Over PostgreSQL, while the session lives and      *)
(* nothing disturbs administration, the row a handler loaded is there to   *)
(* compare with, and its version tells whether it is still the same.       *)

Undisturbed == Postgres /\ ~disturbed /\ now <= Life

\* Handlers whose write is still to come, and what the row is to them.
Writing(r) == req[r].pc \in {"save", "insert", "update"}

First(r) == req[r].base = NoRow

Comparable(r) ==
    IF First(r) THEN row = NoRow /\ req[r].pc # "update"
    ELSE /\ row # NoRow
         /\ req[r].pc # "insert"
         /\ req[r].base.version \in Nat
         /\ req[r].version \in {req[r].base.version, req[r].base.version + 1}
         /\ req[r].base.version <= row.version
         /\ row.version = req[r].base.version => row = req[r].base

\* No session is started twice.
OneStart == /\ serial = 0 => row = NoRow /\ NoneInFlight
            /\ \A r, q \in Requests :
                  InFlight(r) /\ InFlight(q) /\ First(r) /\ First(q) => r = q

Ordered == OneStart /\ (Undisturbed => \A r \in Requests : Writing(r) => Comparable(r))

\* Init: there is no row and no handler.
LEMMA InitOrdered == ASSUME Init PROVE Ordered
BY Zenon DEF Init, Ordered, OneStart, NoneInFlight, InFlight, Idle, Writing

\* What a handler holds when it has loaded, and that others hold what they held.
LEMMA HoldsShape ==
    ASSUME Inv, NEW r \in Requests, NEW base, NEW document, NEW version, NEW quotes,
           Holds(r, base, document, version, quotes)
    PROVE  /\ req'[r].pc = "save" /\ req'[r].base = base /\ req'[r].version = version
           /\ \A q \in Requests : q # r => req'[q] = req[q]
           /\ serial \in Nat /\ serial' = serial + 1
           /\ ~disturbed' => ~disturbed
<1> DEFINE h == [pc |-> "save", base |-> base, doc |-> [document EXCEPT !.serial = serial'],
                 version |-> version, quotes |-> quotes]
<1>1. req' = [req EXCEPT ![r] = h]
  BY DEF Holds
<1>2. h.pc = "save" /\ h.base = base /\ h.version = version
  OBVIOUS
<1> HIDE DEF h
<1>3. req'[r] = h /\ \A q \in Requests : q # r => req'[q] = req[q]
  BY <1>1 DEF Inv, TypeOK
<1> QED BY <1>2, <1>3 DEF Holds, Inv, TypeOK

\* A handler that loads the row holds its version, and the row itself.
LEMMA LoadOrdered ==
    ASSUME Inv, Ordered, NEW r \in Requests,
           \/ StartSession(r)
           \/ \E email \in Emails \cup {NoEmail}, quotes \in BOOLEAN, count \in {0, 1} :
                 Handle(r, email, quotes, count)
    PROVE  Ordered'
<1>1. CASE StartSession(r)
  <2> DEFINE first == [email |-> NoEmail, expiresAt |-> Life, serial |-> 0]
  <2>1. /\ row = NoRow /\ NoneInFlight /\ UNCHANGED row
        /\ Holds(r, NoRow, first, 1, FALSE)
    BY <1>1 DEF StartSession, Ordered, OneStart
  <2> HIDE DEF first
  <2>2. /\ req'[r].pc = "save" /\ req'[r].base = NoRow
        /\ \A q \in Requests : q # r => req'[q] = req[q]
        /\ serial' # 0
    <3>1. /\ req'[r].pc = "save" /\ req'[r].base = NoRow
          /\ \A q \in Requests : q # r => req'[q] = req[q]
          /\ serial \in Nat /\ serial' = serial + 1
      BY <2>1, HoldsShape, Zenon
    <3> QED BY <3>1
  <2>3. \A q \in Requests : q # r => req'[q] = Idle /\ Idle.pc = "idle"
    BY <2>1, <2>2 DEF NoneInFlight, InFlight, Idle
  <2> QED BY <2>1, <2>2, <2>3
          DEF Ordered, OneStart, InFlight, First, Writing, Comparable
<1>2. ASSUME NEW email \in Emails \cup {NoEmail}, NEW quotes \in BOOLEAN,
             NEW count \in {0, 1}, Handle(r, email, quotes, count)
      PROVE  Ordered'
  <2>1. /\ row # NoRow /\ row \in [doc : Documents, version : Nat]
        /\ UNCHANGED <<mode, now, row>>
        /\ Holds(r, row, [row.doc EXCEPT !.email = email], row.version + count, quotes)
    BY <1>2 DEF Handle, getSession, Inv, TypeOK
  <2>2. /\ req'[r].pc = "save" /\ req'[r].base = row
        /\ req'[r].version = row.version + count
        /\ \A q \in Requests : q # r => req'[q] = req[q]
        /\ serial' # 0
        /\ ~disturbed' => ~disturbed
    BY <2>1, HoldsShape
  <2>3. OneStart'
    BY <2>1, <2>2 DEF Ordered, OneStart, InFlight, First
  <2>4. ASSUME Undisturbed', NEW q \in Requests, Writing(q)'
        PROVE  Comparable(q)'
    <3>1. CASE q = r
      BY <2>1, <2>2, <3>1 DEF Comparable, First
    <3>2. CASE q # r
      <4>1. Undisturbed
        BY <2>1, <2>2, <2>4 DEF Undisturbed, Postgres
      <4>2. Writing(q) /\ req'[q] = req[q]
        BY <2>2, <2>4, <3>2 DEF Writing
      <4> QED BY <2>1, <4>1, <4>2 DEF Ordered, Comparable, First
    <3> QED BY <3>1, <3>2
  <2> QED BY <2>3, <2>4 DEF Ordered
<1> QED BY <1>1, <1>2

\* A handler goes on with what it holds, or ends.
LEMMA GoesOn ==
    ASSUME Inv, NEW r \in Requests, InFlight(r),
           \/ \E pc \in {"insert", "update", "saveQuote", "saveRecord"} : Goto(r, pc)
           \/ Drop(r)
    PROVE  /\ req'[r] # Idle => req'[r].base = req[r].base /\ req'[r].version = req[r].version
           /\ \A q \in Requests : q # r => req'[q] = req[q]
           /\ \A pc : Goto(r, pc) => req'[r].pc = pc
           /\ Drop(r) => req'[r].pc = "idle"
<1>1. CASE Drop(r)
  <2>1. req'[r] = Idle /\ \A q \in Requests : q # r => req'[q] = req[q]
    BY <1>1 DEF Drop, Inv, TypeOK
  <2>2. ASSUME NEW pc, Goto(r, pc) PROVE req'[r].pc = pc
    BY <2>2, InFlightHolds DEF Goto, Inv, TypeOK
  <2> QED BY <2>1, <2>2 DEF Idle
<1>2. ASSUME NEW pc, Goto(r, pc)
      PROVE  /\ req'[r].base = req[r].base /\ req'[r].version = req[r].version
             /\ req'[r].pc = pc
             /\ \A q \in Requests : q # r => req'[q] = req[q]
  BY <1>2, InFlightHolds DEF Goto, Inv, TypeOK
<1>3. Drop(r) => req'[r].pc = "idle"
  BY DEF Drop, Idle, Inv, TypeOK
<1> QED BY <1>1, <1>2, <1>3

\* The awaits of saveSession: the row a handler replaces is the one it loaded, and to
\* the others it is a later one.
LEMMA SaveOrdered ==
    ASSUME Inv, Ordered, NEW r \in Requests,
           \/ SaveInMemory(r) \/ SelectVersion(r) \/ InsertRow(r) \/ UpdateRow(r)
           \/ SaveQuote(r) \/ SaveRecord(r) \/ Crash(r)
    PROVE  Ordered'
<1>1. InFlight(r)
  BY DEF SaveInMemory, SelectVersion, InsertRow, UpdateRow, SaveQuote, SaveRecord,
         Crash, InFlight, Idle
<1>2. UNCHANGED <<mode, now, serial, disturbed>>
  BY DEF SaveInMemory, SelectVersion, InsertRow, UpdateRow, SaveQuote, SaveRecord,
         Crash
<1>3. \/ \E pc \in {"insert", "update", "saveQuote", "saveRecord"} : Goto(r, pc)
      \/ Drop(r)
  BY DEF SaveInMemory, SelectVersion, InsertRow, UpdateRow, SaveQuote, SaveRecord,
         Crash, Saved
<1>4. /\ req'[r] # Idle => req'[r].base = req[r].base /\ req'[r].version = req[r].version
      /\ \A q \in Requests : q # r => req'[q] = req[q]
      /\ \A pc : Goto(r, pc) => req'[r].pc = pc
      /\ Drop(r) => req'[r].pc = "idle"
  BY <1>1, <1>3, GoesOn, Zenon
<1>5. OneStart'
  <2>1. serial # 0
    BY <1>1 DEF Ordered, OneStart, NoneInFlight
  <2>2. \A q \in Requests : InFlight(q)' => InFlight(q) /\ (First(q)' <=> First(q))
    BY <1>1, <1>4 DEF InFlight, First
  <2> QED BY <1>2, <2>1, <2>2 DEF Ordered, OneStart
<1>6. ASSUME Undisturbed', NEW q \in Requests, Writing(q)'
      PROVE  Comparable(q)'
  <2>1. Undisturbed /\ Postgres
    BY <1>2, <1>6 DEF Undisturbed, Postgres
  <2>2. \A p \in Requests : Writing(p) => Comparable(p)
    BY <2>1 DEF Ordered
  <2>3. CASE SelectVersion(r)
    <3>1. /\ Writing(r) /\ UNCHANGED row
          /\ req'[r].pc = IF row = NoRow THEN "insert" ELSE "update"
      BY <1>4, <2>3 DEF SelectVersion, Writing
    <3>2. CASE q = r
      BY <1>4, <2>2, <3>1, <3>2 DEF Comparable, First, Idle
    <3>3. CASE q # r
      BY <1>4, <1>6, <2>2, <3>1, <3>3 DEF Comparable, First, Writing
    <3> QED BY <3>2, <3>3
  <2>4. ASSUME ~SelectVersion(r)
        PROVE  q # r /\ req'[q] = req[q] /\ Writing(q) /\ Comparable(q)
    <3>1. req'[r].pc \in {"idle", "saveQuote", "saveRecord"}
      BY <1>4, <2>1, <2>4
         DEF SaveInMemory, InsertRow, UpdateRow, SaveQuote, SaveRecord, Crash, Saved
    <3>2. q # r
      BY <1>6, <3>1 DEF Writing
    <3> QED BY <1>4, <1>6, <2>2, <3>2 DEF Writing
  <2>5. CASE UNCHANGED row /\ ~SelectVersion(r)
    BY <2>4, <2>5 DEF Comparable, First
  <2>6. CASE InsertRow(r) /\ row' # row
    <3>1. row = NoRow /\ req[r].pc = "insert"
      BY <2>6 DEF InsertRow
    <3>2. First(r) /\ ~SelectVersion(r)
      BY <2>2, <3>1 DEF Comparable, Writing, SelectVersion
    <3>3. First(q) /\ InFlight(q)
      BY <2>4, <3>1, <3>2 DEF Comparable, Writing, InFlight, Idle
    <3> QED BY <1>1, <2>4, <3>2, <3>3 DEF Ordered, OneStart
  <2>7. CASE UpdateRow(r) /\ row' # row
    <3>1. /\ row # NoRow /\ req[r].pc = "update"
          /\ row' = [doc |-> req[r].doc, version |-> row.version + 1]
      BY <2>7 DEF UpdateRow
    <3>2. row.version \in Nat /\ req[r].doc \in Documents
      BY <1>1, <3>1, InFlightHolds DEF Inv, TypeOK
    <3>3. row' \in [doc : Documents, version : Nat] /\ row'.version = row.version + 1
      BY <3>1, <3>2
    <3>4. row' # NoRow
      BY <3>3, RowAssumption
    <3>5. ~SelectVersion(r)
      BY <3>1 DEF SelectVersion
    <3> QED BY <2>4, <3>1, <3>2, <3>3, <3>4, <3>5 DEF Comparable, First
  <2> QED BY <2>1, <2>3, <2>5, <2>6, <2>7
          DEF SaveInMemory, InsertRow, UpdateRow, SaveQuote, SaveRecord, Crash
<1> QED BY <1>5, <1>6 DEF Ordered

\* Administration that is not disturbed touches no row under a handler, and cleaning
\* none that lives.
LEMMA AdminOrdered ==
    ASSUME Inv, Traceless, Ordered,
           \/ AnonymizeInMemory \/ Anonymize \/ UpdatePayload \/ ScrubHistory
           \/ DropExpired \/ DeleteInMemory \/ DeleteRow \/ DeleteHistory \/ CleanExpired
    PROVE  Ordered'
<1>1. UNCHANGED <<mode, now, req, serial>>
  BY DEF AnonymizeInMemory, Anonymize, UpdatePayload, ScrubHistory, DropExpired,
         DeleteInMemory, DeleteRow, DeleteHistory, CleanExpired
<1>2. row = NoRow => row' = NoRow
  BY DEF AnonymizeInMemory, Anonymize, UpdatePayload, ScrubHistory, DropExpired,
         DeleteInMemory, DeleteRow, DeleteHistory, CleanExpired
<1>3. OneStart'
  BY <1>1, <1>2 DEF Ordered, OneStart, NoneInFlight, InFlight, First
<1>4. ASSUME Undisturbed', NEW q \in Requests, Writing(q)'
      PROVE  Comparable(q)'
  <2>1. Postgres /\ now <= Life /\ Writing(q) /\ InFlight(q)
    BY <1>1, <1>4 DEF Undisturbed, Postgres, Writing, InFlight, Idle
  <2>2. ~disturbed
    BY <1>4 DEF Undisturbed, AnonymizeInMemory, Anonymize, UpdatePayload, ScrubHistory,
           DropExpired, DeleteInMemory, DeleteRow, DeleteHistory, CleanExpired, Disturbs
  <2>3. Comparable(q)
    BY <2>1, <2>2 DEF Ordered, Undisturbed
  <2>4. UNCHANGED row
    <3>1. ~AnonymizeInMemory /\ ~DropExpired /\ ~DeleteInMemory
      BY <2>1 DEF AnonymizeInMemory, DropExpired, DeleteInMemory
    <3>2. ~UpdatePayload
      BY <2>1, <2>2 DEF UpdatePayload, Idle, Traceless, AdminAlone, NoneInFlight
    <3>3. ~DeleteRow
      BY <1>4, <2>1 DEF DeleteRow, Disturbs, Undisturbed
    <3>4. ~CleanExpired
      <4>1. row # NoRow => row.doc.expiresAt = Life
        BY DEF Inv, OneExpiry
      <4> QED BY <2>1, <4>1, StoreAssumption DEF CleanExpired, Outdated, Inv, TypeOK
    <3> QED BY <3>1, <3>2, <3>3, <3>4 DEF Anonymize, ScrubHistory, DeleteHistory
  <2> QED BY <1>1, <2>3, <2>4 DEF Comparable, First
<1> QED BY <1>3, <1>4 DEF Ordered

\* Writes are in order at every moment.
LEMMA AlwaysOrdered == Spec => []Ordered
<1>1. Init => Ordered
  BY InitOrdered
<1>2. Inv /\ Traceless /\ Ordered /\ [Next]_vars => Ordered'
  <2> SUFFICES ASSUME Inv, Traceless, Ordered, [Next]_vars PROVE Ordered'
    OBVIOUS
  <2>1. CASE UNCHANGED vars
    BY <2>1 DEF vars, Ordered, OneStart, NoneInFlight, InFlight, First, Undisturbed,
                Postgres, Writing, Comparable
  <2>2. CASE Tick
    <3>1. UNCHANGED <<mode, row, req, serial, disturbed>> /\ (now' <= Life => now <= Life)
      BY <2>2, StoreAssumption DEF Tick, Inv, TypeOK
    <3> QED BY <3>1 DEF Ordered, OneStart, NoneInFlight, InFlight, First, Undisturbed,
                        Postgres, Writing, Comparable
  <2> QED BY <2>1, <2>2, LoadOrdered, SaveOrdered, AdminOrdered DEF Next
<1> QED BY <1>1, <1>2, Invariance, AlwaysTraceless, PTL DEF Spec

\* The handler whose step changes the row it writes is in saveSession.
LEMMA OnlyOwnWrites ==
    ASSUME Inv, Next, NEW r \in Requests, req[r].pc \in {"insert", "update"},
           row' # row, req'[r] # req[r]
    PROVE  InsertRow(r) \/ UpdateRow(r)
<1>1. PICK q \in Requests :
         \/ StartSession(q)
         \/ \E email \in Emails \cup {NoEmail}, quotes \in BOOLEAN, count \in {0, 1} :
               Handle(q, email, quotes, count)
         \/ SaveInMemory(q) \/ SelectVersion(q) \/ InsertRow(q) \/ UpdateRow(q)
         \/ SaveQuote(q) \/ SaveRecord(q) \/ Crash(q)
  BY DEF Next, Tick, DropExpired, AnonymizeInMemory, Anonymize, UpdatePayload,
         ScrubHistory, DeleteInMemory, DeleteRow, DeleteHistory, CleanExpired
<1>2. SaveInMemory(q) \/ InsertRow(q) \/ UpdateRow(q)
  BY <1>1 DEF StartSession, Handle, SelectVersion, SaveQuote, SaveRecord, Crash
<1>3. \E h : req' = [req EXCEPT ![q] = h]
  BY <1>2 DEF SaveInMemory, InsertRow, UpdateRow, Saved, Goto, Drop
<1>4. q = r
  BY <1>3 DEF Inv, TypeOK
<1> QED BY <1>2, <1>4 DEF SaveInMemory

\* Over PostgreSQL, for any number of handlers, while the session lives and
\* administration meets none of them: a save replaces just the document its handler
\* loaded, also where a correction or an adjustment runs beside it; the save of these
\* two replaces just the first document written behind the one they loaded
\* (saveSession's SELECT, INSERT and UPDATE, state-machine.ts:233, funnel-engine.ts:547).
THEOREM WritesOrdered == Spec => LiveWritesOrdered
<1>1. ASSUME Inv, Ordered, [Next]_vars
      PROVE  [\A r \in Requests :
                 /\ Postgres /\ ~disturbed /\ now <= Life
                 /\ req[r].pc \in {"insert", "update"}
                 /\ row' # row
                 /\ req'[r] # req[r]
                 => IF Counted(r) THEN row # NoRow /\ row.version = req[r].base.version + 1
                                  ELSE row = req[r].base]_vars
  <2>1. CASE UNCHANGED vars
    BY <2>1
  <2>2. ASSUME Next, NEW r \in Requests, Undisturbed,
               req[r].pc \in {"insert", "update"}, row' # row, req'[r] # req[r]
        PROVE  IF Counted(r) THEN row # NoRow /\ row.version = req[r].base.version + 1
                             ELSE row = req[r].base
    <3>1. Comparable(r)
      BY <1>1, <2>2 DEF Ordered, Writing
    <3>2. InsertRow(r) \/ UpdateRow(r)
      BY <1>1, <2>2, OnlyOwnWrites
    <3>3. CASE InsertRow(r)
      <4>1. row = NoRow /\ req[r].pc = "insert"
        BY <2>2, <3>3 DEF InsertRow
      <4>2. req[r].base = NoRow
        BY <3>1, <4>1 DEF Comparable, First
      <4> QED BY <4>1, <4>2 DEF Counted
    <3>4. CASE UpdateRow(r)
      <4>1. row # NoRow /\ row.version = req[r].version /\ req[r].pc = "update"
        BY <2>2, <3>4 DEF UpdateRow
      <4>2. /\ req[r].base # NoRow
            /\ req[r].version \in {req[r].base.version, req[r].base.version + 1}
            /\ row.version = req[r].base.version => row = req[r].base
        BY <3>1, <4>1 DEF Comparable, First
      <4> QED BY <4>1, <4>2 DEF Counted
    <3> QED BY <3>2, <3>3, <3>4
  <2> QED BY <1>1, <2>1, <2>2 DEF Undisturbed
<1> QED BY <1>1, Invariance, AlwaysOrdered, PTL DEF Spec, LiveWritesOrdered
=============================================================================
