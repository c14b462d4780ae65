---------------------------- MODULE SessionStore ----------------------------
(***************************************************************************)
(* The life of one session in its store: it expires, is cleaned away, is   *)
(* deleted, or has its contact email erased, while handlers that loaded it *)
(* earlier are still in flight and write their copies back.  Both adapters *)
(* of packages/persistence, told apart by mode; a handler is reduced to    *)
(* what it does to the store.                                              *)
(*                                                                         *)
(* A document is its email, its expiry and a serial number that tells      *)
(* which handler wrote it.                                                 *)
(***************************************************************************)
EXTENDS Naturals, FiniteSets

CONSTANTS
    Requests,    \* handlers that may be in flight together
    Emails,
    NoEmail,     \* contactEmail is undefined
    NoRow,       \* the session has no row, or no entry in the map
    Life,        \* the time at which the session expires
    MaxSerial    \* bound on the documents handlers compute

ASSUME StoreAssumption == /\ NoEmail \notin Emails
                          /\ Life \in Nat
                          /\ MaxSerial \in Nat

VARIABLES
    mode,       \* PERSISTENCE_MODE
    now,        \* the time
    row,        \* the session's document, and its version column
    snapshots,  \* the emails in the inputs of the session's quote_history
    records,    \* the emails in its idempotency records
    req,        \* what each handler holds
    admin,      \* what anonymizeSession or deleteSession holds
    serial,     \* the documents computed are 1..serial
    erased,     \* history: the email was erased, and none supplied since
    deleted,    \* history: the session was deleted
    disturbed   \* history: one of the two met a handler in flight

vars == <<mode, now, row, snapshots, records, req, admin, serial, erased, deleted,
          disturbed>>

Documents == [email : Emails \cup {NoEmail}, expiresAt : Nat, serial : Nat]

ASSUME RowAssumption == NoRow \notin [doc : Documents, version : Nat]

Idle == [pc |-> "idle"]

Handlers == {Idle}
    \cup [pc : {"save", "insert", "update", "saveQuote", "saveRecord"},
          base : {NoRow} \cup [doc : Documents, version : Nat],
          doc : Documents, version : Nat, quotes : BOOLEAN]

Admins == {Idle} \cup [pc : {"updatePayload"}, doc : Documents]
                 \cup [pc : {"scrubHistory", "deleteHistory"}]

Postgres == mode = "postgres"

InFlight(r) == req[r] # Idle

Init == /\ mode \in {"memory", "postgres"}
        /\ now = 0
        /\ row = NoRow
        /\ snapshots = {}
        /\ records = {}
        /\ req = [r \in Requests |-> Idle]
        /\ admin = Idle
        /\ serial = 0
        /\ erased = FALSE
        /\ deleted = FALSE
        /\ disturbed = FALSE

Tick == /\ now <= Life
        /\ now' = now + 1
        /\ UNCHANGED <<mode, row, snapshots, records, req, admin, serial, erased,
                       deleted, disturbed>>

-----------------------------------------------------------------------------
(* Expiry: the two adapters differ at the very moment of it. *)

Readable(document) == IF Postgres THEN document.expiresAt > now
                      ELSE document.expiresAt >= now

Outdated(document) == document.expiresAt < now

\* What getSession returns, or NoRow for null.
getSession == IF row # NoRow /\ Readable(row.doc) THEN row ELSE NoRow

-----------------------------------------------------------------------------
(* Handlers *)

Holds(r, base, document, version, quotes) ==
    /\ serial < MaxSerial
    /\ serial' = serial + 1
    /\ req' = [req EXCEPT ![r] = [pc |-> "save", base |-> base,
                                  doc |-> [document EXCEPT !.serial = serial'],
                                  version |-> version, quotes |-> quotes]]
    /\ disturbed' = (disturbed \/ admin # Idle)

\* startSession: the identifier is fresh, and the expiry is set once and for all.
StartSession(r) ==
    /\ serial = 0
    /\ Holds(r, NoRow, [email |-> NoEmail, expiresAt |-> Life, serial |-> 0], 1, FALSE)
    /\ UNCHANGED <<mode, now, row, snapshots, records, admin, erased, deleted>>

\* requireSession, and a change of the copy: the customer may supply an email or
\* withhold it; or the handler issues a quote.  A correction and an adjustment count
\* the copy's version up by one before they save it.
Handle(r, email, quotes, count) ==
    /\ ~InFlight(r)
    /\ getSession # NoRow
    /\ quotes => email = row.doc.email
    /\ Holds(r, row, [row.doc EXCEPT !.email = email], row.version + count, quotes)
    /\ erased' = (erased /\ email \in {NoEmail, row.doc.email})
    /\ UNCHANGED <<mode, now, row, snapshots, records, admin, deleted>>

\* The in-memory getSession drops an entry it finds expired.
DropExpired ==
    /\ ~Postgres
    /\ row # NoRow
    /\ ~Readable(row.doc)
    /\ row' = NoRow
    /\ UNCHANGED <<mode, now, snapshots, records, req, admin, serial, erased, deleted,
                   disturbed>>

Goto(r, pc) == req' = [req EXCEPT ![r].pc = pc]

Drop(r) == req' = [req EXCEPT ![r] = Idle]

Saved(r) == IF req[r].quotes THEN Goto(r, "saveQuote") ELSE Drop(r)

SaveInMemory(r) ==
    /\ ~Postgres
    /\ req[r].pc = "save"
    /\ row' = [doc |-> req[r].doc, version |-> req[r].version]
    /\ Saved(r)
    /\ UNCHANGED <<mode, now, snapshots, records, admin, serial, erased, deleted,
                   disturbed>>

SelectVersion(r) ==
    /\ Postgres
    /\ req[r].pc = "save"
    /\ Goto(r, IF row = NoRow THEN "insert" ELSE "update")
    /\ UNCHANGED <<mode, now, row, snapshots, records, admin, serial, erased, deleted,
                   disturbed>>

\* The INSERT violates the primary key if the row is there by now.
InsertRow(r) ==
    /\ req[r].pc = "insert"
    /\ IF row = NoRow
       THEN row' = [doc |-> req[r].doc, version |-> 1] /\ Saved(r)
       ELSE Drop(r) /\ UNCHANGED row
    /\ UNCHANGED <<mode, now, snapshots, records, admin, serial, erased, deleted,
                   disturbed>>

UpdateRow_Unchecked(r) ==                                \* mutant
    /\ req[r].pc = "update"
    /\ IF row # NoRow
       THEN row' = [doc |-> req[r].doc, version |-> row.version + 1] /\ Saved(r)
       ELSE Drop(r) /\ UNCHANGED row
    /\ UNCHANGED <<mode, now, snapshots, records, admin, serial, erased, deleted,
                   disturbed>>

UpdateRow_Prolongs(r) ==                                 \* mutant
    /\ req[r].pc = "update"
    /\ IF row # NoRow /\ row.version = req[r].version
       THEN /\ row' = [doc     |-> [req[r].doc EXCEPT !.expiresAt = now + Life],
                       version |-> row.version + 1]
            /\ Saved(r)
       ELSE Drop(r) /\ UNCHANGED row
    /\ UNCHANGED <<mode, now, snapshots, records, admin, serial, erased, deleted,
                   disturbed>>

UpdateRow(r) ==
    /\ req[r].pc = "update"
    /\ IF row # NoRow /\ row.version = req[r].version
       THEN row' = [doc |-> req[r].doc, version |-> row.version + 1] /\ Saved(r)
       ELSE Drop(r) /\ UNCHANGED row
    /\ UNCHANGED <<mode, now, snapshots, records, admin, serial, erased, deleted,
                   disturbed>>

\* A quote of the copy joins the history, its input and email included.
SaveQuote(r) ==
    /\ req[r].pc = "saveQuote"
    /\ snapshots' = snapshots \cup ({req[r].doc.email} \ {NoEmail})
    /\ Goto(r, "saveRecord")
    /\ UNCHANGED <<mode, now, row, records, admin, serial, erased, deleted, disturbed>>

SaveRecord(r) ==
    /\ req[r].pc = "saveRecord"
    /\ records' = records \cup ({req[r].doc.email} \ {NoEmail})
    /\ Drop(r)
    /\ UNCHANGED <<mode, now, row, snapshots, admin, serial, erased, deleted, disturbed>>

Crash(r) ==
    /\ InFlight(r)
    /\ Drop(r)
    /\ UNCHANGED <<mode, now, row, snapshots, records, admin, serial, erased, deleted,
                   disturbed>>

-----------------------------------------------------------------------------
(* Administration *)

Disturbs == disturbed' = (disturbed \/ \E r \in Requests : InFlight(r))

Scrubbed_Marked(document) == [document EXCEPT !.email = "[DELETED_GDPR_ART17]"]  \* mutant

Scrubbed(document) == [document EXCEPT !.email = NoEmail]

\* The map's entry and the quotes are scrubbed in place, expired or not.
AnonymizeInMemory ==
    /\ ~Postgres
    /\ row # NoRow
    /\ row' = [row EXCEPT !.doc = Scrubbed(row.doc)]
    /\ snapshots' = {}
    /\ erased' = TRUE
    /\ Disturbs
    /\ UNCHANGED <<mode, now, records, req, admin, serial, deleted>>

\* PostgreSQL: getSession, UPDATE of the payload, UPDATE of the history.
Anonymize ==
    /\ Postgres
    /\ admin = Idle
    /\ getSession # NoRow
    /\ admin' = [pc |-> "updatePayload", doc |-> Scrubbed(row.doc)]
    /\ Disturbs
    /\ UNCHANGED <<mode, now, row, snapshots, records, req, serial, erased, deleted>>

\* The version is neither compared nor counted up.
UpdatePayload ==
    /\ admin.pc = "updatePayload"
    /\ row' = IF row = NoRow THEN row ELSE [row EXCEPT !.doc = admin.doc]
    /\ admin' = [pc |-> "scrubHistory"]
    /\ UNCHANGED <<mode, now, snapshots, records, req, serial, erased, deleted,
                   disturbed>>

ScrubHistory_Skips ==                                    \* mutant
    /\ admin.pc = "scrubHistory"
    /\ admin' = Idle
    /\ erased' = TRUE
    /\ UNCHANGED <<mode, now, row, snapshots, records, req, serial, deleted, disturbed>>

ScrubHistory ==
    /\ admin.pc = "scrubHistory"
    /\ snapshots' = {}
    /\ admin' = Idle
    /\ erased' = TRUE
    /\ UNCHANGED <<mode, now, row, records, req, serial, deleted, disturbed>>

DeleteInMemory ==
    /\ ~Postgres
    /\ serial > 0
    /\ row' = NoRow
    /\ snapshots' = {}
    /\ deleted' = TRUE
    /\ Disturbs
    /\ UNCHANGED <<mode, now, records, req, admin, serial, erased>>

\* PostgreSQL: DELETE of the session, DELETE of its history.
DeleteRow ==
    /\ Postgres
    /\ serial > 0
    /\ admin = Idle
    /\ row' = NoRow
    /\ admin' = [pc |-> "deleteHistory"]
    /\ Disturbs
    /\ UNCHANGED <<mode, now, snapshots, records, req, serial, erased, deleted>>

DeleteHistory_Skips ==                                   \* mutant
    /\ admin.pc = "deleteHistory"
    /\ admin' = Idle
    /\ deleted' = TRUE
    /\ UNCHANGED <<mode, now, row, snapshots, records, req, serial, erased, disturbed>>

DeleteHistory ==
    /\ admin.pc = "deleteHistory"
    /\ snapshots' = {}
    /\ admin' = Idle
    /\ deleted' = TRUE
    /\ UNCHANGED <<mode, now, row, records, req, serial, erased, disturbed>>

\* The history stays, and the records outlive the session by days.
CleanExpired ==
    /\ row # NoRow
    /\ Outdated(row.doc)
    /\ row' = NoRow
    /\ UNCHANGED <<mode, now, snapshots, records, req, admin, serial, erased, deleted,
                   disturbed>>

Next == \/ Tick
        \/ \E r \in Requests :
              \/ StartSession(r)
              \/ \E email \in Emails \cup {NoEmail}, quotes \in BOOLEAN, count \in {0, 1} :
                    Handle(r, email, quotes, count)
              \/ SaveInMemory(r)
              \/ SelectVersion(r)
              \/ InsertRow(r)
              \/ UpdateRow(r)
              \/ SaveQuote(r)
              \/ SaveRecord(r)
              \/ Crash(r)
        \/ DropExpired
        \/ AnonymizeInMemory
        \/ Anonymize
        \/ UpdatePayload
        \/ ScrubHistory
        \/ DeleteInMemory
        \/ DeleteRow
        \/ DeleteHistory
        \/ CleanExpired

Spec == Init /\ [][Next]_vars

-----------------------------------------------------------------------------
(* Properties *)

\* Rows, copies and what administration holds are well formed, and where an email
\* was erased there is none, not a mark in its place.
TypeOK ==
    /\ mode \in {"memory", "postgres"}
    /\ now \in 0..(Life + 1)
    /\ row \in {NoRow} \cup [doc : Documents, version : Nat]
    /\ snapshots \subseteq Emails
    /\ records \subseteq Emails
    /\ req \in [Requests -> Handlers]
    /\ admin \in Admins
    /\ serial \in Nat
    /\ erased \in BOOLEAN /\ deleted \in BOOLEAN /\ disturbed \in BOOLEAN

\* A session is read until the expiry startSession gave it, and never again: not
\* after a late save, and not after one has inserted it anew behind the cleaning.
ExpiredUnread ==
    [][\A r \in Requests :
          /\ ~InFlight(r)
          /\ req'[r] # Idle
          /\ req'[r].base # NoRow
          => now <= Life]_vars

\* A correction's or an adjustment's copy.
Counted(r) == req[r].base # NoRow /\ req[r].version = req[r].base.version + 1

\* Over PostgreSQL, while the session lives and administration meets no handler in
\* flight, a save replaces just the document its handler had loaded, whatever the
\* others do; but for the copies counted up, which miss that one and replace the first
\* document another handler wrote behind it.
LiveWritesOrdered ==
    [][\A r \in Requests :
          /\ Postgres /\ ~disturbed /\ now <= Life
          /\ req[r].pc \in {"insert", "update"}
          /\ row' # row
          /\ req'[r] # req[r]
          => IF Counted(r) THEN row # NoRow /\ row.version = req[r].base.version + 1
                           ELSE row = req[r].base]_vars

\* An email that was erased with no handler in flight is back neither in the session
\* nor in its history until the customer supplies one.
ErasedStaysErased ==
    erased /\ ~disturbed =>
        /\ snapshots = {}
        /\ row # NoRow => row.doc.email = NoEmail

\* A session that was deleted with no handler in flight leaves nothing in the
\* sessions or the history.
DeletedStaysDeleted ==
    deleted /\ ~disturbed => row = NoRow /\ snapshots = {}
=============================================================================
