----------------------------- MODULE AuditChain -----------------------------
(***************************************************************************)
(* packages/audit: events are appended to one hash chain per session.      *)
(* recordEvent reads the last hash, computes the hash of its event from    *)
(* it, and appends; the two repository calls are separate awaits, and the  *)
(* admin scripts record from other processes.                              *)
(*                                                                         *)
(* SHA-256 is taken to be free of collisions: the hash of an event is the  *)
(* sequence of all that went into it.  After the recording, hands that do  *)
(* not compute hashes may edit the table, for verifyChainIntegrity to find *)
(* out.                                                                    *)
(***************************************************************************)
EXTENDS Naturals, Sequences, FiniteSets

CONSTANTS
    Recorders,    \* calls of recordEvent that may be in flight together
    SessionIds,
    Contents,     \* what an event says, besides its identifier
    OneAtATime,   \* a session's requests are sent one after the other
    MaxEvents,    \* bound on the events begun
    MaxEdits      \* bound on the edits of the table

ASSUME AuditAssumption == /\ OneAtATime \in BOOLEAN
                          /\ MaxEvents \in Nat
                          /\ MaxEdits \in Nat

VARIABLES
    rows,      \* audit_events, by session
    begun,     \* the event identifiers handed out are 1..begun
    pending,   \* the events computed and not appended yet
    recorded,  \* history: the rows as they were appended
    edits      \* history: how often the table was edited

vars == <<rows, begun, pending, recorded, edits>>

GENESIS_HASH == << >>

calculateEventHash_ContentOnly(previousHash, event) ==    \* mutant
    Append(previousHash, event.content)

calculateEventHash(previousHash, event) == Append(previousHash, event)

Events == [eventId : Nat, content : Contents]

Rows == [event : Events, previousHash : Seq(Events), currentHash : Seq(Events)]

Idle == [at |-> "idle"]

Pending == {Idle} \cup [at : {"append"}, sessionId : SessionIds, row : Rows]

Init == /\ rows = [s \in SessionIds |-> << >>]
        /\ begun = 0
        /\ pending = [r \in Recorders |-> Idle]
        /\ recorded = rows
        /\ edits = 0

-----------------------------------------------------------------------------

getLastHash_Oldest(s) ==                                 \* mutant
    IF rows[s] = << >> THEN GENESIS_HASH ELSE rows[s][1].currentHash

\* ORDER BY id DESC LIMIT 1, or genesis.
getLastHash(s) == IF rows[s] = << >> THEN GENESIS_HASH
                  ELSE rows[s][Len(rows[s])].currentHash

NewRow(previousHash, event) ==
    [event        |-> event,
     previousHash |-> previousHash,
     currentHash  |-> calculateEventHash(previousHash, event)]

\* Up to the await of append.
BeginEvent(r, s, content) ==
    /\ edits = 0
    /\ begun < MaxEvents
    /\ pending[r] = Idle
    /\ OneAtATime => \A q \in Recorders :
                        pending[q] # Idle => pending[q].sessionId # s
    /\ begun' = begun + 1
    /\ pending' = [pending EXCEPT ![r] =
                     [at |-> "append", sessionId |-> s,
                      row |-> NewRow(getLastHash(s),
                                     [eventId |-> begun', content |-> content])]]
    /\ UNCHANGED <<rows, recorded, edits>>

AppendEvent(r) ==
    /\ edits = 0
    /\ pending[r] # Idle
    /\ LET s == pending[r].sessionId
       IN /\ rows' = [rows EXCEPT ![s] = Append(@, pending[r].row)]
          /\ recorded' = [recorded EXCEPT ![s] = Append(@, pending[r].row)]
    /\ pending' = [pending EXCEPT ![r] = Idle]
    /\ UNCHANGED <<begun, edits>>

\* The process dies, or the INSERT fails: the event is lost.
LoseEvent(r) ==
    /\ pending[r] # Idle
    /\ pending' = [pending EXCEPT ![r] = Idle]
    /\ UNCHANGED <<rows, begun, recorded, edits>>

-----------------------------------------------------------------------------
(* Edits of the table *)

Reworded(log, i, c) == [log EXCEPT ![i].event.content = c]
Relinked(log, i, j) == [log EXCEPT ![i].previousHash = log[j].currentHash]
Resealed(log, i, j) == [log EXCEPT ![i].currentHash = log[j].currentHash]
Swapped(log, i, j)  == [log EXCEPT ![i] = log[j], ![j] = log[i]]
Without(log, i)     == SubSeq(log, 1, i - 1) \o SubSeq(log, i + 1, Len(log))
CopiedTo(log, i, j) == SubSeq(log, 1, j) \o <<log[i]>> \o SubSeq(log, j + 1, Len(log))

Edits(log) ==
    {Reworded(log, i, c) : i \in DOMAIN log, c \in Contents}
    \cup {Relinked(log, i, j) : i, j \in DOMAIN log}
    \cup {Resealed(log, i, j) : i, j \in DOMAIN log}
    \cup {Swapped(log, i, j) : i, j \in DOMAIN log}
    \cup {Without(log, i) : i \in DOMAIN log}
    \cup {CopiedTo(log, i, j) : i \in DOMAIN log, j \in 0..Len(log)}

EditTable(s) ==
    /\ edits < MaxEdits
    /\ \A r \in Recorders : pending[r] = Idle
    /\ \E log \in Edits(rows[s]) : rows' = [rows EXCEPT ![s] = log]
    /\ edits' = edits + 1
    /\ UNCHANGED <<begun, pending, recorded>>

-----------------------------------------------------------------------------

Next == \/ \E r \in Recorders, s \in SessionIds, c \in Contents : BeginEvent(r, s, c)
        \/ \E r \in Recorders : AppendEvent(r) \/ LoseEvent(r)
        \/ \E s \in SessionIds : EditTable(s)

Spec == Init /\ [][Next]_vars

-----------------------------------------------------------------------------
(* verifyChainIntegrity *)

Linked(log, i) == log[i].previousHash = (IF i = 1 THEN GENESIS_HASH
                                         ELSE log[i - 1].currentHash)

Sealed_Trusting(row) == TRUE                             \* mutant

Sealed(row) == row.currentHash = calculateEventHash(row.previousHash, row.event)

\* The loop accepts row i, provided it came that far.
Accepts(log, i) == Linked(log, i) /\ Sealed(log[i])

isValid(log) == \A i \in DOMAIN log : Accepts(log, i)

\* The rows that precede failedAtEventId, or all.
Vouched(log) == {i \in DOMAIN log : \A j \in 1..i : Accepts(log, j)}

-----------------------------------------------------------------------------
(* Properties *)

\* Rows hold an event and two hashes, each a hash recordEvent could have computed.
TypeOK == /\ rows \in [SessionIds -> Seq(Rows)]
          /\ begun \in Nat
          /\ pending \in [Recorders -> Pending]
          /\ recorded \in [SessionIds -> Seq(Rows)]
          /\ edits \in Nat

\* What recordEvent leaves in the table verifies, at every moment and whatever
\* events are lost on the way.
ChainVerifies == edits = 0 => \A s \in SessionIds : isValid(rows[s])

\* The rows verifyChainIntegrity vouches for are the rows that were recorded, in
\* the order they were recorded: no row of them was altered, inserted or moved,
\* and none between them is missing.
VouchedRowsRecorded ==
    \A s \in SessionIds : \A i \in Vouched(rows[s]) :
        /\ i \in DOMAIN recorded[s]
        /\ rows[s][i] = recorded[s][i]
=============================================================================
