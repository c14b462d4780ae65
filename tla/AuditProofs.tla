---------------------------- MODULE AuditProofs -----------------------------
(***************************************************************************)
(* Theorems about AuditChain, for every number of sessions, recorders,     *)
(* events and edits.                                                       *)
(***************************************************************************)
EXTENDS AuditChain, SequenceTheorems, WellFoundedInduction, TLAPS

(* The inductive invariant: an event computed and not appended yet extends *)
(* the chain as it stands, and no other event of its session is on its way.*)

PendingExtends ==
    \A r \in Recorders :
        pending[r] # Idle =>
            /\ pending[r].row.previousHash = getLastHash(pending[r].sessionId)
            /\ Sealed(pending[r].row)

PendingAlone ==
    \A q, r \in Recorders :
        q # r /\ pending[q] # Idle /\ pending[r] # Idle =>
            pending[q].sessionId # pending[r].sessionId

Chained == \A s \in SessionIds : isValid(rows[s])

Inv == /\ TypeOK
       /\ edits = 0 => Chained /\ PendingExtends /\ PendingAlone

-----------------------------------------------------------------------------

\* The row recordEvent computes follows the last one and carries its own hash.
LEMMA NewRowType ==
    ASSUME TypeOK, NEW s \in SessionIds, NEW event \in Events
    PROVE  /\ getLastHash(s) \in Seq(Events)
           /\ NewRow(getLastHash(s), event) \in Rows
           /\ NewRow(getLastHash(s), event).previousHash = getLastHash(s)
           /\ Sealed(NewRow(getLastHash(s), event))
<1>1. getLastHash(s) \in Seq(Events)
  <2>1. CASE rows[s] = << >>
    BY <2>1 DEF getLastHash, GENESIS_HASH
  <2>2. CASE rows[s] # << >>
    <3>1. rows[s] \in Seq(Rows)
      BY DEF TypeOK
    <3>2. rows[s][Len(rows[s])] \in Rows
      BY <2>2, <3>1
    <3> QED BY <2>2, <3>2 DEF getLastHash, Rows
  <2> QED BY <2>1, <2>2
<1> DEFINE hash == getLastHash(s)
<1> HIDE DEF hash
<1>2. hash \in Seq(Events)
  BY <1>1 DEF hash
<1>3. Append(hash, event) \in Seq(Events)
  BY <1>2
<1>4. /\ NewRow(hash, event) \in Rows
      /\ NewRow(hash, event).previousHash = hash
      /\ Sealed(NewRow(hash, event))
  BY <1>2, <1>3 DEF NewRow, Rows, Sealed, calculateEventHash
<1> QED BY <1>1, <1>4 DEF hash

\* Whatever an edit does to the table, rows stay rows.
LEMMA EditsType ==
    ASSUME NEW log \in Seq(Rows), NEW edit \in Edits(log)
    PROVE  edit \in Seq(Rows)
<1>1. ASSUME NEW i \in DOMAIN log
      PROVE  /\ log[i] \in Rows
             /\ i \in 1..Len(log)
  BY <1>1
<1>2. ASSUME NEW i \in DOMAIN log, NEW c \in Contents
      PROVE  Reworded(log, i, c) \in Seq(Rows)
  <2> DEFINE row == [log[i] EXCEPT !.event.content = c]
  <2>1. row \in Rows
    BY <1>1 DEF Rows, Events
  <2>2. Reworded(log, i, c) = [log EXCEPT ![i] = row]
    BY DEF Reworded
  <2> HIDE DEF row
  <2> QED BY <1>1, <2>1, <2>2, ExceptSeq
<1>3. ASSUME NEW i \in DOMAIN log, NEW j \in DOMAIN log
      PROVE  Relinked(log, i, j) \in Seq(Rows) /\ Resealed(log, i, j) \in Seq(Rows)
  <2> DEFINE linked == [log[i] EXCEPT !.previousHash = log[j].currentHash]
             sealed == [log[i] EXCEPT !.currentHash = log[j].currentHash]
  <2>1. linked \in Rows /\ sealed \in Rows
    BY <1>1 DEF Rows
  <2>2. /\ Relinked(log, i, j) = [log EXCEPT ![i] = linked]
        /\ Resealed(log, i, j) = [log EXCEPT ![i] = sealed]
    BY DEF Relinked, Resealed
  <2> HIDE DEF linked, sealed
  <2> QED BY <1>1, <2>1, <2>2, ExceptSeq
<1>4. ASSUME NEW i \in DOMAIN log, NEW j \in DOMAIN log
      PROVE  Swapped(log, i, j) \in Seq(Rows)
  <2> DEFINE once == [log EXCEPT ![i] = log[j]]
  <2>1. once \in Seq(Rows) /\ Len(once) = Len(log)
    BY <1>1, ExceptSeq
  <2>2. Swapped(log, i, j) = [once EXCEPT ![j] = log[i]]
    BY DEF Swapped
  <2> HIDE DEF once
  <2> QED BY <1>1, <2>1, <2>2, ExceptSeq
<1>5. ASSUME NEW i \in DOMAIN log PROVE Without(log, i) \in Seq(Rows)
  BY <1>5 DEF Without
<1>6. ASSUME NEW i \in DOMAIN log, NEW j \in 0..Len(log)
      PROVE  CopiedTo(log, i, j) \in Seq(Rows)
  BY <1>1, <1>6 DEF CopiedTo
<1> QED
  <2>1. \/ \E i \in DOMAIN log, c \in Contents : edit = Reworded(log, i, c)
        \/ \E i, j \in DOMAIN log : \/ edit = Relinked(log, i, j)
                                   \/ edit = Resealed(log, i, j)
                                   \/ edit = Swapped(log, i, j)
        \/ \E i \in DOMAIN log : edit = Without(log, i)
        \/ \E i \in DOMAIN log, j \in 0..Len(log) : edit = CopiedTo(log, i, j)
    BY DEF Edits
  <2> QED BY <1>2, <1>3, <1>4, <1>5, <1>6, <2>1

\* The empty log satisfies the invariant.
LEMMA InvInit == Init => Inv
BY DEF Init, Inv, TypeOK, Pending, Chained, isValid, PendingExtends, PendingAlone

\* recordEvent computes a row that extends the log, if no other event of the session
\* is on its way.
LEMMA BeginEventInv ==
    ASSUME OneAtATime, Inv, NEW r \in Recorders, NEW s \in SessionIds, NEW c \in Contents,
           BeginEvent(r, s, c)
    PROVE  Inv'
<1> DEFINE event == [eventId |-> begun + 1, content |-> c]
           row   == NewRow(getLastHash(s), event)
           call  == [at |-> "append", sessionId |-> s, row |-> row]
<1>1. /\ edits = 0
      /\ \A q \in Recorders : pending[q] # Idle => pending[q].sessionId # s
      /\ begun' = begun + 1
      /\ pending' = [pending EXCEPT ![r] = call]
      /\ UNCHANGED <<rows, recorded, edits>>
  BY DEF BeginEvent
<1>2. event \in Events
  BY DEF Inv, TypeOK, Events
<1> HIDE DEF event
<1>3. /\ row \in Rows
      /\ row.previousHash = getLastHash(s)
      /\ Sealed(row)
  BY <1>2, NewRowType DEF Inv
<1> HIDE DEF row
<1>4. call \in Pending /\ call.sessionId = s /\ call.row = row
  BY <1>3 DEF Pending
<1> HIDE DEF call
<1>5. TypeOK'
  BY <1>1, <1>4 DEF Inv, TypeOK
<1>6. \A q \in Recorders : pending'[q] = IF q = r THEN call ELSE pending[q]
  BY <1>1 DEF Inv, TypeOK
<1>7. Chained'
  BY <1>1 DEF Inv, Chained
<1>8. PendingExtends'
  BY <1>1, <1>3, <1>4, <1>6 DEF Inv, PendingExtends, getLastHash
<1>9. PendingAlone'
  BY <1>1, <1>4, <1>6 DEF Inv, PendingAlone
<1> QED BY <1>1, <1>5, <1>7, <1>8, <1>9 DEF Inv

\* Appending a row that extends the log leaves a chain that verifies.
LEMMA AppendEventInv ==
    ASSUME Inv, NEW r \in Recorders, AppendEvent(r)
    PROVE  Inv'
<1> DEFINE s   == pending[r].sessionId
           row == pending[r].row
<1>1. /\ edits = 0
      /\ pending[r] # Idle
      /\ rows' = [rows EXCEPT ![s] = Append(@, row)]
      /\ recorded' = [recorded EXCEPT ![s] = Append(@, row)]
      /\ pending' = [pending EXCEPT ![r] = Idle]
      /\ UNCHANGED <<begun, edits>>
  BY DEF AppendEvent
<1>2. s \in SessionIds /\ row \in Rows
  BY <1>1 DEF Inv, TypeOK, Pending
<1>3. /\ row.previousHash = getLastHash(s)
      /\ Sealed(row)
  BY <1>1 DEF Inv, PendingExtends
<1>4. /\ \A q \in Recorders : pending'[q] = IF q = r THEN Idle ELSE pending[q]
      /\ \A t \in SessionIds : rows'[t] = IF t = s THEN Append(rows[s], row) ELSE rows[t]
  BY <1>1, <1>2 DEF Inv, TypeOK
<1>5. TypeOK'
  <2>1. rows' \in [SessionIds -> Seq(Rows)] /\ recorded' \in [SessionIds -> Seq(Rows)]
    BY <1>1, <1>2 DEF Inv, TypeOK
  <2>2. pending' \in [Recorders -> Pending]
    BY <1>1 DEF Inv, TypeOK, Pending
  <2> QED BY <1>1, <2>1, <2>2 DEF Inv, TypeOK
<1> HIDE DEF s, row
<1>6. Chained'
  <2> SUFFICES ASSUME NEW t \in SessionIds PROVE isValid(rows'[t])
    BY DEF Chained
  <2>1. isValid(rows[t])
    BY <1>1 DEF Inv, Chained
  <2>2. CASE t # s
    BY <1>4, <2>1, <2>2
  <2>3. CASE t = s
    <3> DEFINE log == rows[s]
    <3>1. log \in Seq(Rows) /\ isValid(log)
      BY <1>2, <2>1, <2>3 DEF Inv, TypeOK
    <3>2. row.previousHash = (IF log = << >> THEN GENESIS_HASH
                              ELSE log[Len(log)].currentHash)
      BY <1>3 DEF getLastHash
    <3> HIDE DEF log
    <3>3. \A i \in 1..Len(log) + 1 :
             Append(log, row)[i] = IF i = Len(log) + 1 THEN row ELSE log[i]
      BY <3>1, <1>2
    <3>4. \A i \in 1..Len(log) : Accepts(Append(log, row), i)
      <4> SUFFICES ASSUME NEW i \in 1..Len(log) PROVE Accepts(Append(log, row), i)
        OBVIOUS
      <4>1. Accepts(log, i)
        BY <3>1 DEF isValid
      <4>2. /\ Append(log, row)[i] = log[i]
            /\ i # 1 => Append(log, row)[i - 1] = log[i - 1]
        BY <3>1, <3>3
      <4> QED BY <4>1, <4>2 DEF Accepts, Linked
    <3>5. Accepts(Append(log, row), Len(log) + 1)
      <4>1. CASE log = << >>
        BY <1>3, <3>1, <3>2, <3>3, <4>1 DEF Accepts, Linked
      <4>2. CASE log # << >>
        <5>1. /\ Len(log) \in Nat /\ Len(log) # 0
              /\ Append(log, row)[Len(log) + 1] = row
              /\ Append(log, row)[Len(log)] = log[Len(log)]
          BY <3>1, <3>3, <4>2
        <5> QED BY <1>3, <3>2, <4>2, <5>1 DEF Accepts, Linked
      <4> QED BY <4>1, <4>2
    <3>6. isValid(Append(log, row))
      <4>1. DOMAIN Append(log, row) = 1..Len(log) + 1 /\ Len(log) \in Nat
        BY <3>1, <1>2
      <4> QED BY <3>4, <3>5, <4>1 DEF isValid
    <3> QED BY <1>4, <2>3, <3>6 DEF log
  <2> QED BY <2>2, <2>3
<1>7. PendingExtends'
  <2> SUFFICES ASSUME NEW q \in Recorders, q # r, pending[q] # Idle
               PROVE  /\ pending[q].row.previousHash = getLastHash(pending[q].sessionId)'
                      /\ Sealed(pending[q].row)
    BY <1>4 DEF PendingExtends, getLastHash
  <2>1. /\ pending[q].row.previousHash = getLastHash(pending[q].sessionId)
        /\ Sealed(pending[q].row)
    BY <1>1 DEF Inv, PendingExtends
  <2>2. pending[q].sessionId # s
    BY <1>1 DEF Inv, PendingAlone, s
  <2>3. pending'[q] = pending[q]
    BY <1>4
  <2>4. pending[q].sessionId \in SessionIds
    BY DEF Inv, TypeOK, Pending
  <2> QED BY <1>4, <2>1, <2>2, <2>3, <2>4 DEF getLastHash
<1>8. PendingAlone'
  BY <1>1, <1>4 DEF Inv, PendingAlone
<1> QED BY <1>1, <1>5, <1>6, <1>7, <1>8 DEF Inv

\* An event that is lost leaves the log as it was, and its successor takes its place.
LEMMA LoseEventInv ==
    ASSUME Inv, NEW r \in Recorders, LoseEvent(r)
    PROVE  Inv'
<1>1. /\ pending' = [pending EXCEPT ![r] = Idle]
      /\ UNCHANGED <<rows, begun, recorded, edits>>
  BY DEF LoseEvent
<1>2. TypeOK'
  BY <1>1 DEF Inv, TypeOK, Pending
<1>3. \A q \in Recorders : pending'[q] = IF q = r THEN Idle ELSE pending[q]
  BY <1>1 DEF Inv, TypeOK
<1>4. ASSUME edits = 0 PROVE (Chained /\ PendingExtends /\ PendingAlone)'
  BY <1>1, <1>3, <1>4 DEF Inv, Chained, PendingExtends, PendingAlone, getLastHash
<1> QED BY <1>1, <1>2, <1>4 DEF Inv

\* Edits come after the recording, and claim nothing about the chain.
LEMMA EditTableInv ==
    ASSUME Inv, NEW s \in SessionIds, EditTable(s)
    PROVE  Inv'
<1>1. PICK log \in Edits(rows[s]) : rows' = [rows EXCEPT ![s] = log]
  BY DEF EditTable
<1>2. edits' = edits + 1 /\ UNCHANGED <<begun, pending, recorded>>
  BY DEF EditTable
<1>3. log \in Seq(Rows)
  BY EditsType DEF Inv, TypeOK
<1>4. TypeOK'
  BY <1>1, <1>2, <1>3 DEF Inv, TypeOK
<1>5. edits' # 0
  BY <1>2 DEF Inv, TypeOK
<1> QED BY <1>4, <1>5 DEF Inv

\* While a session's events are recorded one at a time, what is in the table
\* verifies, whatever is lost on the way and whatever other sessions do.
THEOREM ChainAlwaysVerifies ==
    ASSUME OneAtATime
    PROVE  Spec => [](TypeOK /\ ChainVerifies)
<1>1. Init => Inv
  BY InvInit
<1>2. Inv /\ [Next]_vars => Inv'
  <2> SUFFICES ASSUME Inv, [Next]_vars PROVE Inv'
    OBVIOUS
  <2>1. ASSUME NEW r \in Recorders, NEW s \in SessionIds, NEW c \in Contents,
               BeginEvent(r, s, c)
        PROVE  Inv'
    BY <2>1, OneAtATime, BeginEventInv
  <2>2. ASSUME NEW r \in Recorders, AppendEvent(r) PROVE Inv'
    BY <2>2, AppendEventInv
  <2>3. ASSUME NEW r \in Recorders, LoseEvent(r) PROVE Inv'
    BY <2>3, LoseEventInv
  <2>4. ASSUME NEW s \in SessionIds, EditTable(s) PROVE Inv'
    BY <2>4, EditTableInv
  <2>5. CASE UNCHANGED vars
    BY <2>5 DEF vars, Inv, TypeOK, Chained, PendingExtends, PendingAlone, getLastHash
  <2> QED BY <2>1, <2>2, <2>3, <2>4, <2>5 DEF Next
<1>3. Inv => TypeOK /\ ChainVerifies
  BY DEF Inv, Chained, ChainVerifies
<1> QED BY <1>1, <1>2, <1>3, PTL DEF Spec

\* Sessions' requests may race, and still every row is an event with two hashes that
\* recordEvent can compute.
THEOREM TypeCorrect == Spec => []TypeOK
<1>1. Init => TypeOK
  BY DEF Init, TypeOK, Pending
<1>2. TypeOK /\ [Next]_vars => TypeOK'
  <2> SUFFICES ASSUME TypeOK, [Next]_vars PROVE TypeOK'
    OBVIOUS
  <2>1. ASSUME NEW r \in Recorders, NEW s \in SessionIds, NEW c \in Contents,
               BeginEvent(r, s, c)
        PROVE  TypeOK'
    <3> DEFINE event == [eventId |-> begun + 1, content |-> c]
               row   == NewRow(getLastHash(s), event)
               call  == [at |-> "append", sessionId |-> s, row |-> row]
    <3>1. /\ begun' = begun + 1
          /\ pending' = [pending EXCEPT ![r] = call]
          /\ UNCHANGED <<rows, recorded, edits>>
      BY <2>1 DEF BeginEvent
    <3>2. event \in Events
      BY DEF TypeOK, Events
    <3> HIDE DEF event
    <3>3. row \in Rows
      BY <3>2, NewRowType
    <3> HIDE DEF row
    <3>4. call \in Pending
      BY <3>3 DEF Pending
    <3> HIDE DEF call
    <3> QED BY <3>1, <3>4 DEF TypeOK
  <2>2. ASSUME NEW r \in Recorders, AppendEvent(r) PROVE TypeOK'
    <3> DEFINE s   == pending[r].sessionId
               row == pending[r].row
    <3>1. s \in SessionIds /\ row \in Rows
      BY <2>2 DEF AppendEvent, TypeOK, Pending
    <3>2. /\ rows' = [rows EXCEPT ![s] = Append(@, row)]
          /\ recorded' = [recorded EXCEPT ![s] = Append(@, row)]
          /\ pending' = [pending EXCEPT ![r] = Idle]
          /\ UNCHANGED <<begun, edits>>
      BY <2>2 DEF AppendEvent
    <3>3. rows' \in [SessionIds -> Seq(Rows)] /\ recorded' \in [SessionIds -> Seq(Rows)]
      BY <3>1, <3>2 DEF TypeOK
    <3>4. pending' \in [Recorders -> Pending]
      BY <3>2 DEF TypeOK, Pending
    <3> QED BY <3>2, <3>3, <3>4 DEF TypeOK
  <2>3. ASSUME NEW r \in Recorders, LoseEvent(r) PROVE TypeOK'
    BY <2>3 DEF LoseEvent, TypeOK, Pending
  <2>4. ASSUME NEW s \in SessionIds, EditTable(s) PROVE TypeOK'
    <3>1. PICK log \in Edits(rows[s]) : rows' = [rows EXCEPT ![s] = log]
      BY <2>4 DEF EditTable
    <3>2. edits' = edits + 1 /\ UNCHANGED <<begun, pending, recorded>>
      BY <2>4 DEF EditTable
    <3>3. log \in Seq(Rows)
      BY EditsType DEF TypeOK
    <3> QED BY <3>1, <3>2, <3>3 DEF TypeOK
  <2>5. CASE UNCHANGED vars
    BY <2>5 DEF vars, TypeOK
  <2> QED BY <2>1, <2>2, <2>3, <2>4, <2>5 DEF Next
<1> QED BY <1>1, <1>2, PTL DEF Spec

-----------------------------------------------------------------------------
(* What the verifier vouches for is what was recorded.                      *)
(*                                                                          *)
(* The edits of the table can move hashes, they cannot make one: every hash *)
(* in the table was recorded in its session.  A row that carries a hash it  *)
(* deserves is the row that hash was computed for, and since each hash is   *)
(* one event longer than the last, its place in the log is settled too.     *)

\* Until the table is edited it holds what was recorded.
Kept == edits = 0 => rows = recorded

\* What was recorded verifies, and the hash of the k-th event covers k events.
RecordedChained ==
    \A s \in SessionIds :
        /\ isValid(recorded[s])
        /\ \A k \in DOMAIN recorded[s] : Len(recorded[s][k].currentHash) = k

\* Whatever the table holds, its hashes are hashes of recorded rows.
KnownHashes ==
    \A s \in SessionIds : \A i \in DOMAIN rows[s] : \E k \in DOMAIN recorded[s] :
        rows[s][i].currentHash = recorded[s][k].currentHash

History == Kept /\ RecordedChained /\ KnownHashes

\* A set of numbers that is not empty has a least element.
LEMMA LeastOf ==
    ASSUME NEW T \in SUBSET Nat, T # {}
    PROVE  \E m \in T : \A k \in T : m <= k
<1> DEFINE R == OpToRel(<, Nat)
<1>1. PICK m \in T : \A k \in T : ~ (<<k, m>> \in R)
  BY NatLessThanWellFounded, WFMin
<1>2. \A k \in Nat : k < m => <<k, m>> \in R
  BY DEF OpToRel
<1> HIDE DEF R
<1>3. \A k \in T : ~ (k < m)
  BY <1>1, <1>2
<1> QED BY <1>3

\* An edit may move a hash, and makes no new one.
LEMMA EditsKeepHashes ==
    ASSUME NEW log \in Seq(Rows), NEW edit \in Edits(log), NEW n \in DOMAIN edit
    PROVE  \E m \in DOMAIN log : edit[n].currentHash = log[m].currentHash
<1>1. ASSUME NEW i \in DOMAIN log, NEW row, edit = [log EXCEPT ![i] = row],
             NEW m \in DOMAIN log, row.currentHash = log[m].currentHash
      PROVE  \E k \in DOMAIN log : edit[n].currentHash = log[k].currentHash
  BY <1>1
<1>2. ASSUME NEW i \in DOMAIN log, NEW c \in Contents, edit = Reworded(log, i, c)
      PROVE  \E m \in DOMAIN log : edit[n].currentHash = log[m].currentHash
  <2> DEFINE row == [log[i] EXCEPT !.event.content = c]
  <2>1. log[i] \in Rows
    BY <1>2
  <2>2. row.currentHash = log[i].currentHash
    BY <2>1 DEF Rows
  <2>3. edit = [log EXCEPT ![i] = row]
    BY <1>2 DEF Reworded
  <2> HIDE DEF row
  <2> QED BY <1>1, <2>2, <2>3
<1>3. ASSUME NEW i \in DOMAIN log, NEW j \in DOMAIN log,
             edit = Relinked(log, i, j) \/ edit = Resealed(log, i, j)
      PROVE  \E m \in DOMAIN log : edit[n].currentHash = log[m].currentHash
  <2> DEFINE linked == [log[i] EXCEPT !.previousHash = log[j].currentHash]
             sealed == [log[i] EXCEPT !.currentHash = log[j].currentHash]
  <2>1. log[i] \in Rows
    BY <1>3
  <2>2. linked.currentHash = log[i].currentHash /\ sealed.currentHash = log[j].currentHash
    BY <2>1 DEF Rows
  <2>3. edit = [log EXCEPT ![i] = linked] \/ edit = [log EXCEPT ![i] = sealed]
    BY <1>3 DEF Relinked, Resealed
  <2> HIDE DEF linked, sealed
  <2> QED BY <1>1, <2>2, <2>3
<1>4. ASSUME NEW i \in DOMAIN log, NEW j \in DOMAIN log, edit = Swapped(log, i, j)
      PROVE  \E m \in DOMAIN log : edit[n].currentHash = log[m].currentHash
  BY <1>4 DEF Swapped
<1>5. ASSUME NEW i \in DOMAIN log, edit = Without(log, i)
      PROVE  \E m \in DOMAIN log : edit[n] = log[m]
  <2> DEFINE front == SubSeq(log, 1, i - 1)
             back  == SubSeq(log, i + 1, Len(log))
  <2>1. /\ i \in 1..Len(log)
        /\ Len(log) \in Nat
    OBVIOUS
  <2>2. /\ front \in Seq(Rows) /\ Len(front) = i - 1
        /\ \A k \in 1..(i - 1) : front[k] = log[k]
    BY <2>1, SubSeqProperties
  <2>3. /\ back \in Seq(Rows) /\ Len(back) = Len(log) - i
        /\ \A k \in 1..(Len(log) - i) : back[k] = log[i + k]
    BY <2>1, SubSeqProperties
  <2>4. edit = front \o back
    BY <1>5 DEF Without
  <2> HIDE DEF front, back
  <2>5. /\ n \in 1..(Len(log) - 1)
        /\ edit[n] = IF n <= i - 1 THEN front[n] ELSE back[n - (i - 1)]
    BY <2>1, <2>2, <2>3, <2>4
  <2>6. CASE n <= i - 1
    BY <2>1, <2>2, <2>5, <2>6
  <2>7. CASE ~ (n <= i - 1)
    <3>1. n - (i - 1) \in 1..(Len(log) - i) /\ i + (n - (i - 1)) = n + 1
      BY <2>1, <2>5, <2>7
    <3>2. edit[n] = log[n + 1]
      BY <2>3, <2>5, <2>7, <3>1
    <3> QED BY <2>1, <2>5, <3>2
  <2> QED BY <2>6, <2>7
<1>6. ASSUME NEW i \in DOMAIN log, NEW j \in 0..Len(log), edit = CopiedTo(log, i, j)
      PROVE  \E m \in DOMAIN log : edit[n] = log[m]
  <2> DEFINE front == SubSeq(log, 1, j)
             back  == SubSeq(log, j + 1, Len(log))
  <2>1. /\ i \in 1..Len(log)
        /\ Len(log) \in Nat
        /\ log[i] \in Rows
    OBVIOUS
  <2>2. /\ front \in Seq(Rows) /\ Len(front) = j
        /\ \A k \in 1..j : front[k] = log[k]
    BY <2>1, SubSeqProperties
  <2>3. /\ back \in Seq(Rows) /\ Len(back) = Len(log) - j
        /\ \A k \in 1..(Len(log) - j) : back[k] = log[j + k]
    BY <2>1, SubSeqProperties
  <2>4. edit = (front \o <<log[i]>>) \o back
    BY <1>6 DEF CopiedTo
  <2> HIDE DEF front, back
  <2>5. /\ front \o <<log[i]>> \in Seq(Rows)
        /\ Len(front \o <<log[i]>>) = j + 1
        /\ \A k \in 1..(j + 1) :
              (front \o <<log[i]>>)[k] = IF k <= j THEN front[k] ELSE log[i]
    BY <2>1, <2>2
  <2>6. /\ n \in 1..(Len(log) + 1)
        /\ edit[n] = IF n <= j + 1 THEN (front \o <<log[i]>>)[n] ELSE back[n - (j + 1)]
    BY <2>1, <2>3, <2>4, <2>5
  <2>7. CASE n <= j
    <3>1. edit[n] = log[n]
      BY <2>1, <2>2, <2>5, <2>6, <2>7
    <3>2. /\ j \in Nat /\ j <= Len(log) /\ n \in Nat /\ 1 <= n
          /\ DOMAIN log = 1..Len(log)
      BY <2>1, <2>6
    <3>3. n \in DOMAIN log
      BY <2>1, <2>7, <3>2
    <3> QED BY <3>1, <3>3
  <2>8. CASE n = j + 1
    <3>1. edit[n] = log[i]
      BY <2>5, <2>6, <2>8
    <3> QED BY <3>1
  <2>9. CASE ~ (n <= j + 1)
    <3>1. n - (j + 1) \in 1..(Len(log) - j) /\ j + (n - (j + 1)) = n - 1
      BY <2>1, <2>6, <2>9
    <3>2. edit[n] = log[n - 1]
      BY <2>3, <2>6, <2>9, <3>1
    <3> QED BY <2>1, <2>6, <2>9, <3>2
  <2>10. n \in Int /\ j \in Int
    BY <2>6
  <2>11. n <= j \/ n = j + 1 \/ ~ (n <= j + 1)
    BY <2>10
  <2> QED BY <2>7, <2>8, <2>9, <2>11
<1> QED
  <2>1. \/ \E i \in DOMAIN log, c \in Contents : edit = Reworded(log, i, c)
        \/ \E i, j \in DOMAIN log : \/ edit = Relinked(log, i, j)
                                   \/ edit = Resealed(log, i, j)
                                   \/ edit = Swapped(log, i, j)
        \/ \E i \in DOMAIN log : edit = Without(log, i)
        \/ \E i \in DOMAIN log, j \in 0..Len(log) : edit = CopiedTo(log, i, j)
    BY DEF Edits
  <2> QED BY <1>2, <1>3, <1>4, <1>5, <1>6, <2>1

\* The append writes one row to the table and to the history.
LEMMA AppendEventHistory ==
    ASSUME Inv, History, Inv', NEW r \in Recorders, AppendEvent(r)
    PROVE  History'
<1> DEFINE s   == pending[r].sessionId
           row == pending[r].row
           log == recorded[s]
<1>1. /\ edits = 0
      /\ edits' = edits
      /\ pending[r] # Idle
      /\ rows' = [rows EXCEPT ![s] = Append(@, row)]
      /\ recorded' = [recorded EXCEPT ![s] = Append(@, row)]
  BY DEF AppendEvent
<1>2. s \in SessionIds /\ row \in Rows /\ log \in Seq(Rows)
  BY <1>1 DEF Inv, TypeOK, Pending
<1>3. rows = recorded
  BY <1>1 DEF History, Kept
<1>4. /\ row.previousHash = (IF log = << >> THEN GENESIS_HASH
                             ELSE log[Len(log)].currentHash)
      /\ row.currentHash = Append(row.previousHash, row.event)
  BY <1>1, <1>3 DEF Inv, PendingExtends, getLastHash, Sealed, calculateEventHash
<1>5. \A t \in SessionIds : recorded'[t] = IF t = s THEN Append(log, row) ELSE recorded[t]
  BY <1>1, <1>2 DEF Inv, TypeOK
<1>6. rows' = recorded'
  BY <1>1, <1>3
<1>7. \A k \in DOMAIN log : Len(log[k].currentHash) = k
  BY <1>2 DEF History, RecordedChained
<1> HIDE DEF s, row, log
<1>8. Len(row.currentHash) = Len(log) + 1
  <2>1. /\ row.previousHash \in Seq(Events) /\ row.event \in Events
        /\ Len(log) \in Nat
    BY <1>2 DEF Rows
  <2>2. Len(row.currentHash) = Len(row.previousHash) + 1
    BY <1>4, <2>1
  <2>3. CASE log = << >>
    BY <1>4, <2>2, <2>3 DEF GENESIS_HASH
  <2>4. CASE log # << >>
    <3>1. Len(log) \in DOMAIN log
      BY <1>2, <2>4
    <3> QED BY <1>4, <1>7, <2>2, <2>4, <3>1
  <2> QED BY <2>3, <2>4
<1>9. RecordedChained'
  <2> SUFFICES ASSUME NEW t \in SessionIds
               PROVE  /\ isValid(recorded'[t])
                      /\ \A k \in DOMAIN recorded'[t] :
                            Len(recorded'[t][k].currentHash) = k
    BY DEF RecordedChained
  <2>1. isValid(recorded'[t])
    BY <1>1, <1>6 DEF Inv, Chained
  <2>2. CASE t # s
    BY <1>5, <2>1, <2>2 DEF History, RecordedChained
  <2>3. CASE t = s
    <3>1. /\ DOMAIN Append(log, row) = 1..(Len(log) + 1)
          /\ Len(log) \in Nat
          /\ \A k \in 1..(Len(log) + 1) :
                Append(log, row)[k] = IF k = Len(log) + 1 THEN row ELSE log[k]
          /\ DOMAIN log = 1..Len(log)
      BY <1>2
    <3>2. \A k \in DOMAIN Append(log, row) : Len(Append(log, row)[k].currentHash) = k
      BY <1>7, <1>8, <3>1
    <3> QED BY <1>5, <2>1, <2>3, <3>2
  <2> QED BY <2>2, <2>3
<1> QED BY <1>6, <1>9 DEF History, Kept, KnownHashes

\* An edit touches the table only, and leaves it the hashes it had.
LEMMA EditTableHistory ==
    ASSUME Inv, History, NEW s \in SessionIds, EditTable(s)
    PROVE  History'
<1>1. PICK log \in Edits(rows[s]) : rows' = [rows EXCEPT ![s] = log]
  BY DEF EditTable
<1>2. edits' = edits + 1 /\ recorded' = recorded
  BY DEF EditTable
<1>3. edits' # 0
  BY <1>2 DEF Inv, TypeOK
<1>4. rows[s] \in Seq(Rows)
  BY DEF Inv, TypeOK
<1>5. KnownHashes'
  <2> SUFFICES ASSUME NEW t \in SessionIds, NEW i \in DOMAIN rows'[t]
               PROVE  \E k \in DOMAIN recorded[t] :
                         rows'[t][i].currentHash = recorded[t][k].currentHash
    BY <1>2 DEF KnownHashes
  <2>1. rows'[t] = IF t = s THEN log ELSE rows[t]
    BY <1>1 DEF Inv, TypeOK
  <2>2. CASE t # s
    BY <2>1, <2>2 DEF History, KnownHashes
  <2>3. CASE t = s
    <3>1. PICK m \in DOMAIN rows[s] : log[i].currentHash = rows[s][m].currentHash
      BY <1>4, <2>1, <2>3, EditsKeepHashes
    <3> QED BY <2>1, <2>3, <3>1 DEF History, KnownHashes
  <2> QED BY <2>2, <2>3
<1> QED BY <1>2, <1>3, <1>5 DEF History, Kept, RecordedChained

\* Two rows that carry the same hash, both of their own making, are the same row.
LEMMA SealsDecide ==
    ASSUME NEW x \in Rows, NEW y \in Rows, Sealed(x), Sealed(y),
           x.currentHash = y.currentHash
    PROVE  x = y
<1>1. /\ x.previousHash \in Seq(Events) /\ y.previousHash \in Seq(Events)
      /\ x.event \in Events /\ y.event \in Events
      /\ Append(x.previousHash, x.event) = Append(y.previousHash, y.event)
  BY DEF Rows, Sealed, calculateEventHash
<1>2. \A a, b \in Seq(Events) : \A d, e \in Events :
         Append(a, d) = Append(b, e) => a = b /\ d = e
  BY AppendInjective
<1>3. x.previousHash = y.previousHash /\ x.event = y.event
  BY <1>1, <1>2
<1> QED BY <1>3 DEF Rows

\* The first accepted row that was not recorded in its place would be a recorded row
\* of that very place.
LEMMA HistoryVouches ==
    ASSUME Inv, History
    PROVE  VouchedRowsRecorded
<1> SUFFICES ASSUME NEW s \in SessionIds, NEW i \in Vouched(rows[s])
             PROVE  i \in DOMAIN recorded[s] /\ rows[s][i] = recorded[s][i]
  BY DEF VouchedRowsRecorded
<1> DEFINE log   == rows[s]
           first == recorded[s]
<1>1. log \in Seq(Rows) /\ first \in Seq(Rows)
  BY DEF Inv, TypeOK
<1>2. /\ i \in DOMAIN log
      /\ \A j \in 1..i : Accepts(log, j)
  BY DEF Vouched
<1>3. /\ \A k \in DOMAIN first : Len(first[k].currentHash) = k /\ Sealed(first[k])
      /\ \A j \in DOMAIN log : \E k \in DOMAIN first :
            log[j].currentHash = first[k].currentHash
  BY DEF History, RecordedChained, KnownHashes, isValid, Accepts
<1> HIDE DEF log, first
<1> DEFINE Bad == {j \in 1..i : ~ (j \in DOMAIN first /\ log[j] = first[j])}
<1>4. i \in Nat /\ 1..i \subseteq DOMAIN log /\ i >= 1
  BY <1>1, <1>2
<1>5. Bad = {}
  <2> SUFFICES ASSUME Bad # {} PROVE FALSE
    OBVIOUS
  <2>1. Bad \in SUBSET Nat
    BY <1>4
  <2>2. PICK j \in Bad : \A k \in Bad : j <= k
    BY <2>1, LeastOf
  <2>3. /\ j \in 1..i
        /\ ~ (j \in DOMAIN first /\ log[j] = first[j])
    BY <2>2
  <2>4. j # 1 => (j - 1 \in DOMAIN first /\ log[j - 1] = first[j - 1])
    BY <1>4, <2>2
  <2> HIDE DEF Bad
  <2>5. /\ log[j] \in Rows
        /\ Sealed(log[j])
        /\ log[j].previousHash = (IF j = 1 THEN GENESIS_HASH ELSE log[j - 1].currentHash)
    BY <1>1, <1>2, <1>4, <2>3 DEF Accepts, Linked
  <2>6. PICK k \in DOMAIN first : log[j].currentHash = first[k].currentHash
    BY <1>3, <1>4, <2>3
  <2>7. first[k] \in Rows /\ Sealed(first[k]) /\ Len(first[k].currentHash) = k
    BY <1>1, <1>3
  <2>8. log[j] = first[k]
    BY <2>5, <2>6, <2>7, SealsDecide
  <2>9. Len(log[j].previousHash) = j - 1
    BY <1>3, <1>4, <2>3, <2>4, <2>5 DEF GENESIS_HASH
  <2>10. Len(log[j].currentHash) = Len(log[j].previousHash) + 1
    BY <2>5 DEF Rows, Sealed, calculateEventHash
  <2>11. k = j
    BY <1>1, <1>4, <2>3, <2>7, <2>8, <2>9, <2>10
  <2> QED BY <2>3, <2>8, <2>11
<1>6. i \in 1..i
  BY <1>4
<1>7. i \in DOMAIN first /\ log[i] = first[i]
  BY <1>5, <1>6
<1> QED BY <1>7 DEF log, first

\* Whatever was done to the table by hands that compute no hashes, each row before the
\* one verifyChainIntegrity stops at is the row recordEvent appended in that place.
THEOREM VouchedAreRecorded ==
    ASSUME OneAtATime
    PROVE  Spec => []VouchedRowsRecorded
<1>1. Init => Inv /\ History
  <2>1. Init => History
    BY DEF Init, History, Kept, RecordedChained, KnownHashes, isValid
  <2> QED BY <2>1, InvInit
<1>2. (Inv /\ History) /\ [Next]_vars => (Inv /\ History)'
  <2> SUFFICES ASSUME Inv, History, [Next]_vars PROVE Inv' /\ History'
    OBVIOUS
  <2>1. ASSUME UNCHANGED <<rows, recorded, edits>> PROVE History'
    BY <2>1 DEF History, Kept, RecordedChained, KnownHashes
  <2>2. ASSUME NEW r \in Recorders, NEW s \in SessionIds, NEW c \in Contents,
               BeginEvent(r, s, c)
        PROVE  Inv' /\ History'
    BY <2>1, <2>2, OneAtATime, BeginEventInv DEF BeginEvent
  <2>3. ASSUME NEW r \in Recorders, AppendEvent(r) PROVE Inv' /\ History'
    BY <2>3, AppendEventInv, AppendEventHistory
  <2>4. ASSUME NEW r \in Recorders, LoseEvent(r) PROVE Inv' /\ History'
    BY <2>1, <2>4, LoseEventInv DEF LoseEvent
  <2>5. ASSUME NEW s \in SessionIds, EditTable(s) PROVE Inv' /\ History'
    BY <2>5, EditTableInv, EditTableHistory
  <2>6. CASE UNCHANGED vars
    BY <2>1, <2>6
       DEF vars, Inv, TypeOK, Chained, PendingExtends, PendingAlone, getLastHash
  <2> QED BY <2>2, <2>3, <2>4, <2>5, <2>6 DEF Next
<1>3. Inv /\ History => VouchedRowsRecorded
  BY HistoryVouches
<1> QED BY <1>1, <1>2, <1>3, PTL DEF Spec
=============================================================================
