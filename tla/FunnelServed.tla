---------------------------- MODULE FunnelServed ----------------------------
(***************************************************************************)
(* FunnelEngine as its store sees it: one session, written now and then.   *)
(* Three history variables record what the writes were, so that the store  *)
(* can be held against Funnel, where requests are served one at a time and *)
(* to the end.                                                             *)
(***************************************************************************)
EXTENDS FunnelEngine

VARIABLES
    stamped,    \* history: the last time stamp to reach the store
    confirmed,  \* history: the input stored at the last confirmation
    spent       \* history: the consents under which a quote was stored

servedVars == <<row, history, idem, audited, clock, issued, req, answers,
                stamped, confirmed, spent>>

\* The session on file; before startSession has saved it, the one it will save.
Stored == IF row = NoRow THEN StartedSession ELSE row.session

\* s becomes t by a confirmation, by a consent, by a calculation.
Confirms(s, t)   == t.parametersConfirmedAt \notin {0, s.parametersConfirmedAt}
Consents(s, t)   == t.consentGrantedAt \notin {0, s.consentGrantedAt}
Calculates(s, t) == t.step = "QUOTED" /\ s.step # "QUOTED"

Note(s, t) ==
    /\ stamped' = IF Confirms(s, t) THEN t.parametersConfirmedAt
                  ELSE IF Consents(s, t) THEN t.consentGrantedAt
                  ELSE stamped
    /\ confirmed' = IF Confirms(s, t) THEN t.input ELSE confirmed
    /\ spent' = IF Calculates(s, t) THEN spent \cup {s.consentGrantedAt} ELSE spent

ServedInit == Init /\ stamped = 0 /\ confirmed = EmptyInput /\ spent = {}

ServedNext == Next /\ Note(Stored, Stored')

ServedSpec == ServedInit /\ [][ServedNext]_servedVars

FairServedSpec == ServedSpec /\ Fairness

Sequential == INSTANCE Funnel
                 WITH session   <- Stored,
                      clock     <- stamped,
                      issued    <- QuoteOrder(Stored)

\* Handlers that interleave, fail and die leave on the store what requests served one
\* after the other would: each write is one request of Funnel, made of the session
\* on file, and a request that does not write leaves no trace there.
ServedInTurn == Sequential!Spec
=============================================================================
