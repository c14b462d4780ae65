# Verification of the insurance quotation funnel

TLA+ modules, TLC configurations and TLAPS proofs kept beside this repository: a
quotation funnel for home insurance, driven through MCP tools, that must not
quote without an accepted risk, a confirmation and a consent, and must leave an
audit trail that can be verified. Paths below are relative to `src/`.

- [1. The system](#1-the-system)
- [2. The modules](#2-the-modules)
- [3. The runs](#3-the-runs)
- [4. The proofs](#4-the-proofs)
- [5. Divergences found](#5-divergences-found)
- [6. What is not modelled](#6-what-is-not-modelled)
- [7. Plan](#7-plan)
- [8. Running it](#8-running-it)

## 1. The system

| Component | State | Operations | Talks to |
|---|---|---|---|
| Funnel state machine (`packages/domain`) | none: it changes a session object it is handed | `assertStep`, `transition`, `confirmParameters`, `grantConsent`, `assertReadyToQuote`, `applyCorrection`, `validateInputs` | called by the engine |
| Funnel engine (`apps/mcp-server/src/funnel-engine.ts`) | none: every handler loads the session and writes it back whole | nine operations that change a session, `getSession`, `exportAuditTrail` | store, pricing port, audit store: every call awaited |
| Session stores (`packages/persistence`) | sessions, quote history, idempotency records; in memory or in PostgreSQL | create, save, get, delete, anonymize, saveQuote, idempotency records, cleanExpired | shared by handlers, processes and scripts |
| Audit log (`packages/audit`) | one hash chain per session | `recordEvent`, `verifyChainIntegrity` | repository (memory, PostgreSQL) |
| Rules (`packages/rules`) | rule sets 1.0.0 and 2.0.0, and which is active | eligibility, pricing, quote generation, replay | called through the pricing port |
| Pricing port and service (`packages/rules/src/pricing-port.ts`, `apps/pricing-service`) | the active rule version of the service, which over HTTP need not be the engine's | `evaluate`, `calculate`, over HTTP with a time-out or in process | engine and flow to service |
| MCP server (`server.ts`) | transport sessions | the primary tool, which runs the flow; one operational tool per engine operation | flow, engine |
| Waniwani flow (`waniwani-flow.ts`) | one row per conversation, in memory or PostgreSQL | a graph of nodes run turn by turn | pricing port, kv store, audit store |
| Scripts | none | anonymize a session, verify a chain, migrate | stores and audit log, from other processes |

**A request** is one handler: `requireSession` loads the document, a synchronous
stretch checks and changes the copy, `saveSession` writes it back, and
`calculateQuote` and `adjustQuote` go on to `saveQuote`,
`saveIdempotencyRecord` and `recordEvent`, four writes in sequence with no
transaction around them.

**A turn** of the primary tool is the other way to a quote, and shares nothing with
the sessions but the audit log and the pricing port. It loads the row of its
conversation, merges what the customer answered, and runs node after node until one
interrupts to ask for more or the graph ends; then it replaces the row, whatever the
row holds by then.

**What is hard here.**

- *Sequences.* Corrections, adjustments and repeated submissions may come in any
  order and at any step. `applyCorrection` assigns the step itself, past the
  transition table. Gates (confirmation, consent, verdict), the active quote and
  the step are five fields that must agree after every such sequence.
- *Interleavings.* Between two awaits of a handler others run, in the process or
  in another one. Each holds a whole copy. PostgreSQL compares a version column
  on save, the in-memory map does not compare anything.
- *Retries.* Idempotency records are looked up before the work and written behind
  it; key and fingerprint are computed from the session as it is at the retry.
- *Crashes.* Session, quote history, record and event are separate writes; so are
  the event of the flow's quote and the row that shows it.
- *Time-outs.* A pricing call may fail after the service has answered it. The
  evaluation and the price of one quote are two calls, with a deployment of other
  rules between them perhaps.
- *Answers out of turn.* The flow merges any field the customer sends, asked for or
  not, and a node behind the evaluation does not go back to it.
- *Audit.* `recordEvent` reads the last hash in one await and appends in the next.
  Later the table may be altered by hands that do not compute hashes.

**What makes each part correct.** *State machine:* a quote stands only on an
eligible, confirmed, consented session and prices what is on file; the verdict on
file belongs to the risk on file; a consent serves one calculation; no quote is
lost. *Engine and stores:* the same holds of the stored document whatever
requests interleave; no write is lost; a conflict reported is a conflict; the
same request gets the same quote; what clients are answered with is on file.
*Audit:* the chain always verifies; what verification vouches for is what was
recorded. *Rules and pricing:* premiums add up and follow the risk; a replay
vouches for a quote only if its label's rules give its figures. *Sessions at rest and their end:* what has
expired is never read again; an erasure or a deletion that met no request is final.
*Flow:* no quote without a consent and an evaluation behind it, and none the audit
log does not know, whatever turns overlap or die; the version on a quote is the one that
priced it, unless the service was deployed between its two calls; a customer who answers what is asked comes to an end.

## 2. The modules

    QuoteContract                 abstract: what the customer is promised
      ^ refined by
    Funnel        ----+           one request at a time       FunnelProofs
      ^ refined by    | same operators
    FunnelServed      |           the engine as its store sees it
      |               |                                       FunnelServedProofs
    FunnelEngine  ----+           concurrent handlers, stores, idempotency
                      |                                       FunnelEngineProofs
    FunnelDomain  <---+           operators on a session      FunnelDomainProofs
      ^
    PricingPort                   two adapters, the service's internal routes
      ^
    WaniwaniFlow                  the primary tool, turn by turn   FlowProofs
    SessionStore                  expiry, erasure, deletion   SessionStoreProofs
    AuditChain                    recordEvent, verification   AuditProofs
    Pricing                       rule sets, premiums, replay   PricingProofs
    MCFunnel, MCFunnelEngine, MCFunnelServed, MCWaniwaniFlow, MCSessionStore,
    MCAuditChain, MCPricing       small instances

**FunnelDomain** (`state-machine.ts`, `types.ts`, `schemas.ts`, and the
synchronous bodies of the handlers). A session is a record of the fields that
decide something: step, input, verdict, active and historical quotes, the two time
stamps. An input is the risk, the coverage and the contact email; a form field
holds a value or `NoValue` (an undefined key, which a spread overrides nothing
with). Schema and rule set are the sets `ValidRisks` and `EligibleRisks`, so
what holds does not depend on this year's rules. `Changed` needs the field defined
before and after, as the code's comparison does. A correction is one that
`CorrectionInputSchema` accepts (`CorrectionInputs`), since `applyCorrection` parses it
first. Time stamps are the values of a
clock; every stamp is later than the one before, so the model tells apart two stamps the
code would take in one millisecond. Quotes carry an identifier, their input and a
status; premiums are left to Pricing.

`INIT` and `COMPLETED` are left out of `Steps`: `startSession` creates sessions at
`COLLECTING_PROPERTY`, and no handler enters either. Several handlers assert a
wider list of steps than the table lets move; the model has both conjuncts
(`MayMove`), so the table decides, as in the code.

**Funnel** is one session with requests served one at a time. Each action is an
engine operation that succeeds, from `requireSession` to the last `saveSession`; a
request that is refused throws before it saves and is no step. `AnonymizeSession`
is the script of that name on a session at rest. A stamp is any moment later than the last
one saved (`Later`), a quote gets any identifier no quote of the session has (`Fresh`, for
`randomUUID`): time passes, and numbers are drawn, for requests that come to nothing too.
`issued`, `confirmed` and `spent` are history variables: the identifiers in order of issue, the
input at the last confirmation, and the consents used.

**QuoteContract** is the abstract specification: terms are confirmed, then
consented to, then offered; only the coverage of a standing offer is
renegotiated in place; anything else that changes reopens the negotiation and
withdraws the offer. `Stage`, `SettledTerms` and `Offer` are the refinement
mapping. A confirmation or consent counts for the contract once the verdict is
favourable: the code lets a customer confirm an unevaluated risk (see 5), and then
promises nothing, since `assertReadyToQuote` refuses.

**FunnelEngine** splits the handlers at their awaits. `req[r]` is what handler `r`
holds: where it waits (`pc`), the document it loaded (`base`), the copy it will
write (`doc`), the quote it will answer. Each await of the code that reads or
writes shared state is one action; an await that only asks the pricing port
depends on the copy alone and is folded into its neighbour.

| Code | Actions |
|---|---|
| `requireSession` and the checks behind it | `StartSession` ... `CorrectField`, `CalculateQuote`, `AdjustQuote` |
| `getIdempotencyRecord` | `Found`, `ComputeQuote`, `ComputeAdjustment` |
| `saveSession`, memory | `SaveInMemory` |
| `saveSession`, PostgreSQL | `SelectVersion`, then `InsertRow` or `UpdateRow` |
| `saveQuote`, `saveIdempotencyRecord`, `recordEvent` | `SaveQuote`, `SaveRecord`, `RecordEvent` |
| a replayed request | `Replay` |
| the process or the pool failing | `Crash` |

The version on the row and the version on a copy are kept apart: corrections and
adjustments count the copy up before the store compares it, and the PostgreSQL
store counts up once more. Keys of idempotency records are the client's or the
derived ones, and fingerprints hold what the code puts into them, the active rule version
among it; only the session identifier is left
out of both, because one session is modelled. `RuleVersions` are the versions active in the
processes that serve the session: a request is served under any of them, so a repeated
calculation may come behind a deployment, and is then refused as a conflict of keys, as in the code.
`lastIdempotencyKey` and `lastQuoteFingerprint` are written by the code and never read; they are left out. The audit log
is reduced to the quotes its events mention; chaining is AuditChain's subject.

**FunnelServed** is FunnelEngine with the history that Funnel keeps, read off the writes of the
row: `Note` compares the session on file before and after a step, and records a new confirmation with its
input (`Confirms`), a new consent (`Consents`), and the consent behind a new quote (`Calculates`). It
adds no behaviour and takes none away. `Sequential` is Funnel with the session on file for its
session, the last stamp to reach the store for its clock, and the quotes on file, in order, for those
issued; before `startSession` has saved, the session on file is the one it will save (`Stored`).
`ServedInTurn` says that this is a behaviour of Funnel: the requests served one after the other are those whose
write went through, in the order of their writes, each made of the session the one before it left.

**AuditChain** is `recordEvent` in its two repository calls, for several recorders
and sessions. SHA-256 is assumed free of collisions: a hash is the sequence of
everything that went into it. `OneAtATime` says that the events of one session are
recorded one after the other, which the code leaves to its callers. `LoseEvent` is an
append that fails. `EditTable` alters the log afterwards: a row reworded, its
hashes replaced by others of the table, swapped, dropped or copied, without
computing new hashes; verification is only claimed to find that. `recorded`
keeps the rows as they were appended.

**SessionStore** takes the stores of FunnelEngine further along one session's life:
`now` runs past its expiry, `admin` is what `anonymizeSession` or `deleteSession`
holds between two statements, and a handler is reduced to what it does to the store:
it loads (`Handle`, the whole of `requireSession` and a change of the copy, with the version counted up
on the copy if it is a correction or an adjustment), saves, and
may go on to `SaveQuote` and `SaveRecord`. `mode` chooses the adapter in `Init`, so one
run covers both. `Readable` differs between them at the very moment of expiry, as in
the code. Emails are the only personal data kept: in the document, in the
`snapshots` of the quote history and in the `records`. `erased`, `deleted` and
`disturbed` are history variables: an erasure was completed, a deletion was, and one of
them overlapped a handler in flight. A handler may supply or withhold an email, or issue a
quote; what else it changes is its serial number. `createSession` of the stores is called by tests only.

**PricingPort** is one call per caller: `Request` posts the input, `Serve` answers it
under the version active at that moment after parsing the input again, `MayFail` is
the time-out, the broken connection or the error answer, which may come after the
answer was made, `HangUp` the end of the call. A price is the version it was computed
under: with the input, that decides it. `Remote = FALSE` is the adapter in the
process, which does not fail. The one difference the flow can tell between the two
routes is kept: `evaluate` hands on the version, `calculate` drops it.

**WaniwaniFlow** has one action per node, or two where the node awaits a call.

| Code | Actions |
|---|---|
| `get_home_insurance_quote`, new or continued | `Start`, `Continue` |
| `collect_property`, `collect_risk`, `select_coverage` | `CollectProperty`, `CollectRisk`, `SelectCoverage` |
| `evaluate_eligibility` and its conditional edge | `EvaluateEligibility`, `Evaluated` with `Branch` |
| `confirm_parameters`, `request_consent` | `ConfirmDetails`, `RequestConsent` |
| `calculate_quote`: evaluate, calculate, `recordEvent` | `CalculateQuote`, `Reevaluated`, `Priced`, `RecordEvent` |
| `referral_end` | `ReferralEnd` |
| `PostgresWaniwaniKvStore.get`, `set` | within `Continue`, `Save` |
| a call to the port or to a database that throws, the process failing | `PortFails`, `Crash` |

`flow` is the row, `turn[t]` what a turn in flight holds. An input is that of
FunnelDomain, but it is merged field by field and `Built` when a node needs all of it
(`buildValidatedQuoteInput`, with its defaults for the claims count and the primary residence).
`Fitting` and `FittingTrimmed` are the two tests of the postcode: `collect_property` sanitizes
it first, `collect_risk` does not, and deletes one that does not fit. A turn that throws writes nothing.
`DeployRules` makes another version active in the service at any moment. `past`, `rolled`,
`settled` and `strayed` are history: turns that overlapped, died or carried an answer that nothing asked for,
whether another version was deployed between the answers to the two calls of a quote (`BetweenCalls`),
whether the input is the one last confirmed, and whether such an answer was merged into
this state. Of the flow library, whose source is not in the repository, the model takes that a turn resumes at the
node that interrupted, that an interrupt ends the turn, and that the row is written once, at
the end of the turn.

**Pricing** has the two rule sets, `isEligible`, `calculatePricing`, the digest and the
replay of a quote, and the quote of one session through calculations, adjustments,
corrections that withdraw it and deployments. The engine has its own active version (`version`), and
so has the process behind the pricing port (`service`); each changes at any moment (`DeployEngine`, `DeployService`).

| Code | Actions |
|---|---|
| `calculateQuote`: the label from the engine's rule policy, then `evaluate` awaited | `CalculateQuote` |
| the verdict, then `calculate` awaited | `Evaluated` |
| the price, and the quote under its label | `Calculated` |
| a call that fails or times out | `Failed` |
| `adjustQuote`: the old label, a new price | `AdjustQuote` |
| `applyCorrection` on a quoted session | `Withdraw` |

With the adapter in the process there is one policy for both, which is the case of deployments that come together.
`priced` is history: the version the standing quote was priced under. Base rates
are in EUR and the rest of the money in cents, multipliers and tax rates in
hundredths, so that every product is exact; it needs more than TLC's 32 bits and is
carried in digits (`Times`, `Product`). The code multiplies in binary floating point
and rounds to cents; that differs from exact arithmetic only where the exact
product lies half way between two cents (established by evaluating the code's
formula on all 144,000 combinations of factors; about 6,000 of them are such ties), and there the model allows both
(`Cents`, `Rounded`). The digest is the tuple of what goes into it.

## 3. The runs

| Run | Instance | Question |
|---|---|---|
| `Funnel` | one field per form, two values each, 8 corrections, 2 quotes, 4 stamps | Do gates, verdict, quote and confirmation agree after any sequence of requests? Is the contract kept? |
| `EnginePostgres` | two handlers, crashes, one client key or none, both rule versions, 2 quotes, 3 stamps | Does compare-and-swap lose no write, refuse only real conflicts, and do repeated requests get their quote? Is no book ahead of another, and the contract kept? |
| `EngineMemory` | two handlers that overwrite each other, 2 corrections, 1 adjustment, 2 quotes, 3 stamps | Whatever is overwritten, do quote and verdict stand on the session they are in, and do the books agree at rest? |
| `EngineProgress` | two handlers, fairness, no crash | Do conflicting requests starve a consented session? Is what they leave on the store what requests served in turn would leave? |
| `AuditSerial` | two recorders, two sessions, 4 events, 2 edits | Does the chain verify at all times, and what does verification vouch for after edits? |
| `SessionStore` | two handlers, whose versions are counted up or not, one email, expiry at 1, 4 documents, either adapter | Is what has expired, was erased or was deleted gone for good? What may a live write replace? |
| `Pricing` | one country, all property types, years and coverages, one occupancy, four areas, 0 to 4 claims, both versions in engine and service | What does a replay vouch for? Do quotes add up and follow the risk? |
| `FlowTurns` | two turns, one field per form, failing calls, crashes, deployments, 1 overlap, 1 answer out of turn, 2 quotes, fairness | Is every quote of the flow behind its gates, labelled and audited, and does the conversation end? |
| `FlowCorrection`, `CorrectionRefused`, `AdjustReplay`, `AuditFork` | the smallest that shows it | The divergences of section 5. |

**Bounds, and why they are enough.** Two values per field make a field change and
change back. `Funnel` has a property field and a risk-factor field, with one pair
rejected by the schema and one referred, so that every verdict and every partial
correction occurs. Two quotes let an adjustment or a second calculation follow the
first; `MaxClock = 4` lets the customer confirm and consent twice, which is what a
second calculation takes. Two handlers make every pairwise race; a third could only lose
to a pair that is already there, since a document is written whole. `MaxVersion`
bounds the versions requests start from; in `EnginePostgres` it is out of reach.
Four events and two edits let an edit be repaired or hidden by another one.
In `SessionStore` four documents are a first save, two by handlers in flight
together, and one behind them; time stops one behind the expiry, when every comparison with it
has changed. `Pricing` leaves out countries, areas and occupancies whose factors
enter the product as others do, which keeps the run near two minutes, and a claims count of
4 stands for all above 3; the theorems (section 4) are about every declaration the schema accepts. Handlers are interchangeable, and the safety runs of
engine and stores use that symmetry;
`EngineProgress` and `FlowTurns`, which check liveness, do not. In `FlowTurns` the postcode
fits, misfits or fits once trimmed, and the claims count is accepted, referred or
no number. One answer out of turn makes every correction the flow can meet; each
answer carries at most one field, and two of them make the larger ones. One overlap is
a second turn that loads the row the first is about to replace, and two quotes let each
of the two calculate. No form has an email, which the flow passes on unread. The bounded runs stop when their bounds are used up
and the session takes no further request, so deadlock is not checked in them. A conversation of the flow that has come to its end takes
no turn either.

`EnginePostgres` leaves out corrections and adjustments, because there they make
`NoLostUpdate` and `ConflictIsReal` false (section 5): what it shows is that
the other operations are safe. The two rule versions stand for before and behind a deployment. `EngineMemory` has no
client keys and no crashes: it asks what overwriting alone does to the document and the books. A third stamp
lets a correction send the customer back to a second confirmation while a consent given before is in flight; `MaxVersion = 2` lets
two corrections or adjustments follow on what they find. In memory, the contract with the customer and the idempotency of
calculations fail as soon as two requests interleave (section 5), and are proved of a client that waits for its answers,
or of PostgreSQL (section 4).

**Properties.** In `Funnel`: `QuoteGate`, `EligibilityCurrent`,
`QuotedAsConfirmed`, `ConsentFollowsConfirmation`, `QuotesAccounted` (no quote is
lost or listed twice, in order of issue), `OneQuotePerConsent`, `KeepsContract`.
In `FunnelEngine`: `StoredQuoteGate` and `StoredEligibilityCurrent` are the same
of the stored document, whatever overwrites what; `NoLostUpdate`, `ConflictIsReal`;
`SameRequestSameQuote` and `CalculateRepeatAnswered` (a keyed calculation repeated under the same rule version is
replayed with the quote that stands) for idempotency; `BooksNested`, which of session, quote history, records, audit trail and answers may
lack what another one has, at any moment and after any crash; `BooksAgree`, when no request is in flight and none has
died, every quote of the session on file is in the history and every quote of the history has its event; `ConsentedGetsQuoted`; `StoreKeepsContract`, the contract seen
from the store. In `FunnelServed`: `ServedInTurn`. In `SessionStore`: `ExpiredUnread`, `LiveWritesOrdered` (while the
session lives a handler replaces just the document it loaded, across cleaning,
deletion and re-insertion; a correction or an adjustment, whose version is counted up, just the first document
written behind that one, which is the flaw of section 5 to its exact extent), `ErasedStaysErased`, `DeletedStaysDeleted`. In `Pricing`:
`ReplayVouches` (a replay that matches the digest has the figures; one that does not match tells that the quote was
priced under another version than its label's), `DeductiblePays` (a larger deductible takes off its discount, down
to the minimum premium), `InstalmentsAddUp`, `PremiumFollowsRisk`. In `AuditChain`:
`ChainVerifies`, `VouchedRowsRecorded`. In `WaniwaniFlow`: `FlowQuoteGate`, whose last part needs that
no answer was out of turn (section 5); `FlowQuotesAudited`; `LabelledAsPriced`, whatever is deployed when, unless between the
answers to the two calls of the quote; `AuditedOnFile`, no
quote is audited and lost unless turns overlap or one dies; `ConversationEnds`.

`VouchedRowsRecorded` speaks of the rows verification accepts. Rows taken off the
*end* of a chain leave a shorter chain that verifies: `docs/architecture/` says
so too, while `docs/decisions/ADR-004-cryptographic-audit-hash-chaining.md` claims that any deletion is found.

**Fairness**, for two properties. `ConsentedGetsQuoted`: `WF(Continue(r))`, a handler in
flight goes on, since the event loop resumes it once what it awaits has answered,
and the store's calls answer or throw. `WF` of `CalculateQuote`: the customer asks
for the quote until it is there, an assumption on the environment; nothing in the
server retries. No crash is assumed in that run, as a crash after the save leaves
the session quoted without an answer (section 5).

`ConversationEnds`: `WF` of `Run`, the nodes run on, for the same reason. The pricing
service is in another process: `SF` of a served call of either route and of its answer being
taken in time says that a call repeated for ever is answered for once, no more; the run lets
calls fail any number of times before. `SF(ProperAnswer)` is the customer, an assumption on the
environment: asked time and again, he answers in the end with exactly the fields asked for,
with values the schema and the postcode test take, and with no refusal. The property gives up where two turns overlapped, one
died or an answer was out of turn, because then it is false: a bad value merged behind
the node that asks for it is not asked for again, and `calculate_quote` throws every time.

## 4. The proofs

All proofs are checked by TLAPS, for every set of fields, values, corrections and
rules allowed by the assumptions of the modules (`DomainAssumption`, `EngineAssumption`,
`FlowAssumption` and so on), which TLC evaluates on every run.

| Module | Theorem | Says |
|---|---|---|
| FunnelProofs | `Invariance` | the strengthened invariant `Inv` holds |
| FunnelProofs | `TypeCorrect`, `QuoteGated`, `VerdictNeverStale`, `QuotedIsConfirmed`, `ConsentInOrder`, `EveryQuoteAccounted` | the invariants of the run `Funnel` |
| FunnelProofs | `ConsentUsedOnce` | `OneQuotePerConsent` |
| FunnelProofs | `ContractKept` | `Funnel` implements `QuoteContract` |
| FunnelServedProofs | `ServedAsOne` | `ServedInTurn`: FunnelEngine implements `Funnel`, under `Versioned` or with one request at a time (`Alone`), over either store with corrections and adjustments; whatever dies |
| FunnelServedProofs | `StoredAsConfirmed`, `StoredConsentInOrder`, `StoredConsentUsedOnce` | `QuotedAsConfirmed`, `ConsentFollowsConfirmation` and `OneQuotePerConsent` of Funnel, of the session on file, under the same conditions |
| FunnelEngineProofs | `TypeCorrect`, `QuoteGated`, `VerdictNeverStale`, `AnsweredOnFile` | over either store, with crashes, corrections and adjustments, whatever interleaves |
| FunnelEngineProofs | `NoWriteLost`, `ConflictsAreReal` | over PostgreSQL without corrections and adjustments (`Versioned`) |
| FunnelEngineProofs | `OneAnswer`, `RepeatsAnswered` | `SameRequestSameQuote` and `CalculateRepeatAnswered`, under `Versioned`, whatever dies |
| FunnelEngineProofs | `ContractKept` | `StoreKeepsContract`, under `Versioned` or with one request at a time (`Alone`), over either store with corrections and adjustments |
| FunnelEngineProofs | `BooksNeverAhead` | `BooksNested`, under `Versioned` or `Alone`, whatever dies |
| FunnelEngineProofs | `BooksReconciled` | `BooksAgree`, over either store, with corrections and adjustments, whatever overwrites what, if no handler dies |
| FlowProofs | `FlowTypeCorrect`, `FlowGate`, `FlowAudited` | whatever overlaps, fails, dies or is deployed |
| FlowProofs | `FlowLabels` | `LabelledAsPriced`, whatever is deployed |
| FlowProofs | `FlowAuditedOnFile` | `AuditedOnFile` |
| SessionStoreProofs | `TypeCorrect`, `ReadUntilExpiry`, `WritesOrdered`, `ErasureFinal`, `DeletionFinal` | the properties of the run `SessionStore` |
| PricingProofs | `TypeCorrect`, `InstalmentsSum`, `DeductiblesPay`, `PremiumsFollowRisk` | the properties of those names, whatever is deployed in engine and service |
| PricingProofs | `Replays` | `ReplayVouches`, whatever is deployed |
| AuditProofs | `TypeCorrect` | rows stay rows, events of a session racing or not |
| AuditProofs | `ChainAlwaysVerifies`, `VouchedAreRecorded` | `OneAtATime` implies that the chain verifies, and that what verification vouches for after any edits is what was recorded |

**What one handler does to a session** is proved once, in FunnelDomainProofs.
`SessionOK` is what a session satisfies at rest, `Follows(s, u)` that `u` is a step of the
contract away from `s`, and there is one lemma per operator of FunnelDomain.

**The funnel's invariant.** None of the properties is inductive: a session with a
quote but not in step `QUOTED` could be evaluated again, one with a verdict at
`COLLECTING_RISK` could have its risk changed under it. `Inv` adds what the step
table buys:

- `GatesMatchStep`: confirmation, consent and quote are there exactly from the
  step on that sets them. A correction that skips the table resets all three
  whenever it moves the step.
- `VerdictMatchesStep`: no verdict while the risk is collected; a favourable one
  with a quote.
- `CoverageChosen`: from `select_coverage` on no coverage field is blank, so the
  defaults `validateInputs` fills in change nothing between confirming and
  quoting, and a correction that changes the coverage is seen as a change.
- `QuoteCurrent`: the terms quoted are those on file.
- `ConfirmedOnFile`: those on file are those confirmed.
- `StampsOrdered`, `ConsentFresh`: consents used are past, the one at
  `READY_TO_QUOTE` is new.

The first four are, with the verdict being current, `SessionOK`, of the session alone; `Remembers` adds
what its history has to agree with. The heart is `CorrectedOK`: `CorrectionCases` splits a correction in three, and
`EvaluatedRisk` and `ChosenCoverage` show that what passes for no change is none,
because an evaluated risk and a chosen coverage have no blanks.

**The refinement** takes one lemma per operation, from `Inv` before and after it:
the operation is the contract's step of that name, or leaves the contract's three
variables alone.

`EveryQuoteAccounted` is inductive beside `Inv`: `QuoteOrder` of a session, its historical quotes and then the
active one, grows by the quote issued (`IssuedOrder`, `AdjustedOrder`) and is otherwise left alone
(`UntouchedOrder`, `CorrectedOrder`), also by a correction that retires the active quote.

**One request at a time, from the store.** `ServedAsOne` needs to know what a handler may write that still holds the
row as it is (`Serving`): what one request of Funnel makes of that row, with a stamp later than any on file, or
an identifier that none on file has. Both were handed out before they are written (`HandedOut`), so they
are later, and fresh, until the handler's own write; and a write leaves nobody else with the row in hand
(`WriteOutdates`): the version of the row is then above any version loaded, or there is nobody else. A handler
whose row was replaced meanwhile, or that dies, writes nothing. The operators of an instance are other symbols to the prover than those
they are copies of: `SameMove` to `SameCorrection` say that Funnel's are the engine's.

Of Funnel's properties three speak of its history, and FunnelEngine has no property for them: `QuotedAsConfirmed`,
`ConsentFollowsConfirmation` and `OneQuotePerConsent`. They are proved of the session on file with the invariant Funnel
has them from: `Remembers` is an operator on a session and a history, its lemmas in FunnelDomainProofs say what each
operation makes of the two, and FunnelProofs and FunnelServedProofs both apply them, the one to Funnel's session, the
other to `Stored` and what `Note` keeps (`Kept`). This version of the prover does not instantiate the theorems of a
module, only its definitions, or the refinement would have carried them over. `QuotesAccounted` is not among them: the mapping takes
`issued` from the session on file, and it would say nothing; `BooksNested` says of the engine which quotes are kept where.

`EngineProgress` checks `ServedInTurn` without crashes. The instance of `EnginePostgres` under `ServedSpec` adds those (152,332
states), and that of `EngineMemory` with one handler, `MaxClock = 4` and `MaxVersion = 20` corrections and adjustments (1,193,481 states);
both pass, and are no runs of their own.

**The engine.** `BooksOK` is about the shared state, `HandlersOK` about what each handler
holds: the copy it is about to write is `SessionOK` and `Follows` the one it loaded, the quote it
has yet to file is numbered, and one it is about to answer is in the history. Nothing in it says
that the copy is still current, so it holds over the map, which overwrites, as well. The version
column adds `VersionsOK`: a copy with the row's version *is* the row. That takes
`Versioned`, since `correctField` and `adjustQuote` count the copy's version up before
the store compares it, and with them it is false (`CorrectionRefused`). With it, the write
of a handler replaces the document it loaded (`Timely`). One request at a time has that too (`LoneOK`), over
either store and with every operation. Either way the stored session takes a step of the contract.

**The books.** `Ledger` says that whatever one of the books lacks of another is in the hands of a handler: a
quote the session shows and the history does not have is about to be saved (`Unfiled`), and one in the history without
its event is about to be audited (`Unaudited`). Handlers overwrite each other's documents, so it speaks of the copies in
flight as well (`CopiesFiled`): a copy shows the quotes of the document it was loaded from, and its own (`Prepared`). It takes
that no handler dies, or the hands that hold a quote would drop it. When nothing is in flight there are no such hands: that is
`BooksAgree`. The other half, that the session shows every quote of the history, is no part of it, because an overwritten quote
stays in the history; with `Timely` it holds, and is in `BooksNested`.

`BooksNested` is what crashes leave of that, and is proved without a word on them. `Nested` has it that each book
holds no more than the one written before it, and that a handler which files a quote has saved the session that
shows it (`NestedWritten`). Taking a handler away breaks none of this. It does take `Timely`: in memory, an
overwritten session may have lost a quote the history has.

**One sale.** Without corrections and adjustments a session is quoted once. `SoldOnce` says that every record, every
answer and every handler with a quote in hand names the quote on the row and its fingerprint under the rule version it was
calculated under (`OneSale`, `SalesOnFile`). The version column is what makes it inductive: of two calculations that found no
record, the row takes the first one's copy and refuses the second's. A crash takes handlers away and changes nothing of
what is left, so `OneAnswer` and `RepeatsAnswered` need no assumption about crashes.

**The flow.** `TurnOK` ties the node a turn is at to what its state has passed: a turn
at `calculate_quote` or behind it has a consent, no referral, and, unless an answer
strayed, a confirmation of the very input. `MarksOK` follows a quote from the call that prices it to its event.
The row satisfies what the turn that wrote it did (`RowOK`, `ShownOK`), which is why overlapping turns may
overwrite each other and never make up a quote.

`FlowLabels` ties the version a turn keeps from `evaluate` to the version active, or to the answer it awaits, unless the
turn is marked as having met a deployment since; `DeployMarks` is the step that keeps it.

`FlowAuditedOnFile` needs to know more while turns neither overlap nor die: `Alone` says that at most
one is in flight, that nothing is audited or on file while it works, and that what it is about to save
is what it audited. `Tied` says that a call belongs to a turn that awaits it, so that a failing call never
takes down a turn that has its quote.

**The stores.** `OneExpiry`: every copy of the document, on file, in flight or in
the hands of administration, has the expiry of the first save, so a late save
cannot prolong a session (`ReadUntilExpiry`; only `Handle` loads, `OnlyHandleLoads`). `Traceless` is
inductive beside it: administration that began with no handler in flight has met none
since, as a handler that loads meanwhile is on record as a disturbance (`AdminAlone`); it
leaves no email on file or in flight (`Erasure`), or no document at all, and the one
identifier is not started twice (`Deletion`).

`WritesOrdered` rests on `Ordered`: while the session lives, undisturbed, the row a handler loaded is
still there to compare with, since cleaning removes none that lives; its version is never
below the one loaded, and with the version loaded it is the row loaded (`Comparable`). A handler whose version is counted up
therefore passes the comparison when exactly one write came in between. The handler that
starts the session is the one that may find no row, and there is one of it.

**The audit log.** `Inv` has `Chained` (rows verify), `PendingExtends` (an event
on its way carries the last hash of the log) and `PendingAlone` (at most one per
session is). The last needs `OneAtATime`; without it `AuditFork` breaks the chain.

What verification vouches for (`VouchedAreRecorded`) needs a second invariant, `History`: edits move hashes about and make none
(`EditsKeepHashes`), so every hash in the table was recorded, and the hash of the k-th row covers k
events. The theorem then goes by the least row that is vouched for and was not recorded in its
place: its hash is its own, hence the hash of a recorded row, equal to it (`SealsDecide`); its
predecessor is in its place, hence so is it. The least element comes from the well-foundedness of the
numbers (`LeastOf`), which stands in for the induction the provers cannot do.

**Prices.** `TimesValue` and `ProductValue`: the digits lose nothing, so a product of the model is the
product of its factors. What the proofs need of a rule set is `WellFormed`: positive factors, in
tables that ascend from better to worse risks, and discounts that ascend. `RegistryWellFormed` has it of both
rule sets; of another one it would have to be shown again. A larger product is never rounded to less
(`CentsNear`, `LargerProduct`), and roundings of one product are at most a cent apart, which is the
tolerance of `DeductiblePays`. `Inv` says that the figures of a quote are those of its input under `priced`, and its digest
that of its figures, its input and its label. A digest that a replay reproduces therefore has the replay's figures; and where `priced` is
the label, the quote is one of the replays.

**Only model-checked.** Liveness under fairness (`ConsentedGetsQuoted`, `ConversationEnds`), which is out of the
prover's reach. Beyond the assumptions above, what fails is in section 5, with the constants that show it. That the
model multiplies as the code does (section 2, Pricing) was found by evaluation.

## 5. Divergences found

Each of the first four has a run that must fail; its counterexample is the story.

1. `FlowCorrection`. An answer merged while the flow waits at `select_coverage` or
   behind it changes the risk; `calculate_quote` evaluates it and looks at
   nothing of the verdict but its version. The customer gets a quote on a referred risk.
2. `CorrectionRefused`. `applyCorrection` counts the version up before PostgreSQL
   compares it: alone, a correction is refused as a concurrent modification.
   `adjustQuote` does the same.
3. `AdjustReplay`. The fingerprint of an adjustment includes the quote it
   replaces; its retry is refused as a conflict.
4. `AuditFork`. Two events of a session recorded at the same time fork the chain.

Others show when a constant of a passing run is changed, or a property restated, as said here:

- `EngineMemory` with `ClientKeys <- OneKey`: two calculations under one
  idempotency key, interleaved, both miss the record and return two quotes
  (`SameRequestSameQuote`). Without keys, the second of two interleaved writers overwrites a confirmation, a
  consent or a quote, which the contract does not know (`StoreKeepsContract`).
- `EngineMemory` with `Crashes = TRUE`: a quote may be in the session and not in the history, or in the history and not in the audit
  trail (`BooksAgree`). A crash between `saveSession` and
  `saveIdempotencyRecord` leaves a quoted session whose retry finds no record and is refused as out of step.
- A keyed calculation repeated when another rule version has become active is refused as a conflict of keys, although
  its quote stands: the version is in the fingerprint (`apps/mcp-server/src/funnel-engine.ts:330`). So is one repeated after an adjustment that changed the
  coverage. `EnginePostgres` shows the first if `CalculateRepeatAnswered` is stated without the rule version (`arg`) in `Repeated`.
- `EnginePostgres` with `Corrections <- SomeCorrections`: a correction succeeds
  exactly when one other request wrote meanwhile, and overwrites it
  (`NoLostUpdate`). In memory the second of two interleaved writers always
  overwrites the first.
- `READY_TO_QUOTE` is reached without a verdict: a coverage correction assigns
  `COLLECTING_COVERAGE` from any step (`packages/domain/src/state-machine.ts:229`), past the evaluation that
  `docs/VERIFICATION_MATRIX.md:11` puts before it. The customer confirms and consents, and no
  calculation is accepted until a risk field is corrected.
- `FlowTurns` without `~s.quote.rolled` in `LabelledAsPriced`: a deployment between the two calls of a quote
  labels it with one version and prices it under the other, as
  `calculate` drops the version that comes with the price (`packages/rules/src/pricing-port.ts:119`).
- `FlowTurns` without the condition on overlaps or on crashes in `AuditedOnFile`: two turns may each calculate,
  and the row keeps the later one's quote while both are audited; a crash between `recordEvent` and
  `set` leaves an audited quote nobody has.
- A repeated calculation without a key misses its record once the version has been
  counted up, since the derived key holds it (over PostgreSQL the quoted session's
  own save does that, in memory any later correction that changes nothing).
- `docs/decisions/ADR-005-rule-versioning-and-deterministic-replay.md` promises that every historical quote replays
  with full parity. `Pricing` shows two ways in which one does not (state `quote # NoQuote => quote \in replayHistoricalQuote(quote)`
  as an invariant): an adjustment keeps the label of the quote it replaces while the port prices under the version active by then
  (`apps/mcp-server/src/funnel-engine.ts:524`); and with the HTTP adapter the label is the engine's (line 319) and the price the service's
  (line 380), which differ as long as the two processes do. What does hold is `ReplayVouches`: the replay reports such a quote by
  `isHashMatch = false`, and never vouches for it, unless both versions come to the same figures.
- `ErasedStaysErased` and `DeletedStaysDeleted` without `~disturbed`: a handler
  in flight across an erasure saves the email again, over PostgreSQL too, since the
  erasure does not count the version up; one in flight across a deletion inserts
  the session again. The session it inserts behind an expiry is not read
  (`ExpiredUnread`).
- Expiry takes the session away and leaves its quote history and its idempotency
  records, which have the email in them; `docs/procurement/03-retention-and-deletion.md`
  has it purged with the session, and replaced by a mark where the code deletes it.

Read in the code, without a run of their own: the flow suggests "true", "false" and "3+" to the customer and
takes what comes with `Boolean()` and `Number()` (`waniwani-flow.ts:216`, `build-validated-quote-input.ts:30`), so that
"false" is a primary residence and "3+" no number; the confirmation may be given before it is asked for, or taken back; a
postcode that `collect_risk` deleted is not asked for again if a later turn answers something else; the flow audits under the session
identifier of the request or, without one, a random one, and its quote never reaches the session store.

## 6. What is not modelled

- Failing pricing calls under the *engine*: its handlers await the port before they write
  anything, so one that fails is a request refused. `adjustQuote` does not evaluate eligibility again;
  the risk it prices has not changed since (`EligibilityCurrent`), and both rule
  sets referring the same risks, a deployment changes no verdict. Hence no
  calculation turns to `REFERRED` behind a favourable verdict, and `EligibleRisks` is one set for both versions in
  the flow too.
- The inside of the flow library (section 2 says what is assumed of it), a "start" in the middle of an existing
  conversation, which the library decides about, and the expiry of the conversation's row.
- The public routes of the pricing service, which keep no state and which nothing here calls.
- `generateQuote`, which the engine does not call; `createSession` of the stores,
  which only tests call. Idempotency records expire after thirty days, sessions
  after one hour, so no live session outlasts its records.
- The operational tools of the MCP server beyond the shape of what they pass on: each parses its arguments and calls one
  engine operation. The HTTP transport and its sessions belong to the protocol library.
- Redaction, sanitizing, data classification: pure functions on text and names, on
  which none of the properties depends. `clear`, queries by correlation
  identifier, the demo and evaluation scripts, migrations: no state the properties
  relate.

## 7. Plan

Done: all modules of section 2, their runs, and the proofs of section 4. What is left, in this order:

1. **Retries across crashes**: an abstract store of requests and
   answers that FunnelEngine implements without crashes and does not with them.
2. **The flow library**, should its source come into the repository: the assumptions of section 2 as
   a module of their own.

## 8. Running it

    tlc -workers 2 -config Funnel.cfg MCFunnel
    tlc -workers 2 -config EnginePostgres.cfg MCFunnelEngine
    tlc -workers 2 -config EngineMemory.cfg MCFunnelEngine
    tlc -workers 2 -config EngineProgress.cfg MCFunnelServed
    tlc -workers 2 -config AuditSerial.cfg MCAuditChain
    tlc -workers 2 -config FlowTurns.cfg MCWaniwaniFlow
    tlc -workers 2 -config SessionStore.cfg MCSessionStore
    tlc -workers 2 -config Pricing.cfg MCPricing
    tlapm FunnelProofs.tla
    tlapm FunnelDomainProofs.tla
    tlapm FunnelEngineProofs.tla
    tlapm FunnelServedProofs.tla
    tlapm FlowProofs.tla
    tlapm SessionStoreProofs.tla
    tlapm AuditProofs.tla
    tlapm PricingProofs.tla

`PROJECT.json` lists every run with its module, configuration and properties, maps
every definition to the lines it models, and names for every property a
plausible bug (the operators marked `mutant`) that TLC must find with it.
