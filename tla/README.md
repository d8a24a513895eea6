# Travel expense settlement: a verification project

TLA+ models, TLC runs and TLAPS proofs for the Nortex travel expense service
(`backend/src/expense_api`). An employee's trip collects evidence (mails and uploaded
bills), the service turns it into a draft settlement claim, the claimant submits it, and
the approvers its value calls for approve, return or reject it, Finance last.

Three things are hard to get right here, and the project takes them in this order. The
*protocol* of a claim: who is asked, in which order, about which figures; what survives a return
and a resubmission; what an approver's stale screen, a double click, a failed request or a
restart can do to it. The *evidence* behind it: files, rows, cached texts and typed corrections,
changed by requests that overlap. And the *money*: readers, duplicates, taxes, caps and sums
that each look right alone and have to add up together.

## 1. Inventory

Paths are relative to `src/backend/src/expense_api`.

| Part | State it keeps | Operations | Correct when |
|---|---|---|---|
| claim lifecycle, `claims/lifecycle.py` | none: seven states, ten transitions | `assert_transition`, `check_can_submit`, deadlines, payment run dates | no handler leaves the table of transitions; the table lets every submitted claim reach an end |
| approval routing, `approvals/routing.py` | none: reads the employee master and the matrix | `ancestors`, `roles_for_value`, `resolve_chain` | levels go to people above the claimant, nearest first; broken lines are refused and others never; more money never means fewer levels |
| approval decisions, `approvals/service.py`, `approvals/router.py` | `approval_step` rows; status, version and `returns` of `settlement_claim` | approve, reject, return; pending and acted queues | decided in order, once per step, on the figures on record; status and steps agree |
| submission, `claims/materialise.py`, `claims/router.py` | `settlement_claim`, `claim_line`, `approval_step` | create trip, upload, remove, correct, withdraw, submit, read | one chain at a time; what was submitted is what everyone is shown; history survives resubmission |
| withdrawals, `claims/withdrawals.py` | a dictionary of the process | `withdraw`, `withdrawn` | a restart may forget them but never change a submitted claim |
| claim pipeline, `claims/pipeline.py`, `drafting.py`, `attribution.py`, `summary.py` | writes `extraction_status` back to documents | `build_claim` on every read of a draft | each bill counted once, and in whole or not at all (section 5 says where not); the figures settled are those the lines were allowed |
| notifications, `notifications/` | `notification` rows | told on submission and decision; list, mark read | whoever the claim waits on knows; the claimant always knows |
| audit trail, `db/audit.py`, `ClaimEvent` | `claim_event` rows, append-only by trigger | record | the trail accounts for the claim's version and status |
| policy engine, `policy/` | none while it runs but the day's meals so far; versioned parameters | rules per category, tax apportionment | no line loses more than it is worth; a day's meals share one cap; shares add up to the tax exactly |
| evidence store, `evidence/` | `evidence_document` and its lines, files on disk | store, upload, delete, correct, deduplicate, reconcile | rows and files agree; a correction is not lost; a receipt that came twice is paid once |
| extraction and classification, `evidence/extractors/`, `classify.py`, `ingest.py` | the cache of image texts | classify, find figures, check them against printed sums, fall back | the figures claimed for a bill are its own and add up to what it prints |
| identity, `identity/` | none | header to employee | the guards of the actions |
| demo reset, `demo/` | deletes everything, clears uploads, lifts the append-only triggers meanwhile | reset | rows, files and triggers are all as seeded afterwards |
| seed, `seed/`; glue, `main.py`, `config/`, `handlers/` | the rows and the cache the service starts with | seed, warm the cache | what the models start from |
| export, `export/`; frontend; migrations | — | — | not modelled, see section 8 |

**How they interact.** All of it is one FastAPI process over one SQLite file. A request has
a session of its own, which keeps the rows it has read and commits once at the end; between
its `await`s other requests run. The driver opens a transaction only with the first write and
SQLite lets one writer in at a time, so a handler writes from the rows as it read them, whatever
was committed since. An UPDATE names a row by its id only. Reading a draft runs the
pipeline, which calls the policy engine and routing; submitting writes the pipeline's result
down, and from then on the rows are served. Deciding reads the claim's rows and writes the
step, the claim, the trail and the inboxes. Withdrawals and the cache of image texts are shared
memory; the upload directory is shared too, and no rollback reaches it.

**Hard behaviours.** An approver's screen is older than the claim (a version number is
compared, optimistically); two requests read before either writes; a claim returns and is
submitted again with a different value, hence a different chain, while old steps stay in the
table; levels that nobody fills; a reporting line nobody has validated; a restart forgetting
withdrawals while the claim is out; a request failing between read and write, or between a file
and its row; a path and a row id that are given out a second time while somebody still holds the
first; several rules that take from one line, and several meals that share one cap. `PROJECT.json`
lists each, with its line and the properties that would catch it, under `hazards`.

## 2. The modules

| Module | Models | Built on |
|---|---|---|
| `Lifecycle` | the vocabulary: statuses, transitions, decisions, roles, `CheckCanSubmit` | — |
| `Routing` | reporting line, role search, matrix bands, `ResolveChain` | `Lifecycle` |
| `RoutingCases` | routing over every organisation, with its properties | `Routing` |
| `ClaimWorkflow` | one claim through drafting, submission, decisions, returns | `Routing` |
| `SettlementPromise` | what a claim promises, with no tables, versions or rounds | — |
| `ClaimRequests` | `ClaimWorkflow`'s handlers with their requests in flight | `ClaimWorkflow` |
| `Evidence` | a draft's bills: files, rows and figures, with requests in flight | — |
| `Reading` | what a bill is read as, and its tax on its charges | — |
| `PolicyEngine` | what a line is worth under the policy | — |
| `Settlement` | the draft claim that a trip's evidence comes to | `Reading`, `PolicyEngine` |
| `Induction_proofs` | lemmas on sums, sorted sequences and recursive functions, by induction | — |
| `Routing_proofs` | bands, levels, and the walk up a reporting line | `Routing`, `Induction_proofs` |
| `RoutingCases_proofs` | routing's four properties, for every organisation | `RoutingCases`, `Routing_proofs` |
| `ClaimWorkflow_proofs` | type correctness, the chain invariant, and what follows from it | `ClaimWorkflow`, `Routing_proofs` |
| `ClaimStory_proofs` | order, status, trail and messages tell one story; nobody below Finance is asked about themselves; the refinement | `ClaimWorkflow_proofs` |
| `ClaimRequests_proofs` | all of that again, with requests in flight | `ClaimRequests`, `ClaimStory_proofs` |
| `Evidence_proofs` | rows keep their file, figures their bill, corrections their author | `Evidence` |
| `Settlement_proofs` | bills are claimed whole; what is left of a line and of a day; the net | `Settlement`, `Induction_proofs` |
| `MCRouting`, `MCClaimWorkflow`, `MCClaimRequests`, `MCEvidence`, `MCSettlement` | instances for TLC | the above |

The two halves meet in `ClaimWorkflow`'s constants: the status and allowed amount it is given for
each line are what `Settlement` computes, and its `Upload`, `Remove` and `Withdraw` are the
committed effect on the draft of what `Evidence` and `Settlement` take apart.

An operator whose comment starts with "Faulty:" is a plausible mistake in the code next to
it. No specification uses it; it is put in the place of the operator it precedes to see that
a property notices.

### Lifecycle, Routing

`Transitions` is `TRANSITIONS` row by row. `Line(dir, e)` is the walk of `ancestors()`, by
the recursive function `up`, `e` at 0; `LineBroken` is its two `RoutingError`s. `Nearest` is
the search in `resolve_chain` for the nearest holder of a role; `NoOne` is a skipped level.
`FirstFinance` is `_first_finance`. A matrix is a sequence of bands; `RolesForValue` is the
first that covers the value and `Covered` says that `roles_for_value` does not raise. Codes
are naturals, which keeps "lowest code"; amounts are naturals in a unit the instance chooses.

### ClaimWorkflow

| Variable | Code |
|---|---|
| `claimant`, `draft` | `travel_request.employee_id`; the lines its evidence carries |
| `withdrawn` | `withdrawals._WITHDRAWN` |
| `status`, `version`, `returns` | the `settlement_claim` row |
| `frozen` | its `claim_line` rows |
| `steps` | the `approval_step` rows of every round |
| `inbox`, `trail` | `notification` rows; `claim_event` rows that name the claim |
| `shown` | the version and figures each approver's screen last rendered |
| `signed` | history variable: the figures each approval was given to |

| Action | Handler |
|---|---|
| `Upload`, `Remove`, `Withdraw` | `upload_document`, `remove_document`, `withdraw_line` of `claims/router.py`, with `_require_own_draft` |
| `Restart` | loss of the process's memory |
| `Submit` | `submit_claim`, `build_claim`, `materialise.submit` with `_clear_lines`, `_write_lines`, `_write_chain`, `notify_submitted` |
| `Look` | `get_claim` for an approver, which serves rows once submitted |
| `Approve`, `Reject`, `Return` | `decide` of `approvals/router.py` with `record_decision`, `_target_status`, `notify_decided` |

Each action is a handler run to its commit. A request that is refused changes nothing and is
not a step. A *line* stands for every bill line with one description, because that is what
`withdraw_line` names; its policy verdict and allowed amount are constants (`Settlement` has
what computes them). The trail holds the events that carry the claim's id: those of a draft's editing
carry the trip's only. Levels are routed with `international = FALSE`, because `build_claim`
does not pass it.

### ClaimRequests

The same handlers in two or three steps: what a request reads, then what it writes from what
it read. `open[r]` is what request `r` holds. A filing opens an edit (`OpenEdit`, the check
that the claim is a draft) and later writes it (`WriteEdit`), or evaluates the evidence
(`EvaluateDraft`), loads the claim (`LoadForSubmission`), and writes (`WriteSubmission`). A
decision checks everything on the row it reads (`OpenDecision`) and writes later
(`WriteDecision`). Writes follow the ORM: only a column whose value differs from what was
read is sent, so a status that stays as it was read is not written, while `version` is. The
operators of `ClaimWorkflow` are applied to the row a request holds through
`Seen(row) == INSTANCE ClaimWorkflow WITH status <- row.status, ...`. `FreeOf` is the unique
constraint on (claim, round, sequence). `Fail` rolls back any request; `Crash` loses them all
and the withdrawals. A read is one snapshot, and a request's writes are one step (SQLite has
one writer).

### SettlementPromise

The claimant files figures and thereby a set of levels; the levels agree one at a time, in
order, to exactly those figures; the last agreement settles; whoever's turn it is may send it
back, which voids every agreement, or refuse it for good. `ClaimWorkflow!Promise` maps the
tables to it: `asked` is the sequences of the current round that somebody fills, `agreed` the
approved ones among them, `figures` the rows on record, `phase` a reading of the status.

### Evidence

| Variable | Code |
|---|---|
| `files` | the upload directory, and the one mail of the pack that is an image |
| `rows` | `evidence_document` rows by id, with who their figures come from and whose lines they hold |
| `cache` | the `lru_cache` of `ocr_image`, by path |
| `open` | what each request in flight has read so far |
| `used` | the bounds |
| `freed`, `dangling` | history: paths that were unlinked, and those unlinked under a row |

| Action | Code |
|---|---|
| `Upload`, `SaveUpload` | `upload_document`, `store_upload`: `_unique_path` and the write; the commit of the row |
| `Remove`, `SaveRemoval` | `remove_document`, `delete_upload`: the unlink; the commit of the deletion |
| `Correct`, `SaveCorrection` | `correct_document`, `corrections.apply`: load and check; the commit |
| `LoadDocuments`, `ReadDocuments`, `SaveReading` | `build_claim` on any read of a draft: select; locate, read and cache; write back |
| `ResetRows`, `ClearUploads` | `reset_demo`: the commit; `_clear_uploads` |
| `Fail`, `Restart` | a rollback, which no file takes part in; a new process, with `warm_cache` |

A coroutine runs to its next `await`, so naming a file and writing it is one step and committing
its row another. A commit writes only columns whose value changed since the row was loaded
(`Written`), by the row's id, whatever the row has become. Ids come from SQLite without
`AUTOINCREMENT`: a new row gets the highest id plus one, so the id of a removed bill is given out
again (`NewId`). A photograph stands for its text; `Readable` are those whose text becomes
figures that add up. `typed` is the set of corrections whose lines a row holds.

### Reading, PolicyEngine, Settlement

A *bill* is a record of what is printed on it, as far as reading it tells apart: kind, rows, sub
total, total, taxes, who it names, how it was paid; and of the message it came in, its sender. Finding
those in text is left out; what each reader then makes of them is not. `MerchantOf` is whom its
charges are taken to be from: the bill's own word for some readers, the sender's name for others. `ReadRide`, `ReadFlights`, `ReadFolio`, `ReadRestaurantBill`
and `ReadGeneric` are the extractors, `Reconciles` the check under all of them, `Extract` the
choice between the specific reader and the generic one. `WithTaxShares` is the pipeline's tax
on the charges, `ApportionTax` with its rounding and residue.

`PolicyEngine` has each rule as what it takes off a line (`OverTariff`, `OverDailyCap`,
`NonReimbursable`) or when it holds it (`LacksAttendees`, ...), and `EvaluateOne`, which adds them
up and stops at what the line is worth. Parameters are constants; `NoLimit` is a parameter that
a policy version does not have.

`Settlement` runs `build_claim` over the bills in `bills`:

| Action | Code |
|---|---|
| `Draft` | documents in order of their names to entries, duplicates dropped, entries to lines |
| `Judge(i)` | one turn of `evaluate_lines()`: the oldest line left, its outcome, the day's running total |
| `Settle` | `summarise()` with the nights no stay covers |
| `Withdraw`, `Forward` | between two evaluations: a description taken off; a receipt that comes a second time, in a message of the vendor's or of somebody's who forwards it. The second is the environment's step: no handler, but mail |

`lines`, `outcomes` and `claimed` are the local variables of the loop, `summary` its result,
and `before` and `change` say what the last evaluation came to and what has changed since.

## 3. The runs

| Run | Module, cfg | What it shows |
|---|---|---|
| `workflow` | `MCClaimWorkflow` | 14 properties of a manager's claim: held and withdrawn lines, three bands, a skipped level, a return, a resubmission at another value; one of them, `ClaimsMoveOn`, under fairness |
| `routing` | `MCRouting` | 4 properties of routing on every organisation of three people |
| `requests` | `MCClaimRequests` | 7 properties with two filings and a decision in flight, failures and crashes |
| `evidence` | `MCEvidence` | 4 properties of bills with two requests in flight, failures, restarts and a reset |
| `settlement` | `MCSettlement` | 8 properties of what a trip's bills come to, before and after two changes |
| `stuck` | `MCClaimStuck` | finding: a claim whose levels are all skipped cannot be approved |
| `own` | `MCClaimOwn` | finding: the controller verifies their own claim |
| `desk` | `MCClaimDesk` | finding: a rejected claim stays in the next approver's queue |
| `gap` | `MCRoutingGap` | finding: a value between two bands has no chain |
| `twice` | `MCClaimTwice` | finding: two decisions land on one step |
| `retake` | `MCEvidenceRetake` | finding: a photograph is claimed at the figures of the one before it |
| `forwarded` | `MCSettlementForwarded` | finding: a folio that the claimant forwards is paid twice |

### What the properties say

*Workflow.* `OneLiveChain`: (round, sequence) names one step, a step is superseded exactly
when its round ended by a return, a draft waits on nobody. `DecidedInOrder`,
`StatusMatchesChain`: nobody overtakes; the status column and the steps, which a decision
writes separately, agree. `ApprovedFiguresStand`: every approval in force was given to the
figures on record, not to others on an old screen. `VerifiedWasEarned`: a verified claim has
such an approval from every level its value needs and somebody fills. `FrontCanApprove`, that the
step the claim waits on is addressed to a person whose approval `TRANSITIONS` accepts, is false
(finding 1); `StuckExactlyWhenUnasked` says when: it holds of a claim with the approvers exactly
if somebody below Finance is asked.
`BusinessLevelsAreOthers`: below Finance nobody is asked about their own claim.
`TrailAccountsForClaim`: one event per version, the last naming the status.
`HistoryStands`, `FiguresHoldStill`, `EveryoneIsTold` are action properties: a recorded
decision never changes; the figures of a submitted claim never move; the claimant hears of
every change and the approver it comes to is told last. `KeepsPromise` is the refinement.
`ClaimsMoveOn`: a claim that is with the approvers, and that somebody below Finance was asked
about, is so no more at some later time. The exception is finding 1's claim, which the same run
reaches; it is checked here because a manager's claim has both kinds of chain.

*Routing.* `BrokenLinesAreRefused` compares the walk with `Above(a)`, the smallest set that has
a's manager and the managers of its members: refused exactly when a cycle or a missing code can
be reached. `LevelsComeFromAbove` does so for the nearest holder of each role. `LevelsAscend`: no level
twice or out of order, international travel included. `MoreMoneyNeverShedsALevel` compares a
claim's chain before and after its evidence changes.

*Requests.* The invariants of the atomic model are checked again where handlers interleave,
where they rest on the unique constraint (the mutant `FreeOfAlways` breaks four of them).

*Evidence.* `RowsHaveTheirFile`: behind every row is the photograph that was uploaded for it,
and no other row has it, however uploads, removals and a reset overlap and fail, *as long as
nobody unlinked the file under a row*. The code does do that: removal unlinks before it
commits, and a reset commits before it unlinks. `dangling` is exactly those paths; the property
says that nothing else separates a row from its file, which rests on `_unique_path` looking at
the files rather than at the rows. `FiguresAreOwnUnlessFreed`: the figures found for a bill are
its own photograph's under a path that was never given out before; `FiguresAreOwn`, without
that exception, is the finding `retake`. `CorrectionsStand`: figures entered for a bill that
cannot be read survive every read that was under way, every failure and restart; what they rest
on is that a read never names an extractor for a bill it could not read. It excludes rows
whose id a request already held from a bill that had gone (`fresh`), since that request's
write does reach them.

*Settlement.* `WholeBillIsClaimed`: the lines drafted from a bill come to its printed total, tax
residue included, short of exactly the charges that an equal one before them on the same bill
stands for, or there are none; and a folio found not to add up is not taken at its total by the
fallback. The two rooms of one price in the run's folios are that exception (section 5): the
property says that it is the only way in which a bill is understated. `NeverMoreThanTheBills`: no
claim exceeds what the claimant's own bills print, each counted once under each merchant that its
charges are read as. `ForwardsUnderOneNameArePaidOnce`: a receipt that comes again, before or after the
first, as itself or as a forward, changes no figure where its merchant is still the same, unless
it passes for another receipt. `Apart` excludes such twins, here and in `WholeBillIsClaimed`, and no trip of
the run has any, which `NoTwins` asserts. Without the words on the merchant both would be false
of a receipt that the claimant forwards: `ForwardsArePaidOnce` says so much, and is finding 7.
`RunningTotalWithinCap`, `DayIsCapped`: the total carried from meal to
meal stays within the cap, and a day is allowed exactly the smaller of cap and cost, so that a
meal which is not paid does not use the cap up. `NetIsWhatIsAllowed`: gross less disallowed,
derived over two different filters, is the sum the lines were allowed. `WithdrawingNeverPaysMore`:
room made under a cap never brings more than the withdrawn line took.

### Bounds, and why they are enough

- `MaxReturns = 1`: two rounds. Everything a round does to another (kept rows, numbers,
  superseding, a stale screen of the round before) needs two. The proofs have no bound.
- `workflow`: the seven people of the employee master that can own or decide a claim, and
  revision 4's matrix in thousands. The claimant is a Reporting Manager, so that one level is
  skipped; three bills, one held until withdrawn and one uploaded, put the claim in the band
  of one level (the skipped one, so that the claim is stuck), of two or of three, and withdrawing
  moves it between them. `stuck` is the same model with fewer bills.
- `desk`: an ordinary employee, one or two levels and Finance. `own`: the
  controller, with bills that take the claim to a head of division, the first level the
  controller's line has.
- `routing`: all managers and roles for three people, among them cycles with and without the
  claimant, self-management and a code the master lacks; three is the smallest size with a
  cycle of two people above the claimant, which never comes back to the claimant. The claimant is fixed: renaming people matters only to
  `FirstFinance`. A foreign key keeps missing codes out of the database; `ancestors` defends
  against them and its tests try them, so they are included. `MaxDepth = 4` exceeds every line
  here; the cap itself is planned. Values lie on both ends of the first band, at the lower end of
  every other, and between the first two (5, which stands for 25000.50).
- `requests`: one level and Finance, two bills, two filings and one decision. One decision slot
  is an assumption the code does *not* enforce: `twice` uses two slots and shows what happens.
  What `requests` shows is that no other interleaving of these requests, no failure and no
  crash breaks the seven properties.

- `evidence`: two requests, which is every pair of steps of two handlers; two photographs with one
  camera name, one of them readable, and one image in the pack; two names, so that names run out
  (a refused upload) and are given out again; two uploads, one correction, one reset, and three of
  these together, in any order with any number of removals, reads, failures and restarts. Two
  corrections would double a bill's lines, which corrections.py claims it prevents; section 5
  has that. The requests are interchangeable and the run uses their symmetry (1,073,002 states).
  The proofs have no bound.
- `retake`: one request at a time, no reset. It needs nothing more.
- `settlement`: three nights, and 74 trips: a base of bills that brings every way of settling a
  line (a withdrawn line, a colleague's, the company's, one corrected by hand, one of an unknown
  vendor) with every folio of a family of 36 that varies rooms, a third charge (one that is never
  paid, or none, or one whose amount cannot be read) and the sums (taxes, a discount, sums that do
  not add up or cannot be read); and two trips with no folio, one with mail that is no bill. The cap
  of a day's meals (10) lies between one meal and two, the tariff (6) between the nightly prices of
  the two kinds of room, the other limits and the advance (30) each inside the range the amounts
  take. A receipt comes again from whoever it was from, or from the claimant, under a file name
  before all others or after. Two changes: what one change does to the effect of another (a forward
  of a withdrawn line, the second line under a freed cap, a withdrawal after a forward that is paid
  again) needs two (518,561 states).
- `forwarded`: the smallest trip with both kinds of bill whose merchant is the sender, a folio and
  a lunch, and one change.

`routing`, `gap`, `evidence` and `retake` check for deadlock. The others do not: a claim that is
verified or rejected, or that nobody chooses to act on, really does stop, and so does a
settlement once its changes are used up.

### Fairness

`FairSpec` is weak fairness of `Look(u)` and `Approve(u)` for each approver. Nothing in the
program makes a person act and there is no timer; the assumption is theirs: each keeps opening
what is routed to them and keeps approving what they are shown. Under it `ClaimsMoveOn` says
that the *program* never stands in the way of a claim that somebody below Finance was asked
about: no step is addressed to nobody, no approval is refused for its target status, and no
screen is stale forever. Of a claim that only Finance is asked about it says nothing, because
finding 1 is that the program does stand in the way of that. Nothing is assumed of the claimant,
of returns, or of rejections. The run's specification is `FairSpec`; fairness takes no step away, so
that its safety properties are checked on every behaviour of `Spec`.

## 4. What is proved

From which assumptions:

- *Claims.* For every directory, matrix, set of bills and number of returns that `WorkflowAssumption`
  and `MaxDepthAssumption` admit: positive employee codes, some Finance employee, roles and
  bands of the right shape with at most four business levels each, verdicts and amounts for
  every line. Finance being staffed is what `_first_finance` needs, and the seed provides it.
- *Requests.* The same, and any number of filings, decisions and screens in flight, *as long as no
  two decisions are open on the claim at once* (`OneDecisionOpen`, a hypothesis of each theorem).
  The code does not enforce it, and the finding `twice` is what happens without it.
- *Routing.* For every finite organisation, broken or not, and every matrix that is laid out as the
  published one is (`MatrixAssumption`): a later band begins no lower and asks for no fewer
  levels, and each asks for the first so many of the full chain. Nothing in the matrix's loader
  checks that; a matrix laid out otherwise would shed levels as a claim grows.
- *Evidence.* For every set of photographs, names and requests and every bound that
  `EvidenceAssumption` admits.
- *Settlement.* For every policy that `PolicyAssumption` admits and every trip that
  `TripsAssumption` does: finitely many bills, each a file of its own, whose figures are natural
  numbers where they could be read. `TaxCanBeShared` asks two things of a folio that adds a tax: that its
  sub total is not zero, for which `apportion_tax` raises, and that some charge is worth the
  rounding of all the shares, half a unit each. A folio of dozens of charges of a paisa or two is
  not; there the residue may make a line negative.

| Theorem | Property |
|---|---|
| `TypeCorrect` | `TypeOK` |
| `ChainCorrect` | the inductive invariant `ChainInv` |
| `ChainIsOne` | `OneLiveChain` |
| `FiguresStand` | `ApprovedFiguresStand` |
| `VerifiedIsEarned` | `VerifiedWasEarned` |
| `HistoryIsKept` | `HistoryStands` |
| `FiguresAreHeld` | `FiguresHoldStill` |
| `LevelsAreOthers` | `BusinessLevelsAreOthers` |
| `PromiseIsKept` | `KeepsPromise`: the workflow implements `SettlementPromise` |
| `LevelsDecideInOrder` | `DecidedInOrder` |
| `StatusTellsTheChain` | `StatusMatchesChain` |
| `OnlyUnaskedClaimsStick` | `StuckExactlyWhenUnasked`, if the matrix leaves Finance to the last level |
| `TrailTellsTheClaim` | `TrailAccountsForClaim` |
| `NobodyIsForgotten` | `EveryoneIsTold` |
| `RequestsMoveTheClaim` | requests in flight move the tables as the atomic handlers do |
| `RequestsTypeCorrect` | `RequestsTypeOK` |
| `RequestsKeepOneChain`, `RequestsKeepFigures`, `RequestsTellTheChain`, `RequestsTellTheTrail`, `RequestsHoldFigures`, `RequestsKeepThePromise`, `RequestsKeepTheRest`, `RequestsStrandNoOther` | the workflow's properties, with requests in flight |
| `BrokenLinesRefused` | `BrokenLinesAreRefused` |
| `LevelsFromAbove` | `LevelsComeFromAbove` |
| `ChainsAscend` | `LevelsAscend` |
| `MoreMoneyAsksNoFewer` | `MoreMoneyNeverShedsALevel` |
| `EvidenceTypeCorrect` | `EvidenceTypeOK` |
| `RowsKeepTheirFile` | `RowsHaveTheirFile` |
| `FiguresStayOwn` | `FiguresAreOwnUnlessFreed` |
| `CorrectionsAreKept` | `CorrectionsStand` |
| `LinesAreSplit` | allowed and disallowed are within a line's worth and add up to it |
| `SettlementTypeCorrect` | `SettlementTypeOK` |
| `DaysStayCapped` | `RunningTotalWithinCap` |
| `DaysArePaidInFull` | `DayIsCapped` |
| `NetIsAllowed` | `NetIsWhatIsAllowed` |
| `BillsAreClaimedWhole` | `WholeBillIsClaimed` |
| `ClaimsAreCovered` | `NeverMoreThanTheBills` |
| `WithdrawalsNeverPay` | `WithdrawingNeverPaysMore` |
| `ForwardsNeverPay` | `ForwardsUnderOneNameArePaidOnce` |

**Types.** `TypeInv` adds `Addressed` to `TypeOK`: a pending step is addressed to an
employee. Without it a message might be sent to nobody, and `TypeOK` is not inductive.

**The chain.** None of the properties is inductive. That an approval was given to the figures
on record depends on the approver's screen, whose figures mean nothing unless its version is
the claim's; and that depends on every change moving the version. `ChainInv` therefore
conjoins: `OneLiveChain`; `RoundsSoFar` (no step is of a round that has not begun);
`LiveDecisions` (what the steps of the round in force may say in each status);
`VerifiedWaitsOnNobody`; `SignedRounds` (approvals name rounds so far); `Screens` (no screen
is ahead of the claim, and one at its version shows its figures);
`ApprovalsSigned` (each approved step that somebody fills has its approval);
and `LevelsWritten` (each level its value calls for has its row). One lemma per
action shows it kept; `VerifiedWasEarned` then follows, since a verified claim has no pending
row, each row of its chain is there, and each is approved and signed.

**Not one's own.** Routing refuses a line that leads back to the claimant, so nobody found on
it is the claimant (`NearestIsSomeoneElse`); only Finance is found elsewhere. The finding
`own` is that exception.

**The refinement** needs `ChainInv` and `WithinLevels` (a sequence is one of the promise's
levels). `ItIsTheirTurn` maps the front step to the abstract turn; an approval agrees, a
rejection refuses, a return sends back, a submission files, and all else stutters.

**The claim's story** (`ClaimStory_proofs`) rests on one fact about a decision, `Decides(s, r)`:
the round's rows change by `s` alone, which was its front step, and what is pending afterwards is
what comes later than `s`. Order is then kept because nothing below a front step is pending;
`StatusInv`, the part of `StatusMatchesChain` that is not in `ChainInv`, because a submission opens
a front step (Finance's level ends every chain) and a decision either leaves one or ends the
claim. The trail is kept by counting: each action that moves the version adds one event, and
`returns` moves with a returned one. `EveryoneIsTold` is an action property: each message sent is
an addition to the inboxes, and the last one goes to the front step of the new state, which
`FrontIsOne` makes unique.

`OnlyUnaskedClaimsStick` delimits finding 1, for every organisation whose matrix leaves Finance to the end
(revision 4's does, which the run asserts): `FinanceInv` says that Finance is the last live level and
waits as long as the claim is with the approvers, that a claim in `pending_approval` still waits on
somebody below Finance if anybody there was asked, and that `pending_finance` is reached only through
such a level. So a front step of a business level always has a later one to go to, and Finance's
approval is refused only where no level below it ever made the move to `pending_finance`.

**Requests in flight** (`ClaimRequests_proofs`). The proofs above are about `Moves`, which is the
workflow's `Next` with two of its steps allowed more: evidence that is edited whatever the status
(`Edited`, a late upload), and a submission of any outcome of which the claim's lines are some
state's (`Files`). `Moving` is the specification with those steps. What is left to show is that
every write of a request is one of them (`RequestsMoveTheClaim`), although it is made from rows read
earlier: `RequestsInv` says of each request in flight what its rows still have to do with the
tables. A decision's row is the claim's, because no other decision came between and a submission
needs a draft; a submission's row is a draft of this round or its first step is already taken,
in which case the unique constraint refuses it (`FirstLevels`: each round submitted has a first
level). From `Moving` each property follows as it does for the workflow.

**Routing** (`RoutingCases_proofs`). The walk is `Line`; `Above` is the least set closed under
"manager of". That both say the same takes an induction for each direction (`AboveIs`) and a
counting argument: a walk of more steps than the master has people meets someone twice
(`MetSoon`), so that a line which neither ends nor leaves the master comes round again within the
cap (`ComesRound`, `BrokenIs`). `NearestAbove` is the same for the nearest holder of a role.
`RequiredIs` unfolds the merge of a band's levels with the international ones, level by level.

**Files and figures** (`Evidence_proofs`) take four layers, each using the one below. `Shapes`: types
of rows and of what requests hold; the pack's bill is row 1 and nobody else has its path; the ids
are bounded, which gives `NewId` a meaning. `FileInv` adds `StoredFiles`, that an upload written
and not yet committed already has its path to itself: `RowsHaveTheirFile` is not inductive
without it. `FigureInv` says the same of the cache (`CacheOwn`) and of what a read has loaded and
found (`HeldOwn`) under paths never freed. `CorrectionInv` adds `SameRow` (a row that is fresh is
the row a request loaded under its id) and `StillManual` (a correction that found the row
corrected will write over a corrected row): without the second, a correction that writes only
what changed might leave an extractor's name standing.

**Bills, lines and days** (`Settlement_proofs`). One lemma per reader says that what it takes as read is
priced in naturals and, if it states a sub total, adds up to it; `SharesAre` that the shares of a
tax add up to it exactly and no charge with its share is negative (each is rounded by half a unit
at most, and the first of the largest charges, which takes the residue, is worth that). `EntriesAre`,
`SortedIs` and `DraftIs` carry this through flattening, dropping duplicates and sorting to
the lines. Three inductive invariants follow, each TLC-checked first on the instance of the run.
`Evaluated`: lines are sound, and outcomes are what the engine may leave of a sound line; it gives
`SettlementTypeOK`. `Settled`: once settled, net, gross and disallowed are sums over the outcomes, of which
`NetIsWhatIsAllowed` is an algebraic consequence (`SummaryIs`). `DaysAddUp`: the running total of a day is
what its judged meals were allowed, and the smaller of the cap and what the reimbursable ones
cost; the running total alone is not inductive, since nothing in it says what it is a total of.

Four more compare a claim with something other than itself. *With its bills* (`ClaimsAreCovered`): each
line allowed is one charge of one bill, its own (`PayersAre`: what a reader finds of the payer and of
the payment is all the bill's charges'), and a bill's charges with their shares come to no more
than it prints; charges of one receipt that came twice from one merchant have one fingerprint,
of which one line is kept, so the sums can be grouped by receipt and merchant (`SumsGrouped`). *With one
bill* (`BillsAreClaimedWhole`): the lines of a bill, which its file's name tells, map one to one onto its
charges that are the first of their fingerprint on it (`LinesComeTo`), because a bill that had one of
these earlier would be the same receipt and have had all of them (`KeptTogether`). *With itself before
a withdrawal*
(`WithdrawalsNeverPay`): the net has a closed form (`NetIf`), what the lines other than meals are
allowed each by itself (`AloneJudged`) plus, for every day, the smaller of the cap and what its
paid meals cost. That is a sum and a minimum of sums over the lines not withdrawn, so it only
falls as more are (`NetShrinks`); that `before` remembers the closed form for a smaller `withdrawn` is the
inductive invariant (`Remembered`). *With itself before a forward* (`ForwardsNeverPay`): the whole summary
has a closed form (`SettlementIs`), a function of the charges kept. Of a receipt's charges with one
fingerprint the one kept is the first on the bill, whichever of the receipt's files is read first
(`FlatPlaces`, `EntriesPlaced`, `ChargesKept`); it has the same figures and the same head on each, so that
the charges of either set of bills map one to one into those of the other (`ChargesAreAmong`), neither
comes to less (`MoreIsNoLess`), and both summaries are the same (`SameSummary`). All of it is about receipts
whose merchant, read again, is the same; of any other the theorem says nothing, because the
code pays it again.

**Induction** (`Induction_proofs`). The library's induction theorems take an operator as a
parameter, which none of the provers here can instantiate. `Inductive`, `SetInductive` and
`StepByStep` say the same of *sets*: a set of naturals with 0 that is closed under successor has every
natural, a set of subsets that has {} and is closed under adding one has every finite subset, a
recursive definition has the value its steps give. What is proved from them about the library's
sums (`SumOut`, `SumsAdd`, `SumsCompare`, `SumsScale`, ...), about sequences built row by row and about
the reporting line knows nothing of claims.

### Only model-checked

`FrontCanApprove` is false: finding 1, which `OnlyUnaskedClaimsStick` delimits. `ForwardsArePaidOnce` is
false: finding 7, which `ForwardsNeverPay` delimits. `ClaimsMoveOn` stays with TLC: liveness under fairness, and `ENABLED`, are out of the prover's reach, as is
anything that uses a RECURSIVE operator (the modules proved about use recursive functions and
folds instead).

## 5. Findings

1. **A claim whose business levels are all skipped cannot be approved** (`stuck`). Such a
   claim starts at Finance in status `pending_approval`, from which Finance's approval is not
   a transition: 409, for good. It concerns a Reporting Manager's own claim up to 25000 and
   every claim of the MD's. The comment in `materialise.py` promises the opposite.
2. **The controller verifies their own claim** (`own`). Finance goes to the lowest code in
   Finance, whoever claims.
3. **A rejected claim stays in the next approver's queue** (`desk`), with a decision panel
   whose every button is refused.
4. **Values between bands** (`gap`): 25000.50 is in no band, `RoutingError` is raised and
   nothing catches it, though Finance "is required on every claim regardless of value".
5. **Two decisions on one step** (`twice`): both requests pass the version check before either
   writes, since the UPDATE does not name the version.

6. **A photograph is claimed at another's figures** (`retake`). `ocr_image` keeps a text by its path
   and `_unique_path` gives a path out again once its file is gone: upload `IMG.jpg`, open the
   draft, remove the bill, upload another under the camera's same name, and the draft has the
   first one's figures with the second as proof.
7. **A bill that the claimant forwards is paid twice** (`forwarded`). `_hotel_name` and, for a vendor
   without a known brand, `_vendor_name` take the merchant from the display name of the message the
   bill came in (`rule_based.py:344`, `:595`). A folio mailed by the hotel and forwarded by the claimant
   has two merchants, hence two fingerprints (`evidence/dedup.py:66`), and each is drafted and paid.
   The comment at `rule_based.py:588` asks for the merchant to be stable across two messages, and
   says that a display name is not. Rides of known brands, photographed restaurant bills and
   e-tickets are not affected: their merchant is on the bill.

### Seen while modelling, without a run of their own

The models have these; the properties above are stated so as not to claim their opposite, and
no run is spent on showing them.

*Evidence.*
- Two corrections of one bill that both loaded it leave two sets of lines
  (`evidence/corrections.py:70`), though the comment there says a second correction must not.
- A read that loaded a bill before its correction, and could read it, writes `rule_based` over
  `manual` (`claims/pipeline.py:156`): the correction is lost. The other way round, a correction
  that found the bill pending overrides an extraction that added up.
- A row id is given out again. A second removal, a read or a correction under way can then
  write to a bill it never looked at.
- A removal that fails after its unlink leaves a row without a file (`evidence/uploads.py:237`); the
  next upload takes the path, both rows show it, and removing the first again unlinks it.
- An upload between the commit of a reset and its `_clear_uploads` loses its file
  (`demo/service.py:126`), and a reset frees every path with the cache kept.

*Money.*
- Charges of one folio with equal amount, date and bill number collapse into one
  (`evidence/dedup.py:95`); the folio is then claimed short, which `reconcile.py` says cannot pass
  unseen. The instance's two rooms of one price show it, and `WholeBillIsClaimed` says that nothing else
  understates a bill.
- A document that needs input does not block submission: `check_can_submit` looks at outcomes
  only, and such a document has none, though `claims/pipeline.py:139` says it blocks.
- Two receipts with one fingerprint are charged once, at what the first by its file's name says. If
  one of them names a colleague, or its label is withdrawn, a second copy of the other under an
  earlier name changes the claim (`evidence/dedup.py:95`, `Apart`).
- Each room row of a folio is divided by the nights of the whole stay (`policy/rules/lodging.py:45`).
  A folio without a sub total becomes one lodging line, personal items included.
- A flight sector without a total is passed over (`rule_based.py:244`); a restaurant bill without a sub
  total is checked against itself (`rule_based.py:423`); a folio whose total is below its sub total is
  claimed at the sub total; one with tax on a sub total of zero raises.
- The tax residue can make a share negative (`policy/tax.py:45`): five equal charges sharing 3 units
  of tax get 1 each and the first -1.
- A correction of a colleague's bill is claimed as the claimant's own: `apply`
  (`evidence/corrections.py:73`) rewrites the charges without the payer's name, and a photographed
  restaurant bill names nobody to begin with. `PayerFound` states whose expense a bill is taken for.
- Attendees and prior approvals never reach the rules that ask for them
  (`claims/pipeline.py:303`): every entertainment line is held.

*Elsewhere.*
- The retry after a lost race for a trip number reads rows that the rollback expired
  (`claims/router.py:157`).
- The append-only triggers are dropped outside the reset's transaction (`demo/service.py:99`): a
  crash before they are back leaves the trail writable.

## 6. Plan

Done, in this order: `Lifecycle`, `Routing`, `ClaimWorkflow`, `SettlementPromise`, `RoutingCases`,
`ClaimRequests`; `Reading`, `PolicyEngine`, `Settlement`; `Evidence`; and the eight proof modules.
What is left, most important first:

1. Trip numbers: the race for the highest one, three attempts, the rollback between them.
2. The append-only triggers around a reset, with a crash at each point.
3. Read marks of notifications; payment run dates and deadlines across month ends; the cap of a
   reporting line's length; classification as an order of rules.
4. A policy version that changes between a submission and its resubmission.

## 7. Running it

    tlc -workers 2 -config MCClaimWorkflow.cfg MCClaimWorkflow
    tlc -workers 2 -config MCEvidence.cfg MCEvidence
    tlapm Settlement_proofs.tla

Each passing run takes two minutes or less, and a proof module a few minutes at most.

## 8. Not modelled, and why

- Finding figures and kinds in text: `classify.py`, `ingest.py`, `amounts.py` and the patterns inside
  the extractors are regular expressions, and the optional language model extractor is a call.
  What is done with what they find is `Reading`'s.
- Identity: a header names the employee; its effect is in the actions' guards.
- Seed: runs once before the service; its data is `MCClaimWorkflow`'s directory and matrix, and
  `Evidence`'s one bill in the inbox. That it may be run again is left out.
- Export, wiring and settings, frontend, migrations: layout, wiring and generated code. The
  one part of the frontend in the protocol, sending back the version its screen shows, is `shown`.
- `scheduled_for_payment` and `paid`: no handler takes a claim there. Payment dates and deadlines
  are date arithmetic that no step depends on.
- Reasons, warnings and remarks that the pipeline reports and nothing acts on, among them the
  list of documents it set aside.
- Travel tables and money columns of the schema; `policy_version_id`, which nothing reads.
- What section 6 plans.
