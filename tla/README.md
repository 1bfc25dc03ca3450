# hsl-web in TLA+

TLA+ models of hsl-web: the database of cards and members, the API in front of
it, the door service in the lab, the controller board, the browser applications
of members, applicants and admins, and the one-time import of the legacy
database. The models are translated from `src/services/api/src`,
`src/services/door/src`, `src/packages/schema/src`,
`src/packages/api-client/src`, `src/apps` and `src/tools/import`. The properties
are model-checked with TLC on small instances; all but one of the safety
properties are also proved, for all values of the constants, with TLAPS.

`PROJECT.json` holds the machine-readable side: which source lines each
definition stands for (`map`), the TLC runs, the seeded mistakes each property
was seen to catch (`mutants`), the hazards of the code and the properties aimed
at each, the theorems, and the places where the code and its own documentation
disagree (`findings`).

Running it:

    tlc -workers 2 -config MCDoorSync.cfg MCDoorSync     # any run in PROJECT.json
    tlapm DoorSync_proofs.tla                            # any *_proofs module

## 1. The system

    browser apps --HTTP--> API --SQL--> members database (PostgreSQL)
                            ^
                            | card table, commands, reports (door service asks)
                            |
                     door service --HTTP--> controller board (EEPROM, log, locks)

The API never calls the door service. The door service runs one pass at a time
on a timer: it drains the command queue, reconciles the board's card table with
the database's, and reports the door status and the board's log. All three
parts can restart at any moment, and each request between them can fail before
or after it took effect.

| Component | State it keeps | Operations | What makes it correct |
|---|---|---|---|
| Reconcile planning (`domain/reconcile.ts`, `domain/slots.ts`) | none | `planReconcile` | a card lands at its own slot; a contested or unreadable slot gets none; an unknown card stays; running it twice plans nothing |
| Door service, reconcile pass (`main.ts`, `link.ts`) | `ownedSlots` in memory, the plan being carried out | fetch the table, read the board, write and clear slot by slot | converges on the database; clears nothing that was not revoked; touches no slot nobody issued |
| Door service, queued commands (`main.ts`, `app.ts`) | the batch in hand | run each command, local control port | each at most once, in time, in order; never unlocks the rear door |
| Door service, report pass (`main.ts`, `domain/reads.ts`) | the log it has read | read, post, clear | reads are real; what was read leaves the board only after the API took it |
| Controller adapter (`adapters/openaccess-arduino`) | none | one HTTP request per operation, one text parser per answer | round trip of tags and masks |
| Fake device (`adapters/fake/device.ts`) | card table, log ring, locks | the firmware's, as the repository knows it | it is the reference for the board here |
| API, card table (`routes/door.ts`) | none | two reads per answer | the two belong together |
| API, command queue (`routes/door.ts`, `audit.ts`) | `door_commands`, `door_events`, `audit_log` | queue, audit, expire, record, claim: a statement each | hands over once; the history is true |
| API, status (`routes/door.ts`, `routes/space-api.ts`) | `door_events` | record a report; show the newest status | never an old reading as a fresh one |
| API, cards (`routes/cards.ts`) | `cards` | assign to the lowest free slot, edit, list | one card per slot and number |
| API, members, certifications, payments, own record | `user`, `certifications`, ... | edits by role, removal | a removal is whole or nothing; no card loses its row; holders stay on record |
| API, signup (`routes/signup.ts`) | `user`, `waivers` | create and release | both or neither |
| API, sync request (`routes/door.ts`) | `door_events` | ask, take, confirm | a request is not lost |
| API, sessions (`auth.ts`, better-auth) | `session`, reset links | open, look up, end, revoke | a request is its cookie's member's |
| Browser client (`packages/api-client`) | the cached session and the request in flight | load, refresh, clear, a timeout for every request | the member shown is the one whose cookie the browser holds |
| Members application (`apps/members`) | screen, disabled buttons, door tiles | sign in and out, reset, save, control a door | every button comes back; no tile is drawn off an old reading |
| Joining (`apps/signup`) | the draft, the request of the last step | five screens, their guard, one POST | no step is skipped; a receipt is of an account that is whole |
| Administration (`apps/admin`) | a member's record and its forms, the door panels | write, read again, poll | what is written is what was asked for, of the member shown |
| Legacy import (`tools/import`) | the snapshot, the transaction | read, check, write, count, commit | one whole import of one moment, or none; nothing lost unreported |
| Backup, restore (`tools/`, `docs/runbooks/go-back.md`) | the database as a whole | truncate and load | the door keeps working meanwhile |
| Roles, validation, read-only lists, start-up | rows read per request | checks | no state of their own worth a model |

The behaviours that are hard here, each listed at its line under `hazards`:
reads that are two statements and straddle a commit; a plan carried out while
the tables it was made from change; requests that take effect and lose their
answer; a process restarting between two statements; a request given up on that
is still being answered when it is asked again; two clocks; a ring that wraps
under its reader; everything a lost and restored database looks like from the
door service's side; answers that reach a screen after the click, the address or
the session they belong to is gone; polls that outlive the timer that sends
them; and an import beside an application that is still being edited.

## 2. The modules

| Module | Models | Extends |
|---|---|---|
| `Reconcile` | the plan and the board's card table as operators | |
| `ReconcilePass` | undisturbed passes over every small pair of tables | `Reconcile` |
| `DoorSync` | the card table's way from the database to the board | `Reconcile`; instantiates `CardBoard` |
| `CardBoard` | what all those passes promise about the board | `Reconcile` |
| `DoorCommands` | a command's way from a member to the board | |
| `DoorLog` | the log's way from the reader to the door history | |
| `DoorStatus` | the status' way from the board to the public page, with two clocks | |
| `Members` | the members database behind the routes, statement by statement | instantiates `SlotTable` |
| `SlotTable` | what all those routes promise about the card table | |
| `Import` | the legacy import, run twice at once | |
| `MembersApp` | the session, the router and the forms of the members application | |
| `JoinFlow` | the five screens of joining, and the API behind the last | |
| `MemberScreen` | an admin's screen of one member | |
| `DoorScreen` | the status and the controls of both door screens | |
| `Enrolment` | the queue of unknown cards and the card table of the admins | |
| `Web` | a browser tab with one of the five screens above | instantiates the five |
| `Reconcile_proofs` | theorems about `Reconcile` and `ReconcilePass` | `ReconcilePass` |
| `DoorSync_proofs`, `DoorCommands_proofs`, `DoorLog_proofs`, `DoorStatus_proofs`, `Members_proofs`, `Import_proofs`, `Web_proofs` | theorems | the module they name |
| `MC*` | constants for TLC | the module they name |

A definition whose comment begins "A plausible mistake" is a seeded bug: no
specification uses it. Each property has one it is known to catch.

### Reconcile, ReconcilePass

A card table is a set of rows `[slot, cardNumber, permissions]`.
`PlanReconcile` is `planReconcile`, with the same five results. Tags are
members of a small set; what the code does to their spelling is kept: `Upper`
is the board's spelling (`padTag`), `SameCard` compares in it, and `EmptyTag`
holds the tags `parseCardTable` takes for an empty slot. `ReconcilePass` runs
`runReconcilePass` twice with nothing in between, for every small table, memory
and list of issued slots, and compares each slot with `Expected`, a definition
written one slot at a time rather than as a difference of tables.

### DoorSync

State: `cards`, `users`, `cardAccess` and what a lost database held (`backup`,
`dbPhase`); whether the API runs; the door service's pass (`pass`, `table`,
`ownedSlots`, `writes`, `clears`); the board's card table. The actions:

| Action | Code |
|---|---|
| `AssignCard`, `UpdateCard`, `SetCardAccess` | `assignCard`, `updateCard` in `routes/cards.ts`; `applyPatch` in `routes/members.ts` |
| `LoseDatabase`, `StopApi`, `StartApi`, `RestoreCards`, `RestoreUsers`, `ImportDatabase` | the operator, by `docs/runbooks/go-back.md`, `make reset`, `tools/import` |
| `FetchCards`, `FetchOwnedSlots` | the two statements of `cardTableForService` |
| `ReadControllerTable` | the dump, and `planReconcile` |
| `WriteNextCard`, `ClearNextCard`, `RefuseWrite` | one request of `applyPlan`, in slot order, writes first; a mask that is not a byte throws in the adapter |
| `FinishPass`, `RequestFails`, `AnswerLost`, `RestartDoorService` | how a pass ends |
| `ProgramByHand` | somebody at the board, or the application this one replaces |

`everIssued`, `meantAtRead` (the cards meant when the pass read them) and
`handWritten` (slots programmed by hand since it read the board) record history
for the properties; no guard reads them. Assigning a card is one step here; `Members` has its
statements one by one.

### CardBoard

The abstract board: which cards are meant to open a door, and what the board
holds. Admins decide; the service asks, and until it lets go of the answer it
puts on cards that were meant when it asked and takes cards off issued slots,
none of those meant when `AlwaysTold`; somebody writes a card by hand.
`DoorSync` instantiates it (`Promised`):

| `CardBoard` | stands for in `DoorSync` |
|---|---|
| `meant` | `MeantCards`: the rows of the database, or of the backup of a lost one |
| `issued`, `acts` | `everIssued`, `edits` |
| `asking`, `asked` | `pass # "idle"`, `meantAtRead` |
| `AlwaysTold` | databases come back by the runbook only |

`acts` counts what people did, so that a write of the service cannot pass for
one by hand. `BoardAsPromised` is `Promised!Spec`: two reads that straddle
commits, a plan carried out request by request while its tables change, lost
answers, restarts and a lost database come down to those five steps.

### DoorCommands

State: `door_commands` as a sequence in id order, the audit and history rows,
the drains the API is answering, the door service's batch, the locks, and one
clock. `ExpireStale`, `RecordExpired` and `Claim` are the three statements of
`drainCommands`; two drains can be open because the door service gives one up
after `API_TIMEOUT_MS` and asks again while the API goes on with the first.
`RestartApi` drops every handler between two of its statements. `BoardTimesOut`
lets the board have run the command, or not, by the moment the request is given
up; a board that goes on with it after that (`controller.ts:98` only stops
listening) is left out. `AtMostOnce` does not depend on this; `RunsInTime` and
`RunsInOrder` assume it. `ControlLocally` is the loopback port. The drain reads its clock when it is asked (`AskForCommands`): a delay on
the way would only expire more.

### DoorLog

The ring is `logKeys`/`logData` with a number on each entry, in the order they
were logged, so that properties can tell entries apart; nothing in the pass
reads the number. `ReadLog`, `PostReport` and `ClearReported` are the three
requests of `runReportPass`; presenting a card, any other entry, lost answers
and failures come between them. A log that was read is a function on the slots
that were used; `readCards` is `ReadCards`, the set of the reads, with the
partner found round the ring. The order of the reads in one report is left out:
they are posted together and carry one time.

### DoorStatus

`now` is the API's clock and `now + offset` the door service's, which can be
set (`StepClock`). A report is dated when it is posted (`PostReport`), is under
way for up to `ReportDelay`, may be lost, and may be handled after the next one
(`RecordReport` picks any report on the wire; the door service sends the next
one after `ApiTimeout`). The board's sample and the arrival of its answer are one
moment (`ReadStatus`); an answer that took its time would make the reading older by
that much, within one more timeout of the controller. `BelievableTime`, `LatestDoorStatus` and
`DeriveSpaceApiState` are the functions of those names.

### Members

State: the tables `user` (the columns the routes' checks read), `cards`,
`user_certifications`, `payments`, `waivers` and `audit_log`, who has a
credential, and `requests`, what the API is working on: each a record with the
route (`op`), the statement it comes to next (`step`) and what it has read. The
routes start in `ReceiveAny`, with the role each asks for.

| Action | Code |
|---|---|
| `CheckMemberExists`, `CheckDuplicate`, `LockSlots`, `ChooseSlot`, `InsertCard` | `assignCard` and the transaction of `assignLowestFreeSlot` |
| `ReadCardBefore`, `UpdateCard` | `updateCard` |
| `CheckFields`, `CheckOwn`, `CheckNamed`, `RemoveMember` | `neverUsed`, whose nine queries go out in two rounds and are answered in any order; the transaction of `removeMember` |
| `FindMember`, `ApplyPatch` | `PATCH /api/members/:id` |
| `FindForMakeAdmin`, `MakeAdmin` | `make-admin.ts`, on the host |
| `CheckHeld`, `GrantCertification`, `RevokeCertification` | `routes/certifications.ts` |
| `RecordPayment` | `POST /api/payments` |
| `SignUpEmail`, `RecordMemberAndWaiver` | the two transactions of `POST /api/signup` |
| `RecordAudit` | `recordAudit`, the last statement of each |
| `RequestDies` | a restart, or a lost database connection, at any point |

The constraints of `tables.ts` decide what a write does: an insert that breaks
a key or names a member who is gone changes nothing, and `Referenced` is the
foreign keys that stop the delete of a member. There is one tool to certify
for, a patch changes one field, and the insert of a card and its commit are one
step (nothing reads a row that is not committed). Left out: labels, the active
flag and contact fields, which no check reads; `card_access`, which is in
`DoorSync`; and the references of `door_events` and `door_commands` to a
member, which could only refuse more removals.

### SlotTable

The abstract card table: two variables, four operations, each at once (`Issue`,
`HandOver`, `Join`, `Leave`). `Members` instantiates it with its own tables
(`Promised`), and `CardTableAsPromised` is `Promised!Spec`: every statement of
every route, with the transactions, the lock, the constraints and the failures
between them, is one of the four or changes neither. So an assignment, five
statements that race with others, looks to the door service and to an admin
like one step that puts a new number in the lowest free slot.

### Import

State: the legacy database; per run of the tool its step, what is left of it,
the snapshot its read transaction sees and what it has read, the findings, and
what its own transaction wrote; the committed target; and what it told the
operator. The rows are kept to the columns a check, a key or a count looks at.

| Action | Code |
|---|---|
| `BeginReadOnly`, `ReadTable` | `beginReadOnly` and `readLegacy`, repeatable read, table by table |
| `CheckSnapshot` | the counts of the source, `preflight`, `refusals` with the options |
| `AssertTableEmpty` | the check that the target is empty, inside the transaction |
| `InsertRows`, `LinkOrientedBy`, `RestartIdentity`, `VerifySlots` | `load.ts`, in its order |
| `BeginCounting`, `CountLine`, `Finish` | `reconcile.ts`, and the commit or the rollback |
| `DeadlockAborts`, `ConnectionDrops`, `CommitAnswerLost` | PostgreSQL and the network |
| `RailsEdit`, `SignUp`, `RecordRelease` | the legacy application and the sign-up page, meanwhile |

An insert waits for a key another open transaction holds (`WaitsFor`), breaks a
constraint of `tables.ts` (`BreaksConstraint`), or is seen by its own
transaction only. Amounts are in tenths of a cent, so that one that does not
fit in cents exists; an email and a card number have a canonical form each. What
the Rails schema allows in the columns the checks and the loader look at is
`IsLegacy`: ids, slots and masks are integers or null, since no foreign key and
no check is declared there.

`DoorIsAsItWas` and `NothingIsLostUnreported` speak of an import that had
members to carry. One of a legacy database whose members are all gone commits
too (it has no cards either, as an orphan card is refused) and leaves every
table of people empty; where there were no certifications either, a run that
took its snapshot before that may still commit after it.

`PreflightIsEnough` leaves out a hash of white space: `trim()` drops it,
`btrim` counts it when it is not spaces, and the two lines for credentials
disagree. With a sign-up between the count of members and the count of
credentials they can agree again by accident, which is why a sign-up is left out
as well.

### MembersApp, JoinFlow, MemberScreen, DoorScreen, Enrolment, Web

A click sends a request and returns. Its answer runs what waited for it, in any
order with others; or it never comes and the client's timeout ends it; or its
body breaks off. That last case is an action of its own (`MeCutOff`,
`SaveCutOff`, `SignupCutOff`, `CutOff`): `readBody` in `client.ts` runs outside the `try` of
`fetchOrThrow`, so what waits gets an error no handler expects. Better Auth's own client is no
exception: the browser takes the cookie of a sign-in from the head of the answer,
and when the body breaks off `signIn` throws before `refreshSession` runs
(`SignInCutOff`). A sign-out that is refused or not answered rethrows after its
`finally`, and `App.vue` shows that a screen stopped (`SignOutEnded`).

| Module | State in the code | Actions |
|---|---|---|
| `MembersApp` | `session.ts` (`state`, `inFlight`), the route, the form's disabled button; at the API `session` and the reset link | the guard (`Navigate`), the forms, `Leave`, the answers and their cut-offs, `SessionEnds` |
| `JoinFlow` | `join-flow.ts` (`draft`, `submitting`, `failure`, `created`), the route and the tab's history | `Edit`, `CarryOn`, `GoBack`, `Browse`, `Reload`, `SubmitJoin`; the two transactions of `signup.ts` |
| `MemberScreen` | `MemberView.vue` (`record`, `pending`, `error`, `busy`), the roles form, the access question, `memberId` | `Open`, `JumpTo`, the controls (each writes to the member of the address, but `DeactivateCard` to the slot on the screen), the ways an answer is used; other admins |
| `DoorScreen` | `door`, `pending`, `error`, `busy`, the timer | `PollNow`, `Send`, `Retry`, `Tick`, the answers; the API's newest report |
| `Enrolment` | the panels of the admins' `DoorView.vue` and the assignment form | `Pick`, `Review`, `Assign`, `Deactivate`, `Sync`, the timer; other admins and the reader |

`DoorScreen` counts time in ages, and an age stops where nothing tells it from
an older one. `Web` says which of the five is open. They share no state but the
client, so one behaviour of `Web` is a behaviour of one screen, and one run
checks them all. `MembersApp` is the one tab of its browser: another tab that
signs somebody else in changes the cookie under it, and nothing in the code
looks out for that.

## 3. The runs

"pass" runs finish without an error; "violation" runs show a place where the
code does not do what the repository says it does, and each is a finding.

| Run | Instance | Shows |
|---|---|---|
| `reconcile_pass` | slots 0, 1, the unreadable 2, and addresses outside; 4 tags, 2 spellings of one, 1 unreadable; every database table of at most 2 rows, every board | the plan matches a slot-by-slot reading; the second pass is empty |
| `sync` | 2 usable slots and slot 2; 2 members, 2 tags, a good mask and one that is not a byte; 3 edits, 2 outages, 2 faults | the passes implement `CardBoard`, so no slot nobody issued is touched; by the runbook, no card is cleared that was meant to open a door, and at the end of a pass that did not fail each slot still meant as when it was read shows what is meant, unless written by hand meanwhile |
| `sync_live` | 1 member, 2 edits, 2 outages, 1 fault, every way of recovering | the board converges on the database |
| `sync_unfinished_restore` | restore while the API answers | violation: cards nobody revoked are cleared |
| `commands` | 2 commands, 2 drains, refused ones on both ways in, clock to 4, 1 fault | at most once, in time, in order, true history; the rear door stays locked; every command settles |
| `log` | ring of 4, 6 entries, 2 tags (one with no high half, and 0, which is no card), 1 fault | reads are real, whole pairs are reported, cleared only after they were taken, no entry stays |
| `log_cleared` | ring of 4, no fault needed | violation: an entry logged after the read is cleared unreported |
| `status` | offsets of the tolerance and far beyond, set once; clock to 6 | "open" on the public page is recent; the newest status is shown |
| `members` | 2 members and a free id, 2 slots and the legacy one, 3 card numbers; 2 requests at a time, 3 in all, 1 that dies | the routes implement `SlotTable`, so slots are issued for good; no two take one slot; removal is whole; holders are on record; no request hangs |
| `import` | every legacy database of two members that differs from a sound one in a column of a row of each of at most two tables, with every option; the sound one with two runs at once, 1 edit, 1 sign-up, 1 dropped connection | all or nothing; the door as it was; nothing lost unreported; the preflight is enough; every run ends |
| `web` | 2 members, 2 clicks and a session that ends; 2 sends of one draft; 3 requests of an admin and another one's change; a poll of 2 and a timeout of 3; 1 card, 1 lost request | what each screen shows is earned, what it writes was asked for, every button comes back |
| `web_member` | the same | violation: the question about one member writes to another |

Why the bounds are enough. In `DoorSync` a slot's fate depends on that slot's
rows and on whether the answer names any slot at all, so two slots are what the
interesting cases take: one changed while the other is planned for. Two outages
let the database be lost and lost again, or be lost and the API be stopped for
the runbook; two faults let a request fail, and the service restart, in one
history. In `DoorCommands` a second drain is the smallest overlap and the code
never has more than one it waits for; two commands are enough to be out of
order; the clock runs past TTL plus both timeouts. In `DoorLog` six entries
into a ring of four wrap it in the middle of a pair for either starting cursor.
In `Members` the races are between two requests at a time: two assignments, a
removal and an assignment or an edit, two edits; the third request is the one
before them that sets the scene (a sign-up, a role taken away), and two slots
let the table fill up. In `DoorStatus` the clock runs one tick past the sum of
the windows in `OpenIsRecent`, so a violation has room to happen. In `Import` a
check looks at a column of a row or at two rows that share a key, and the loader
at one row and the rows it names: two changes give every pair of findings, and a
row one check lets through with another that drops what it points at. Two runs
are what a lock needs. In `Web` a request outlives a poll, so two polls cross;
two clicks are a sign-out and a sign-in, or a save overtaken by a sign-out;
three requests are a load, a write and what crosses it. The mutants in
`PROJECT.json` are evidence that the bounds suffice: each property is violated
under its run's own bounds once the mistake is put in.

`CHECK_DEADLOCK FALSE` is set where the bounds on edits, entries, clicks and
time let the model run out of steps, which the system does not.

Fairness. `startLoop` sets a timer whose callback starts a pass unless one is
running, and clears `running` in a `finally`; every request has a timeout. So a
pass that can go on goes on, and a new one keeps starting: weak fairness of the
door service's own steps (`WF_vars(DoorService)`, `WF_vars(ReportPass)`). In
`DoorCommands` the API's event loop finishes the statements it began
(`WF_vars(Api)`) and time passes (`WF_vars(Tick)`), which is what ends a request
nobody answers. In `Import` each run's statements are awaited one after another
until the process exits, and PostgreSQL ends one of two transactions that wait
for each other. In `Web` the browser keeps `AbortSignal.timeout` (`Timed`: a
request that waits ends, by an answer or not) and the admins' `setInterval`;
for the queue of unknown cards a poll is assumed to be answered now and then,
without which no screen could ever catch up. The client of better-auth has no
timeout: nothing is assumed of its requests, and `NothingWaitsForEver` does not
ask that their forms come back. Nothing is assumed of admins, members, the
operator, the reader, or of faults, which are bounded: convergence is what
happens once they stop.

## 4. The proofs

All are checked by `tlapm` with no assumption beyond the named `ASSUME`s of the
modules. Those give constants their types (`SlotCountAssumption`,
`DurationsAssumption`, bounds in `Nat`), say that the board's spelling is
idempotent (`UpperAssumption`), that the slot is a key of the tables a run
starts from and that a board holds tags as it spells them (`InitialAssumption`,
`TablesAssumption`), and that the value standing for "nothing" is no member,
email, card, number, tier, id or field of a record (`NoneAssumption`,
`TierAssumption`, `NullAssumption`, `RecordAssumption`). For the import they
also say that what Rails starts with is what its schema declares
(`StartsAssumption`) and that no run is named as the sign-up page is
(`WebAssumption`). TLC evaluates
each of them in the run of its module.

`Reconcile_proofs`. `SecondPassIsEmpty`: for every database table, every board
and every memory, planning again after a plan was carried out plans nothing,
provided no wanted tag reads back as empty. It rests on `UsableBySlot` being
one row per slot, and on the board after `ApplyPlan` holding, at each wanted
slot, the stored form of the wanted row. `EveryRequestCounts`: each write and
each clear of a plan changes what the board holds, unless the tag is one it
cannot read back, and no slot gets two requests, so their order does not matter.

Of `ReconcilePass`, in the same module: `SecondPassIsNothing` carries the first
of these to its two passes. `PassIsSlotBySlot`: what `planReconcile` computes as
differences of whole tables leaves each slot as `Expected`, which is written
from the rules one slot at a time, for every pair of tables.

`DoorSync_proofs`. `TypeCorrect` includes that the slot stays the key of
`cards`, of the answer and of the board. `OnlyIssuedSlotsTouched`: with
`IssuedInv`, everything the service takes a slot from (the answer, its memory,
its plan) names only slots the database has had a row for; the property itself
is not inductive because the board does not say where a slot in the memory came
from. `RunbookClearsOnlyRevoked`: if databases come back only by the runbook,
no card meant to open a door comes off. `RunbookInv` says why: a half restored
table is never read because the API is down; an answer in the door service's
hands either serves every slot that was meant to open a door at its first
reading, or issues no slot and is not believed. The other two recoveries break
exactly the first and the second part: `sync_unfinished_restore` shows the one,
and an import between the two readings is the other.

The board's side of it: `LossInv` says what a lost database leaves behind, and
with it an answer never names a card that is not meant (`ToldInv`), since nobody
can edit what is only in the backup. `PlanInv` follows a plan through: what is
wanted and no longer in `writes` is on the board as it is stored, and an owned,
unwanted slot that holds a card is still in `clears`, except where a hand
interfered. When both are used up that is `CompletePassesAgree`: by the runbook,
a pass that ends without a fault has brought each slot that is still meant as
it was when the pass read it to what is meant. The property is about the last state of a pass only, so
nothing in it says what a half carried out plan may look like.
`BoardKeepsPromise` is the refinement of `CardBoard`, action by action, for
every number of slots, every number of edits, outages and faults and every way
of recovering; it needs `RunbookInv` for the clears when `AlwaysTold` and only
`IssuedInv` when not. `OnlyIssuedSlotsTouched` is what it says of clears and is
proved by itself as a first step; no run lists that property any more.

`DoorCommands_proofs`. Five properties over the same ladder of invariants.
`ClaimedInv`: what a drain claimed is marked sent, is held by no other drain and
has not been taken, so the answers the door service gets are disjoint. `RanInv`:
what ran was taken and is not in the batch, and what the history says never ran
was expired; with it `NoCommandRunsTwice` and `HistoryTellsTheTruth` follow. The
properties alone are not inductive: they do not say where an id is between the
claim and the board. `OrderInv`: a claim takes every row that waits, so whatever
a later claim takes was asked for later (`CommandsRunInOrder`). `TimeInv`: when
the answered drain claims, nothing that waits was older than the window when the
drain was asked for, and each wait after that is bounded by its timeout
(`CommandsRunInTime`). `RearDoorStaysLocked` needs only the two places where a
command is refused.

`DoorLog_proofs`. `RingInv`: the entries on the board are numbered back from the
cursor, and a low half is never the newest entry and has its own high half in
the next slot, so what is logged next takes the slot of a low half before that
of its high half. Hence the partner `readCards` finds round the ring is the
right one wherever the ring has wrapped: `CardReadsAreReal`, and
`WholePairsReachTheHistory`. `PostsInv` counts copies: an entry on the board
that is not being cleared has been posted at most once per fault
(`EachRepeatCostsAFault`), and one that is being cleared at least once
(`ReadEntriesAreNotLost`). The last says nothing of entries logged after the
read, which are lost (`log_cleared`).

`DoorStatus_proofs`. `PublishedOpenIsRecent`, by `RecentInv`: each reading is
followed from the board (`Witnessed`) through the service, the wire and the
row, with what each stage can add to its age. It holds for every set of offsets
and any number of clock changes. `NewestReadingIsShown`, by `OrderInv`: with a
constant tolerated offset no report is redated, so the order of dates is the
order of readings on the wire and in the table, whichever is handled first.

`Members_proofs`. `TypeOK` says that card numbers are unique and that every
card's holder has a member row, which is what the constraints promise.
`SlotsAreIssuedForGood`: only an insert and an update write `cards`, and the
`restrict` on the holder is why a removal does not. `NoTwoTakeOneSlot` rests on
`SlotInv`: at most one request is in the transaction that holds the advisory
lock, and only that one can make a slot taken. `RemovalsAreWhole` rests on
`RemovalInv`: credentials and member rows come and go together, ids are never
given out twice, and a removal writes its audit row nowhere but in its
transaction; without the last two a removal on record could stop being true.
`HoldersAreNamed` needs that a request that has changed a card still holds the
row it is to record, and that audit rows are only added. `RoutesKeepTheTable` is
the refinement: with `SlotInv`, each action of `Members` is an action of
`SlotTable` or a stutter, and the initial tables are sound. It implies
`SlotsAreIssuedForGood`, which no run lists any more.

`Web_proofs`. `ScreenInv` is one invariant per screen, and an action of one
screen leaves the others' alone. `ShownMemberIsTheCookies`: a GET /api/me on its
way carries the cookie unless the cookie changed since, or a sign-in was cut off,
which `overtaken` marks; the mark goes when a GET /api/me that carries the cookie
of the moment ends with no other on its way. So the exception the property makes
is over with the first undisturbed refresh, and the theorem says that nothing
else can show a member the cookie is not of.
`ScreensAreEarned`: the tab's history holds no screen the guard would not have
let through at some time, so it is the guard on every move that keeps the order,
and a created answer is of an account that is whole. `TilesStayRecent`: an
answer's age is at most its report's when it was given plus what the request has
waited, a poll is due within the poll's length, and only the newest tick can
draw; the bound is the sum, for every length of poll, timeout and window.
`OnlyTheChosenIsWritten`: where the roles form differs from the record on
screen it holds what the admin last chose, an open question about card access is
the last one asked, and a request is made of nothing else (`RecordInv`), however
the answers and other admins' changes come in between.

`Import_proofs`. One invariant, `IInv`, and the five safety properties from it,
for any legacy database, any number of runs at once and any number of edits,
sign-ups and dropped connections. `RunInv`: what is left to read, to load or to
count is a tail of the order the code goes in, and what a transaction holds of a
table is nothing, or all of what its snapshot gives that table, according to
whether the load is past it (`Written`). `SourcesInv`: Rails only loses members,
so of two snapshots one has all the members of the other, and two runs that both
have members share one. `KeysInv`: no row of an open transaction has a key of a
row of another or of one that is committed, because an insert waits for the one
and breaks on the other. So when a run commits, nothing of another can be there,
and `CopyInv` follows: the database holds nothing of Rails or all of one run.
None of the properties is inductive without these three: each says what is
committed and not what an open transaction may still add. `WebInv` keeps the
rows of the sign-up page, which may be committed at any time, apart from those.
`TypeCorrect` and the two theorems about what a run carried read the tables off
`CopyInv` and use that a snapshot with no refusals is sound (`PreflightSane`,
from the checks one by one). `ImportsAllOrNothing` needs that the rows of a
table are as many as the rows they were made from (`OneRowEach`).
`ThePreflightIsEnough` adds `SkippedInv`, what the loader left behind of the
tables it is past, and `AloneInv`: a run with nobody else about finds the
database empty, its rows share no key, name each other's ids and fit their
columns, the slots are those of the cards, and each line of the count adds up.

Only model-checked: liveness (`Converges`, `EveryCommandSettles`,
`EveryEntryLeavesTheBoard`, `EveryImportEnds`, `NothingWaitsForEver`), since the
prover does neither fairness nor `ENABLED`; and `NoRequestIsStuck`, which is
about `ENABLED`.

## 5. Findings

Each is a run of section 3; the lines are quoted in `PROJECT.json`.

- `sync_unfinished_restore`: a restore that brings `cards` back before `user`
  with the API up clears cards nobody revoked, although `reconcile.ts` names it
  among the cases that clear nothing. The runbook's own order is safe, and that
  is proved.
- `log_cleared`: an entry logged between reading the log and clearing it is lost
  with no link dropping.
- `web_member`: when the history of the tab jumps from one member's screen to
  another's, the router keeps the screen and the record it loaded, and the
  answer to a question naming the first member turns card access on for the
  second (`MemberView.vue:163`).

Seen while modelling, and kept in the models without a run of their own.

The door and its API:

- An import that commits between the two reads of one card table answer clears
  the board when the database held no card at the first read.
- A card the board holds and the database does not know is overwritten when its
  slot is the lowest free one and somebody is assigned a card.
- A restart of the API between expiring a command and recording it
  (`routes/door.ts:249-257`) leaves the command missing from the history. A
  command is marked `sent` before anybody received it, and is queued and audited
  in two statements.
- After the door service's clock is set back an older status is shown until it
  goes stale (`NewestStatusIsShown` is stated for a clock nobody sets).
- A row with a mask that is not a byte ends every pass before the writes behind
  it. A card numbered 00000000 or FFFFFFFF is written by every pass.
- Once the ring has wrapped, the reads of a report are in slot order and not
  newest last.
- The events of a plan and the confirmation of a sync live in memory only: a
  post that fails loses them, since the next plan is empty.

The members database:

- A sign-up that went through can never be undone: it records the release that
  `ownRecord` counts as use (`routes/members.ts:50-54`).
- Two edits of one card that cross can leave the holder in between named
  nowhere as the previous one. Two instructors can grant one certification twice.
- A role, an orientation or a certification given between the checks of a
  removal and its delete goes with the member.
- A change whose request dies before its last statement, or whose admin is
  removed meanwhile, is made and not audited; the answer "nothing was changed"
  (`app.ts:56-59`) is then not true.
- A sign-up cut between its two transactions leaves a member without a release
  who cannot sign up again with that address; a retry after a lost answer is
  told there is an account already.
- Two admins who remove one member both put the removal on record.

The browser:

- A body that breaks off is an error no handler expects (`client.ts`,
  `readBody`): the session stays "loading" and every screen behind it; the last
  step of joining says nothing; a poll of the members' door screen leaves the
  old tile and its controls in place past the window its own comment names
  (`apps/members/src/views/DoorView.vue:58`).
- An admin's door panel keeps the last reading through polls that fail, by
  design (`panel.ts:47-51`), and through a stale one only the answer says how
  old it is; a panel whose load failed keeps its error though the polls after it
  succeed.
- The member's record shows the answer that came last, and a certification's
  answer replaces its part of the record only.
- The tier can be changed while the last step of joining is being sent; what is
  recorded is what was sent.
- The members' sign-in, sign-out and reset have no timeout, and "Nothing was
  sent" (`apps/members/src/lib/auth.ts:70`) is also what they say when only the
  answer was lost.
- A cookie that changes while a GET /api/me is on its way can leave the member
  of the old one shown until the next request.
- A sign-in whose answer sets its cookie and then breaks off leaves the browser
  with that member's cookie, another member on the screen, and "Nothing was sent"
  (`apps/members/src/lib/auth.ts:66-73`), until something asks again.
- A sign-out that is refused or not answered shows the screen for a crash
  (`apps/members/src/App.vue:57-72`).

The import:

- A finding lists at most ten rows (`preflight.ts`, `SAMPLE_SIZE`) where
  `main.ts:31-32` says every one is listed first.
- A commit whose answer is lost reads as a failure, and the runbook's "nothing
  was committed" is then not true; the next run finds the target not empty.
- A password hash that is blank to JavaScript and not to `btrim` passes the
  preflight and stops the import at the count, with nothing committed.

## 6. What is not modelled

- The wording of the events a plan is reported with, and the sync flag, which
  only shortens a wait.
- Roles beyond the guards of the actions: each check reads one row and answers.
  How better-auth keeps sessions and hashes is a library's; `MembersApp` has
  what its answers do.
- The directory of members, the payments list, the audit log and the door
  history: each loads and shows a list. Labels, notes and contact fields, which
  no check reads.
- Text formats (query strings, the status text), start-up, configuration,
  migrations, the seed, the mailer.
- The development simulator around the fake device, the design system, and the
  backup script itself; in `DoorSync` is what a restore does to the database.
- The firmware is not in the repository. What the board does is taken from the
  fake device and from how the adapter uses it.

## 7. Plan

Done: all modules of section 2, the runs of section 3 and the proofs of
section 4. What would come next:

1. The events of a plan and the sync flag, with a rule of what may be lost, once
   the code states one.
