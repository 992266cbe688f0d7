# Formal model of Go Alvin POS

Go Alvin POS is an offline-first point of sale for one shop on one Windows
machine: an Electron application whose main process owns one SQLite database,
exports completed sales to a Google spreadsheet, takes backups and can replace
the whole database by a backup. This directory holds TLA+ modules translated
from that code, the TLC configurations that check them and proofs that TLAPS
checks. Paths below are relative to the root of the repository (in
`PROJECT.json` they start with `src/`).

Tools: `tlc -config MCCheckout.cfg MCCheckout` checks a run (the list is below)
and `tlapm M.tla` checks the proofs of a module `M` of `CheckoutProofs`,
`CheckoutSafety`, `CheckoutReturns`, `RestoreProofs`, `ExportProofs`,
`StorageProofs`, `DeskProofs` and `LifecycleProofs`.

## The system

Everything that decides about money and goods runs in the Electron **main**
process; the screens of the **renderer** talk to it by asynchronous calls.
`better-sqlite3` is synchronous: a handler runs to its end without giving way,
and `db.transaction(...).immediate()` is atomic. So concurrency comes from five
places only: a handler made of *several* transactions, any of which may fail or
be the last before the process dies; requests that a cashier or the renderer
sends again, and answers that reach a screen which has moved on; the `await`s of
the export worker, the backup, the restore, the sign-in, the update and the
health snapshot; files outside the database (credential, marker, manifest, log)
that no transaction ties to it; and Google, Windows and electron-updater, which
answer late, never, or after their client gave up. The properties are aimed at
those five.

| Part | State it keeps | Operations | Talks to |
|---|---|---|---|
| checkout `src/main/checkout` | `checkout_requests`, `sales`, `sale_items`, `payments`, receipt counter | review, completeCashSale, beginCard, completeCard, declineCard | products, settings, inventory, export jobs, audit (one transaction) |
| reconciliation `src/main/reconciliation` | resolution columns of `checkout_requests` | list, resolve | reads what checkout left |
| void `src/main/void` | status and revision of a sale | voidSale | inventory, export jobs, audit (one transaction) |
| inventory, products, settings | quantity, movements, price, active, tax rate | create, update, archive, adjust, update settings | checkout reads them at review, Phase 1 and Phase 2 |
| export worker `src/main/google` | `google_sheet_export_jobs`, the job in hand, the spreadsheet | recoverStale, claim, upsert, markExported, recordFailure, manualRetry | sale and void insert and requeue its jobs; Google |
| Google configuration `src/main/google` | settings with their credential generation, credential file, spreadsheet, quarantine | connect, set up, retry, enable, disconnect, resolveExportContext | Google Drive, export worker, restore |
| backup `src/main/backup` | local and off-device files, manifests, `backup_records`, the run in hand | manual, automatic, off-device copy, retention, health | database, drive, scheduler, restore |
| off-device check, discovery `src/main/backup` | a folder's verdict; the candidates offered and the tokens of files chosen by hand | verify a folder; list, browse, resolve a candidate | Windows; restore |
| restore `src/main/backup`, `src/main/maintenance`, `src/main/app` | database file, marker file, exclusive claim, draft cart, confirmation token | restore, rollback, recovery at startup | every IPC channel is gated on its claim |
| migrations `src/main/database` | the tables, `schema_migrations`, pre-migration backups | open, check history, back up, migrate, validate | startup |
| updater `src/main/updater` | update state, check in flight, installer | check, download, restart and install | electron-updater, maintenance claim, settings page |
| diagnostics, support `src/main/diagnostics`, `src/main/support` | session marker, crash records, rotating log, clock baseline, database status | start and end of a session, incidents, health snapshot, report, bundle, resume | everything, read-only |
| history, reports `src/main/salesHistory`, `src/main/reports` | none: computed when asked | list of a day, daily report | sales, time zone |
| renderer `src/renderer` | cart, review, request id, Card attempt | what a cashier does | IPC |
| customers, receipts, printing | plain records; documents handed to the system | | |

### What is hard, and what makes each part correct

* **Checkout.** A sale is made in phases: the request is recorded (Phase 1, Step
  A), the terminal charges, the approval is recorded (Step B), the sale is
  committed (Phase 2), a failure is recorded, then audited. Each is a
  transaction. Correct means: a request becomes at most one sale; a sale is for
  what was reviewed and charged; a charge always has a row that says so;
  receipt numbers have no gaps; evidence is never rewritten; a charge without a
  sale can be found.
* **Stock.** Sales, voids, counts and corrections interleave over days. Correct
  means: never negative; the movements explain the quantity; a void returns
  what the sale took, once.
* **Export.** The worker awaits Google four times per sale and is overtaken by
  voids, time-outs, a computer that sleeps and restarts. Correct means: EXPORTED
  tells the truth; one row per sale; no job is forgotten; an answer that came too
  late changes nothing.
* **Restore.** It replaces the file everything else lives in. Correct means:
  wherever it is cut off, the next launch has every sale; sales vanish only if
  the owner confirmed exactly that; nobody is paying while it runs.
* **Backups.** A run awaits up to nine times, while the drive is pulled out, the
  destination is changed, an older database is restored or the process dies.
  Correct means: what the catalogue calls COMPLETED is there; what is called
  healthy is protected; retention never takes the last good copy; a backup that
  is owed is taken in the end; what is offered for a restore is whole and what a
  restore takes is what was chosen; off-device means off this device.
* **Upgrades.** Builds of two lineages, newer and older, meet one file. Correct
  means: nothing is served under another schema, and tables change only over a
  backup.
* **The Google account.** The credential file and the settings can be rewound or
  cut apart, and two setups can run at once. Correct means: exports go to the
  account connected last; one token makes one spreadsheet.
* **The New Sale screen.** Each answer carries the cart its call closed over.
  Correct means: what is sold is what was shown, and the main process knows of
  every open cart.
* **What is told.** A report, the activity feed, the health page, the update
  section must be true of something that was so.

The complete list of hazards, each at its line and with the properties that
watch it, is `hazards` in `PROJECT.json`.

## Modules

| Module | Models |
|---|---|
| `Shop` | the abstract promise of the checkout: one outcome per request, goods and money move only with it |
| `Checkout` | checkout, reconciliation, void, inventory, products and settings over the tables; implements `Shop` |
| `ExportJobs` | the statements on `google_sheet_export_jobs`, as operators from a row to a row; used by the next and by `Checkout` |
| `ExportWorker` | the worker, the spreadsheet and late writes |
| `Restore` | restore, rollback, marker, recovery at startup |
| `Backups` | manual and automatic backups, off-device copies, retention, schedule, health |
| `Migrations` | the opening of the database: history check, backup gate, migrations, validation |
| `OffDevice` | whether a folder is storage outside this computer |
| `Discovery` | which backups are offered and which one a restore takes |
| `GoogleAccess` | sign-in, credential generations, provisioning, quarantine, export context |
| `CheckoutScreen` | the New Sale screen against the queue of its calls |
| `Updater` | update checks, downloads and the installation |
| `Reports` | the arithmetic of a sale and the daily report |
| `Sessions` | session marker, crash records, log and activity feed |
| `Health` | health snapshots, problem reports and support bundles |
| `Wake` | sleep, resume and changed clocks |
| `MCCheckout` | two small stores for `Checkout`, one scene each |
| `MCExport` | the scopes for `ExportWorker` |
| `MCStation` | extends the eleven modules from `Backups` to `Wake`, one scene each |
| `CheckoutProofs`, `CheckoutSafety` | type correctness of `Checkout` and the ledger of the stock; its safety properties |
| `CheckoutReturns` | what voids give back; that `Checkout` implements `Shop` |
| `RestoreProofs` | type correctness of `Restore` and what it promises about the truth |
| `ExportProofs` | type and overtaken answers of `ExportWorker`; what its sheet shows |
| `StorageProofs` | what `Backups`, `OffDevice` and `Discovery` promise |
| `DeskProofs` | what `CheckoutScreen`, `GoogleAccess` and `Reports` promise |
| `LifecycleProofs` | what `Migrations`, `Updater`, `Wake`, `Sessions` and `Health` promise |

Operators whose comment starts with "Mutated:" are defective variants of the
definition that follows them. No specification uses them; each shows that one
property would notice that defect.

### Checkout

`op` is the handler in flight: idle, before Phase 2, before the record of a
failure, or before its audit. An action that runs a transaction needs the `op`
that the code has then; user actions need `op = Idle`, because a handler is
never interrupted; `Crash` resets `op` and leaves the tables.

* `rows` is `checkout_requests`. `fingerprint` stands for the SHA-256 of the
  reviewed cart, listed prices and tax rate: equal exactly if those are equal.
  `approved` is `clover_approved_at IS NOT NULL`. `stale` is whether
  `RECONCILIATION_STALE_MINUTES` have passed. `resolution` joins
  `resolution_status` with who set it.
* `sales` is in order of commit; a sale's position is its id. `jobs[s]` is its
  export job, `ledger[p]` the movements of a product, `audits` which events
  exist about which subject.
* `clover` is the terminal, which is no part of the program: what it charged for
  each request. It charges only while the row awaits payment. The cashier is
  trusted to press what the terminal shows: `ConfirmApproval` needs a charge and
  `DeclineCard` needs none.
* A *cart* is a checkout payload; `Demand`, `Sold` and `Total` are constants
  that give what the code computes of it, so the proofs hold for every such
  arithmetic. A completing call carries a cart of its own, any one, as the code
  takes payload and fingerprint from the renderer separately. A Cash submission
  carries any earlier review of its cart (`Reviews`).

| Action | Code |
|---|---|
| `SubmitCash`, `RetryCash` | `saleService.ts` Phase 1 |
| `BeginCard`, `ConfirmApproval`, `ConfirmApprovalFails`, `RetryCard`, `DeclineCard` | `cardCheckoutService.ts` |
| `CommitSale`, `Phase2Fails` | `salePhase2.ts` commits, or rolls back |
| `RecordCommitFailed`, `RecordCommitFailedLost`, `RecordFailureAudit` | the separate transactions after a rollback |
| `BecomeStale`, `Resolve` | `reconciliationService.ts` |
| `VoidSale` | `voidService.ts` |
| `CreateProduct`, `UpdateProduct`, `ArchiveProduct`, `AdjustStock`, `UpdateTaxRate`, `UpdateBusinessConfig` | their services |

`CommitSale` of a Card sale has a second outcome: reading the sale back after the
commit (`summarize`) can throw inside the same `try`, and then the handler goes on
to record a failure although the sale is there. The record is refused, because the
row is `COMPLETED`.

Calls that change nothing (refusals, answers from a finished sale) are not
actions: they would be stuttering steps.

### ExportJobs and ExportWorker

Timestamps become the two comparisons made with them, `due` and `aged`. The
worker does one request per action, four per job: read the column and write the
row, on each of the two worksheets. `Abandon` is an outcome the worker cannot
know (time-out, 5xx, shutdown, crash): the write in hand did not happen, did
happen, or joins `late` and happens later. `FailedAfterWrite` is what the code
takes for a definite failure although the write may happen, at once or late: a
connection that breaks before the answer, a `markExported` that fails.

`BecomeAged` happens to a claim at any time, also with a request in hand: a
computer that slept for five minutes wakes before the 30 second timer has
aborted it. `Recover` runs at the top of a drain pass, and on every resume
whatever is in hand (`powerLifecycle.ts:85`, `index.ts:335`). `overlapped` is a
history variable: the worksheets on which a sale's column was read while an
append of that sale was in `late`.

### Restore

One action per effect on the disk. `main`, `marker` and `backup` are files, and a
file is its content: the completed sales and whether a Card attempt is
outstanding. `Torn` is a file whose copying was cut short. `truth` is a history
variable: what the database must hold, set by the last write of the business or
by the last completed restore. `Faults` switches on faults beyond crashes, a
failing swap and a failing validation.

### Backups

A backup run is a sequence of stretches of code between two awaits: `run[s].pc`
is the await it is at, for each service `s` (a restore starts a new service
while an old run may still be going). A file is named by its run. `image`
remembers what each whole file holds of rows and destination, so that `Rewind`
(a restore of an older backup) brings back an older catalogue while the files
stay. `pruned` is a history variable. The clock counts half days, because the
schedule asks whether 03:00 has passed. `Faults = {"DIRECTORY"}` lets the drive
vanish just before `mkdir` (run `directory_fails`).

### Migrations

`boot` is how far the opening is; `schema` what the tables are, `history` what
`schema_migrations` says. A build is a target version and a lineage: builds of
one lineage agree on the checksums of the migrations both have. `Install`
replaces the build while the application is closed, by a newer or an older one.

### OffDevice and Discovery

`OffDevice` is one verification of one folder: each question to Windows is one
action with an answer or none. `site` is the computer, chosen at the start: which
letters are partitions of which disks, which disks are on USB, where a junction
leads. `Discovery` verifies a file in five awaits; `Change` replaces or removes it
between any two, even under its old time stamp.

### GoogleAccess

`access` is the settings in the database, `secret` the file outside it. `jobs` holds
what is under way, one action between two awaits: any of `Calls`, the owner's, and
the two tasks of the startup, `RECONCILER` (`reconcileAtStartup`) and `PROVISIONER`
(`ensureProvisionedIfNeeded`). Calls run at once: `busy` disables the buttons, but
is state of a component that is unmounted when the owner leaves Settings, and
neither the IPC handlers nor the service guard against a second call. Only a second
sign-in is refused.

A creation without an answer took place, never will, or joins `late` and takes
place when the setup has long looked again and given up. `PutBack` is a restore of
`saved` settings, `PrepareRestored` the quarantine that follows, `PrepareFails` its
failure, which is caught and the work started anyway (`index.ts:369`). `CutOff` is a
crash between any two effects. `DeleteFails` and `Discard` have the `rm` whose
failure is swallowed. `StartWork` lets both tasks read before either writes, or find
a file that cannot be decrypted.

Three variables are history. `chosen` is what the owner said last. `lapsed` says that
a credential is about that the owner did not choose, and five actions set it: a
restore that is not quarantined (`PrepareFails`, or `CutOff` before it), a disconnect
whose credential file is ahead of the settings and outlives it (`DeleteFails`, or
`CutOff` before the deletion), and two calls that cross (`WriteCredential` beside
another, `WriteAdrift`, `Disconnect` with a connection under way). It ends with the
next connection or deletion. `overlapped` holds the spreadsheets that a setup began
to create while an earlier creation of the same one had not come to rest.

### CheckoutScreen

`calls` is the queue of the calls under way, in their order, each with the cart
its handler closed over; `Serve` is the main process answering the next one,
`Get...` the handler on the screen that receives an answer. `shown` is a history
variable: the review on the screen when a request was first sent. The sales
services are those of `Checkout`, reduced to the rows of the requests.

### Updater, Reports, Sessions, Health, Wake

`Updater` lets electron-updater raise its events when it likes: the download a
check started goes on through later checks. `Reports` has the cents of
`checkoutCalculation.ts` and works out the business day of a sale whenever
somebody looks, with the zone configured by then. In `Sessions` the process may
die between any two writes, any write may fail and the clock may be set back.
`Health` takes a snapshot part by part over its awaits, while parts change and a
restore closes the database it began with. `Wake` serves the timer that came due
in a sleep and the resume event in either order.

## Runs

| Run | Module, cfg | Expect | Shows |
|---|---|---|---|
| checkout | `MCCheckout` | pass | one request, one sale, at the amount charged, under every retry, failure and crash; movements, voids and export jobs agree with the sales; implements `Shop` |
| forgotten_charge | `MCCheckout`, `MCForgotten` | violation | a charge that no list shows (see Findings) |
| export | `MCExport` | pass | EXPORTED is the truth; stale answers change nothing; a second row comes of one overlap only; every job ends |
| second_row | `MCExport`, `MCSecondRow` | violation | a retry appends a second row (see Findings) |
| overtaken_write | `MCExport`, `MCOvertaken` | violation | a void overtakes an unanswered write |
| restore | `Restore`, `MCRestore` | pass | every cut-off restore is recovered |
| swap_fails | `Restore`, `MCSwapFails` | violation | a double fault loses the database |
| marker_stays | `Restore`, `MCMarkerStays` | violation | a marker that stays undoes later sales |
| restored_connection | `GoogleAccess`, `MCReconnect` | violation | a restored connection that nobody made again |
| station | `MCStation` | pass | the properties of the eleven scenes, below |
| directory_fails | `Backups`, `MCDirectory` | violation | a failed off-device copy takes the local backup with it |
| frozen | `CheckoutScreen`, `MCFrozen` | violation | a late answer rewrites the cart behind a Card attempt |

The properties of `station`, by scene:

| Scene | Property | Says |
|---|---|---|
| Backups | `CompletedIsWhole` | a COMPLETED row has its whole file, unless retention removed it |
| | `HealthyIsProtected` | HEALTHY means that the drive holds a recent copy made for that destination |
| | `RetentionSpares` | retention leaves a whole local backup where there was one, and a whole copy on the drive while the catalogue counts none that it removed before; what it removes is past its age |
| | `OwedIsTaken` | an automatic backup that is owed is taken in the end |
| Migrations | `ServesItsSchema` | what is served has the schema of its build |
| | `UpgradeIsRecoverable` | tables with sales change only over a recorded backup of all of them |
| OffDevice | `AcceptedIsElsewhere` | a folder is accepted only if its bytes are elsewhere (but for a name of this computer that nobody resolves), and whenever they are, if all questions were answered |
| Discovery | `OffersAreWhole` | what is offered or taken was whole when it was opened, under its own row's claims (but for a file without a row that is replaced twice within one verification) |
| | `TakesWhatWasChosen` | a restore takes the bytes chosen, whatever happened to the file since |
| GoogleAccess | `ExportsAreTheOwners` | exports go out under the account connected last, or none (but while a credential nobody chose is about, `lapsed`) |
| | `SecondSheetsOverlap` | one token makes a second spreadsheet only where a creation began while an earlier one had not come to rest |
| CheckoutScreen | `SoldAsShown` | what is sold is what the screen showed when the request was sent |
| | `CartIsKnown` | once all is answered, the coordinator knows of a cart just when there is one |
| Updater | `InstallsWhatIsReady` | READY is the release whose installer lies there, launched only while safe |
| Reports | `ReportsBalance` | the days add up to the book and to what customers paid |
| Sessions | `EndingsAreTold` | a killed session is recorded, and only it; records leave by age or number only |
| Health | `HealthIsSeen` | what is told as healthy was so, of an open database |
| Wake | `WakesTruthfully` | a sleep is no changed clock, and a resume hides no sound database |

### Bounds and why they are enough

* `MCCheckout`: two requests, so that one can take the stock, the receipt number
  or the tax rate from under the other; `StockMax = 2`; `LedgerMax = 2` stops
  *adjustments* once a product has two movements; sales and voids are not bounded
  by it. A behaviour is in one of two scenes. THE COUNTER has one product, a Cash
  and a Card cart that want 1 and 2 of it, so that both together exceed the stock,
  and two tax rates, so that every review can go stale; its stock is adjusted only
  while there is one request. A change of the price has the same effect as a
  change of the rate. THE SHELVES has two products in one Cash cart and two prices
  of the first, for movements of one product between those of the other, and
  overrides up and down; the second is never adjusted and is there from the start
  of trade.
* `MCExport`: two scopes, of which a behaviour picks one. Two sales and a void,
  no late write: a claim of one sale while the other is voided. One sale, no
  void, two late writes, so that one can land while the other is on its way.
  Voids and late writes together are `MCOvertaken`, because of its finding; one
  sale with one late write is all that `MCSecondRow` needs. Two attempts: a
  failure that is retried and one that is final.
* `MCReconnect`: one account, one call, one sign-in and two breaks, a restore and a
  crash.
* `MCRestore`: two sales, so that one can be in the backup and one not.
* `MCStation`: the scenes share no state, so what holds of a behaviour in one
  scene holds of the module alone; one run for all of them asks each its own
  question. Backups: five half days with a retention of three and four, so that
  a backup grows old, and two services, so that a run outlives the restore that
  replaced its database. Migrations: three versions and two lineages, so that an
  older and a foreign build can follow a newer one. OffDevice: two letters and
  two disks, for a partition of the database's own disk and one of another.
  Discovery: one path, two passes and a change, as passes look at files one by
  one and independently. GoogleAccess has two scenes, with one token (a second
  token would be a second spreadsheet by right), two sign-ins and two breaks. In
  GOOGLE one call runs at a time, with two accounts. In GOOGLE TWICE two run at
  once and no backup is taken; either one account signs in once, or nothing breaks. CheckoutScreen: two
  products, two requests and two calls under way, so that one can overtake an
  edit. Updater: two releases, three checks. Reports: three instants, two of them
  on different days in different zones, two rates and a line sold above and one
  below its listed price. Sessions: three sessions, so that one starts over the
  remains of one that started over another's; one record, line and rotated file
  are kept, so that the limits bite; retention age 0 in steps of the clock.
  Health: three parts, one read before the first await, one after, one of the
  database itself; two snapshots, so that they overtake each other. Wake: three
  sleeps and three openings.

Deadlock is not checked in `station` and `restored_connection`: a verification of a
folder ends, and the bounded counters run out. Request ids are symmetric in
`MCCheckout`, which checks no liveness.

### Fairness

`Checkout` has none: nothing there must happen unless a person acts.
`ExportWorker!FairSpec`: time passes (`BecomeDue`, `BecomeAged`), a request in
hand ends by its time-out (`Abandon`), late writes land or are dropped; strong
fairness for what the poll timer tries again and again but a fault can
interrupt: recovery, the claim of a due job (oldest first, so no job is
starved), and each of Google's answers, if it is tried again and again while the
claim still stands (`On`). `EverySaleLeaves` holds under
`[]<>enabled`. It follows the first sale, whatever becomes of the others: the
actions treat all sales alike, so what holds of one holds of each.
`Restore!FairSpec`: a handler under way goes on, an owner who
sees the store down launches it again, and copying the recovery copy does not
fail every single time. `Backups!BackupsFairness`: a run goes on or the scheduler
ticks or a closed application is opened again (one condition for the three: the
event loop serves whichever is there), and an application that is quitting ends.

## Proofs

| Theorem | States |
|---|---|
| `CheckoutProofs!TypeCorrect` | `Spec => []TypeOK` |
| `CheckoutSafety!ReceiptsSequential` | `Spec => []ReceiptsInSequence` |
| `CheckoutSafety!JobsAim` | `Spec => []JobsAimAtSales` |
| `CheckoutSafety!ChargesRecorded` | `Spec => []ChargeOnRecord` |
| `CheckoutSafety!EvidenceKept` | `Spec => EvidenceIsKept` |
| `CheckoutSafety!SellsOnce` | `Spec => []SoldOnce` |
| `CheckoutSafety!SellsAsCharged` | `Spec => []SoldAsCharged` |
| `CheckoutProofs!LedgerExplains` | `Spec => []LedgerExplainsStock` |
| `CheckoutReturns!VoidsReturn` | `Spec => []VoidReturnsWhatWasSold` |
| `CheckoutReturns!TablesImplementShop` | `Spec => ImplementsShop` |
| `RestoreProofs!TypeCorrect` | `Spec => []TypeOK` |
| `RestoreProofs!TruthServed` | `Spec => []ServesTruth`, if `Faults = {}` |
| `RestoreProofs!TruthRecoverable` | `Spec => []AlwaysRecoverable`, if `Faults = {}` |
| `RestoreProofs!RestoresAlone` | `Spec => []RestoreIsAlone`, if `Faults = {}` |
| `RestoreProofs!LossConfirmed` | `Spec => LossIsConfirmed`, if `Faults = {}` |
| `LifecycleProofs!ServesSchema` | `MigrationsSpec => []ServesItsSchema` |
| `LifecycleProofs!UpgradesRecoverable` | `MigrationsSpec => UpgradeIsRecoverable` |
| `LifecycleProofs!ForeignLeftAlone` | `MigrationsSpec => ForeignIsLeftAlone` |
| `ExportProofs!TypeCorrect` | `Spec => []TypeOK` |
| `ExportProofs!StaleDiscarded` | `Spec => StaleAnswersDiscarded` |
| `ExportProofs!ExportedTrue` | `Spec => []ExportedIsCurrent`, if `Separate` |
| `ExportProofs!SecondRowsExplained` | `Spec => []SecondRowsOverlap` |
| `ExportProofs!ConfirmedTrue` | `Spec => []ConfirmedIsRemote`, if `Separate` |
| `ExportProofs!SheetAdvances` | `Spec => SheetNeverRegresses`, if `Separate` |
| `StorageProofs!CompletedWhole` | `BackupsSpec => []CompletedIsWhole`, if `"DIRECTORY" \notin Faults` |
| `StorageProofs!HealthyProtected` | `BackupsSpec => []HealthyIsProtected`, under the same condition |
| `StorageProofs!RetentionIsSparing` | `BackupsSpec => RetentionSpares`, under the same condition |
| `StorageProofs!AcceptedElsewhere` | `OffDeviceSpec => []AcceptedIsElsewhere` |
| `StorageProofs!OffersWhole` | `DiscoverySpec => []OffersAreWhole` |
| `StorageProofs!TakesChosen` | `DiscoverySpec => []TakesWhatWasChosen` |
| `DeskProofs!ScreenSellsWhatItShows` | `CheckoutScreenSpec => []SoldAsShown` |
| `DeskProofs!ScreenCartIsKnown` | `CheckoutScreenSpec => []CartIsKnown` |
| `DeskProofs!AccessIsTheOwners` | `GoogleAccessSpec => []ExportsAreTheOwners` |
| `DeskProofs!AccessExplainsSheets` | `GoogleAccessSpec => []SecondSheetsOverlap` |
| `DeskProofs!ReportsAddUp` | `ReportsSpec => []ReportsBalance` |
| `LifecycleProofs!InstallsReady` | `UpdaterSpec => []InstallsWhatIsReady` |
| `LifecycleProofs!EndingsTold` | `SessionsSpec => []EndingsAreTold` |
| `LifecycleProofs!HealthSeen` | `HealthSpec => []HealthIsSeen` |
| `LifecycleProofs!WakesTold` | `WakeSpec => []WakesTruthfully` |

Every invariant and every action property that a passing run checks is stated by
one of these theorems; what is left to TLC is liveness.

Those of `Checkout` hold for every set of requests, products, carts, prices and
rates, from its assumptions alone: quantities, prices, rates and totals are
naturals, a cart wants something, and `Unset` is no rate.

*Type correctness* is not inductive as it stands: a void adds
`before - after` of a recorded SALE movement to the stock, which is a natural
number only because those movements went down. `SalesTakeStock` says so, and
`TypeInv == TypeOK /\ SalesTakeStock` is inductive. That the stock never goes
below zero rests on Phase 2 checking it in the transaction that deducts.

*Payments.* `ChargeOnRecord` needs two more facts: a Card handler that is in
flight before Phase 2 carries an approved row or one still pending whose charge
is known (`InFlightPaid`), and a Card row that awaits payment has a final
fingerprint, method and intended total and no failure (`AwaitsCard`).
`PaymentInv` is their conjunction with `TypeInv`. The same step lemmas prove
`EvidenceIsKept`: each names the one row it writes and why that row was not
final.

*Sales.* `SoldOnce` and `SoldAsCharged` add that a commit needs an eligible row,
that only a commit completes one (`CompletedBefore`), and that the fingerprint
Phase 2 recomputes equals the row's, so that the total it computes is the one
charged.

*The ledger.* `LedgerExplainsStock` needs that a product that was not created
yet has no movements (`NothingBeforeCreation`): its starting quantity is the
first movement. Each transaction that moves goods appends one movement from the
quantity it read to the one it writes (lemma `Explained`); a reversal is a
movement of something because a SALE movement always went down.

*Voids.* `VoidReturnsWhatWasSold` counts movements; what is inductive says it of
each movement (`Matched`): a SALE movement is the only one of its sale and took
what the cart wants, every wanted product has one (`SalesMatch`), a reversal is
the only one of its SALE movement, undoes it and belongs to a voided sale, and
every SALE movement of a voided sale has one (`ReversalsMatch`). There is one
lemma for each thing that can happen to a product: a sale or a void with it or
without it, and a count. The counts follow, as a set with one such member is a
singleton.

*The shop.* `StepImplements` takes each action of `Checkout` to `Record`,
`Refuse`, `Sell`, `Return` or `Count` of `Shop`, or to no step. `ShopInv`, under
which it does, joins what is proved before: that a declined row is never in
flight (`PaymentInv`), else recording a failure would reopen a refusal; that a
row and its sale name each other (`SoldOnce`), else a void would return the goods
of another request; that they agree on the deal (`SoldAsCharged`); and `Matched`,
else a void would put back something other than the goods of the deal.

*Restore.* The theorems hold for any number of sales. Its type depends on which
file has been put in place at which point of the handler (`HandsFull`), as the
same variable holds a database, a torn one or none; this holds whatever
`Faults` is. `TruthInv` says for each place of `app` where the truth is: in
`main` while nothing was touched and after a rollback (`InMain`), in the copy
in hand from its making on (`InCopy`), in the file the marker names from its
writing to its removal (`InMarker`), with no place left without one of them.
`LostIsKept` says that only a failed validation leaves a store lost, and
`Confirmed` that past the marker the owner's token is for this database and
this backup. `Faults = {}` cannot be dropped: each of its two faults alone
refutes `ServesTruth` (`swap_fails`, `marker_stays`, see Findings).

*Migrations.* For any number of versions, any lineages and any number of sales.
`UpgradeInv` says that the tables are those the recorded rows tell of
(`Recorded`), that past the history check the history is one this build knows
(`Read`), that a file without a history holds no sale (`Empty`), and that a
migration of a file with sales goes on only over a recorded backup that holds
all of them (`Gated`). A migration and its row are one transaction, so a crash
anywhere leaves `Recorded`; the next opening starts again at the history check.

*Export jobs.* `JobsInv` adds to the type that every job's target is the revision
of its sale and that its status is EXPORTED exactly if the target was exported
(`Aimed`), and that the sale in hand exists (`InTable`). With it a compare of the
target is a compare with the current revision, which is all `StaleDiscarded`
needs: it holds whatever voids and late writes there are.

*Second rows.* `RowsInv` needs no condition: the write in hand and the late ones
match rows of their own sale (`Matched`), which stay where they are, as nothing
removes a row; and as long as a sale has not been in `overlapped`, its row, its
late append and the append in hand are together at most one (`Single`).

*What the sheet shows* needs `Separate`: no behaviour has both voids and late
writes; `overtaken_write` refutes it otherwise. `SheetInv` says that the behaviour
keeps to its scope (`Scoped`); of the job in hand, that it writes a revision the
sale has or had and that was not confirmed (`Held`); of a late write, that it is of
the only revision there is and the rows it matched are of its sale (`Unanswered`);
of the rows, that each is of a sale and not ahead of it (`Tidy`); of the jobs, that
what they have as exported is there (`Confirmed`); and of the worker, that what it
has read and written is still so (`Seen`). None of them says that a sale has one
row: a second one shows the same as the first.

*Backups.* For any number of runs, services and half days. `BackupsInv` speaks of
every row there is, in the catalogue and in the older catalogues that whole files
hold (`AllRows`), because a restore brings those back: the file of a COMPLETED row
is whole, or was pruned and is past its age (`RowsOK`); no two COMPLETED rows are
about one file (`Unique`); a run has no row before it is recorded and shares its
file with no other run (`RunsOK`, `Apart`); and the run that has reached retention
has just recorded the newest local backup (`Newest`). The last is why retention
cannot take the last local one: the newest is spared, and it is the one just
made. `BackupsAssumption` asks that a copy is called stale before it is old enough
to be pruned (two calendar days in `isAutomaticBackupOverdue`, 14 and 90 days in
`backupSchedule.ts`), without
which a copy could count as recent protection and be gone. The condition on
`Faults` cannot be dropped: `directory_fails` violates `CompletedIsWhole`.

*A folder's verdict.* For any letters and any finite set of disks. `Known` says what
has been found out at each of the four questions; a folder that reaches the write
probe is outside for all that could be found out (`Outside`).

*Discovery.* For any paths, bytes, rows, passes and changes. `Seen` counts how often
the file in hand was replaced by what the pass has seen of it: bytes that are not
whole when they are opened have been replaced once since they were hashed, and
twice if the second hash finds them again. So two changes are what it takes to
have something offered that was not opened, and a row's checksum rules even that
out.

*The New Sale screen.* For any products, requests and any number of calls under way.
`SaleInv`: a request id stands for one review wherever the cart with it has gone,
on the screen or in the queue (`Stands`), and at most one review of this visit is
under way. `NoteInv`: the last note in the queue says whether the screen has a
cart, and calls are served in their order. A call may overtake an edit, but not
another call.

*The Google account.* For any accounts and tokens and any finite set of calls at
once. `AccessInv` adds to the shapes of the variables what is true while nothing has
lapsed and no restore waits for its quarantine (`OwnersCredential`): a credential
that is in force, or is ahead of the settings and would be adopted by the next
startup, is of the account chosen last, unless a call is about to delete it. With
`lapsed` this holds of every behaviour; `restored_connection` shows that it cannot
be left out. `OneSheetInv` says of each spreadsheet outside `overlapped` (`SheetOK`):
there is one and nothing else is on its way, or one creation that may still take
place, or one setup that is creating it. The set of calls is finite so that those
under way can be counted when a crash ends them.

*Reports.* For any finite menu and rates, any zones and any number of sales. Every
total is a fold over a set, so the proof begins with sums over finite sets: a
function that satisfies the fold's recursion exists (`AddsExists`) and is the sum
(`SumIs`), whichever member is drawn first (`SumAdd`). From it come sums of
disjoint sets (`SumSplit`), sums of sums (`SumPlus`), of smaller numbers
(`SumOrder`), of rounded ones (`SumRounded`), and day by day (`SumByDay`), each by
induction on finite sets, as `FiniteInduct` states it for a set in place of a
predicate. The induction is over sets of numbers (`AllNumbers`), from the least
number outside: the operators with a predicate as parameter are out of the
provers' reach. `ReportsInv` says only that a sale's amounts are those of its
lines at some rate; everything else, the rounding of half a cent per sale
included, is arithmetic (`SaleFacts`, `SalesBalance`). `HistoryCounts` walks the
book as the history does.

*The updater.* `InstallsWhatIsReady` is inductive with the type.

*Sessions.* For any number of sessions, records, lines and rotated files.
`SessionsInv` says that only the current session can be alive, that a running
marker is of a session that is alive or was killed, and in that case not yet
recorded or just recorded and about to be replaced (`Process`, `Marker`,
`Endings`); that the log tells of no killed session without a record (`Feed`); and
that a record missing on the disk is too old, or as many newer ones are there as
are kept (`Evidence`). Sessions about which a write failed are in `mistold`, of
which nothing is claimed but that they began.

*Health.* `AskOK` says of a snapshot under way that it has seen each part as it is
now, that a part it calls healthy was so at some time since it began, on a database
that was serving then, and that a database it lost does not come back to it.
`HealthAssumption` names the seven parts; any of them but the database may be left
out.

*Wake.* While the station is awake and the resume was served, the baseline lags the
clock only if somebody set it (`LagIsSetting`).

## Findings

1. **A charge can be forgotten** (`forgotten_charge`). If the process dies after
   Step B, or the best-effort record of a failed Phase 2 is lost, the approved
   row stays `SUBMITTED`. The reconciliation queue lists `COMMIT_FAILED` and
   stale `PENDING_PAYMENT` only. `docs/DATA_MODEL.md:2789` says the queue exists
   so that such a charge is never forgotten. The same row denies a restore for
   good.
2. **A second row** (`second_row`). A computer sleeps for five minutes with an
   append in hand. On resume `recoverStale` returns the job to PENDING
   (`src/main/index.ts:335`) while the request is still in hand; its abort is an
   unknown outcome, the loop claims the job at once and reads the column before
   the append lands: both append. A connection that breaks is enough too, as it
   counts as a definite failure (`googleRedaction.ts:216`) and is retried.
   REQ-GSHEET-007 (`docs/PRODUCT_REQUIREMENTS.md:1131`) says that a retry creates
   no second row, and the comment at `exportWorker.ts:341` avoids just this on a
   shutdown.
3. **An overtaken write** (`overtaken_write`). A void requeues a job at once,
   although a write of the old revision may still be on its way. Landing after
   the new one it leaves an old or a second row for good, against REQ-GSHEET-007
   and the comment at `src/main/google/exportWorker.ts:188`.
4. **A swap that fails twice** (`swap_fails`). After a failed swap the marker is
   cleared even if putting the original back failed.
5. **A marker that stays** (`marker_stays`). Failing to remove it is swallowed; a
   later launch undoes everything since.
6. **A drive that vanishes takes the local backup along** (`directory_fails`). The
   `mkdir` of the off-device copy is outside of any `try`
   (`src/main/backup/offDeviceCopy.ts:73`); when it rejects, the outer handler
   removes the local artifact whose COMPLETED row was committed before.
   `docs/DATA_MODEL.md:3321` says that a failed off-device copy does not change
   the completed local record.
7. **The cart behind a Card attempt is not frozen** (`frozen`). A barcode lookup
   that is answered while the attempt awaits payment sets the cart it closed over
   (`CheckoutPage.tsx:193`), which drops the review and the request id; a customer
   being created and a second review do the same. The comment at
   `cardCheckout.ts:55-60` says that no edit may rewrite the request;
   `isCardCheckoutLocked` is called by no component.
8. **A restored connection** (`restored_connection`). The quarantine after a restore
   can fail or be cut off by a crash. Work starts anyway (`src/main/index.ts:369-375`),
   and where the credential file is ahead of the restored settings, the startup takes
   it for an interrupted sign-in and adopts it. `docs/ARCHITECTURE.md:916-925` and
   `googleConfigService.ts:61-62` say that an explicit connect is always required
   and that nothing is adopted after a restore.

## What is only model-checked, and what is not modelled

Liveness (`EverySaleLeaves`, `EventuallyServes`, `OwedIsTaken`) is out of the
reach of the prover and checked by TLC only, and so are the eight violations.

Not modelled, and why:

* customers, printing, the layout of receipts and of the cells of an export:
  plain records and formatting that no other part reads;
* the screens for products, customers and history. Two of them have a late answer
  without a guard, as the New Sale screen has, but nothing is decided by what they
  show: `refresh` of the products page and `openReceipt` of the history may show
  an older answer over a newer one;
* building, packaging, release and test scripts: not part of the running program;
* what the shape checks of a payload refuse: such a call changes nothing;
* of the Google account: the re-encryption of the credential when its key is rotated
  (`loadCredential`), the marker for an authorization that Google has revoked, the
  time Drive takes to list a new spreadsheet, and a deletion of the credential that
  a restore overtakes. "Retry Setup" and `resolveExportContext` are one action at
  the reading of the credential;
* rows of `PRE_MIGRATION` backups in `Backups`: a restore of one counts them among
  the local survivors of retention (`backupRetention.ts:56`);
* a total above the ceiling of a sale in `Reports`: the sale is refused;
* a person who edits the spreadsheet while the worker writes by row number, or a
  backup file in place between its verification and its use within one await.

Noted while modelling, mostly with no document that says otherwise: the activity feed
says of a window that crashed that it was restarted, though nothing restarts it;
a resume that comes while the database is closed throws in the getter and loses
the rest of its listener (`Wake` models that); the intended total of a Cash request
is what Phase 1 recalculated, where `docs/DATA_MODEL.md:2934` says "reviewed". What
is left out of a modelled part is in the notes of `components` in `PROJECT.json`.

Two setups can make two spreadsheets of one token: "Retry Setup" is pressed again
after Settings was left and opened, or a creation takes place after the recheck
(`spreadsheetProvisioning.ts:134`) and the owner retries before that.
`SecondSheetsOverlap` says that nothing else does. REQ-GSHEET-017 and
`docs/ARCHITECTURE.md` 27.5.1 speak of exactly one spreadsheet; the comment at
`spreadsheetProvisioning.ts:84` admits the late creation.

Noted while proving, beyond what the runs reach:

* The drive can lose its last whole copy to retention. A restore brings back an
  older catalogue with the row of an automatic copy that was pruned since; the row
  is COMPLETED and the newest one there, so the plan spares it, and removes the
  last copy that is whole, a manual one past its age. The comment at
  `src/main/backup/backupRetention.ts:24` says that "the single most recent verified
  usable backup is never pruned", per location. TLC finds it with seven half days,
  four runs and four upsets, which takes longer than a run here should;
  `RetentionSpares` therefore claims something of the drive only while no COMPLETED
  row there is of a copy that retention removed.
* A file that no row names, replaced after it was hashed and put back after it was
  opened, twice under one time stamp, is offered with bytes that nobody opened: the
  second hash (`src/main/backup/backupDiscovery.ts:279`) finds what the first found.
  `OffersAreWhole` leaves that case out in so many words.

## Plan

Done: the core (`Shop`, `Checkout`), the export, the restore, then the modules of
the station in the order of what they can lose: backups, migrations, Google
account, New Sale screen, discovery and off-device check, updater, reports,
sessions, health, wake; the proofs of all their invariants and action properties,
with the refinement of `Shop`.

Left, in order:

1. An abstract specification of the export (a sale has at most one row, which only
   advances) and the proof that `ExportWorker` implements it where `Separate`
   holds, as `ExportInv` already has the mapping.
2. The same for `Restore`: one store that is either served, lost or replaced.
3. The screens for products and history, with the generation guards they lack.
