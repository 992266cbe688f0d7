------------------------------ MODULE GoogleAccess -----------------------------
(* Connecting a Google account, setting up its spreadsheet and handing both to *)
(* the exports (src/main/google/googleConfigService.ts, oauthFlow.ts,          *)
(* googleCredentialStore.ts, spreadsheetProvisioning.ts,                       *)
(* src/main/settings/googleSettingsRepository.ts, the activation of a database *)
(* in src/main/index.ts).                                                      *)
(*                                                                             *)
(* The credential is in a file of its own, outside the database, and a restore *)
(* puts back the settings alone.  The owner's calls and the two tasks of the   *)
(* startup run side by side, one action between two awaits.  The buttons are   *)
(* disabled while a call is under way, but only until the Settings screen is   *)
(* left; the service itself allows any number of calls, and one sign-in at a   *)
(* time.  Drive shows a spreadsheet once it was created.                       *)
(*                                                                             *)
(* chosen, lapsed and overlapped are history: no action depends on them.       *)
EXTENDS Integers, FiniteSets

CONSTANTS
  Accounts,     \* Google accounts
  Calls,        \* the owner's calls: as many may be under way at once
  MaxConnects,  \* bound on the sign-ins
  MaxTokens,    \* bound on the provisioning tokens ever made
  MaxBreaks,    \* bound on crashes, restores, disconnects, and on the requests, the
                \* deletions and the quarantines that fail
  NoAccount     \* nobody

ASSUME CallsAssumption ==
  IsFiniteSet(Calls) /\ Calls \cap {"RECONCILER", "PROVISIONER"} = {}

VARIABLES
  access,     \* the google_* settings
  secret,     \* google-oauth.enc
  saved,      \* the settings in a backup
  station,    \* where the application is
  jobs,       \* the calls of the owner and the two tasks of the startup
  drives,     \* spreadsheets on Drive by account and token
  late,       \* creations whose answer nobody waits for and that may still take place
  handed,     \* the spreadsheet an export in flight was given
  chosen,     \* what the owner said last, and of which account
  lapsed,     \* a credential is about that the owner did not choose; see Lapses
  overlapped, \* spreadsheets that a setup began to create while an earlier creation
              \* of the same one had not come to rest
  connects,   \* see MaxConnects
  tokensMade, \* see MaxTokens
  breaks      \* see MaxBreaks

local == <<access, saved, handed>>
remote == <<drives, late, overlapped>>
said == <<chosen, lapsed>>
accessVars == <<local, remote, said, secret, station, jobs, connects, tokensMade, breaks>>

Sheet == [account: Accounts, token: 1..MaxTokens]
NoSheet == [account |-> NoAccount, token |-> 0]

NoSettings == [gen |-> 0, active |-> FALSE, sheet |-> NoSheet, enabled |-> FALSE,
               quarantine |-> FALSE, attempted |-> FALSE, token |-> 0]
NoSecret == [gen |-> 0, account |-> NoAccount]

Tasks == {"RECONCILER", "PROVISIONER"}
Workers == Calls \cup Tasks
NoJob == [pc |-> "IDLE", account |-> NoAccount, gen |-> 0, token |-> 0, connect |-> FALSE]

Break == breaks < MaxBreaks /\ breaks' = breaks + 1

\* loadActiveCredential: the generations agree and no restore has come between.
Active == /\ ~access.quarantine /\ access.active /\ access.gen > 0
          /\ secret.gen = access.gen

\* resolveExportContext.
Context == /\ access.enabled /\ access.sheet # NoSheet
           /\ Active

Ready(w) == station = "UP" /\ jobs[w] = NoJob
Job(w, job) == jobs' = [jobs EXCEPT ![w] = job]
Says(word, account) == chosen' = [word |-> word, account |-> account]

-------------------------------------------------------------------------------
(* Connecting.                                                                 *)

\* runOAuthFlow waits for the browser.
BeginSignIn(w) ==
  /\ Ready(w) /\ connects < MaxConnects
  /\ \A v \in Calls: jobs[v].pc # "SIGN_IN"
  /\ Job(w, [NoJob EXCEPT !.pc = "SIGN_IN", !.connect = TRUE])
  /\ connects' = connects + 1
  /\ UNCHANGED <<local, remote, said, secret, station, tokensMade, breaks>>

\* It may be denied, time out or be cancelled, and the file may fail to be written.
SignInFails(w) ==
  /\ jobs[w].pc \in {"SIGN_IN", "WRITING", "ADRIFT"}
  /\ Job(w, NoJob)
  /\ UNCHANGED <<local, remote, said, secret, station, connects, tokensMade, breaks>>

\* The generation is read before the file is encrypted and written.
SignedIn(w, a) ==
  /\ jobs[w].pc = "SIGN_IN"
  /\ Job(w, [jobs[w] EXCEPT !.pc = "WRITING", !.account = a, !.gen = access.gen + 1])
  /\ UNCHANGED <<local, remote, said, secret, station, connects, tokensMade, breaks>>

\* The file is replaced before the generation that names it is committed.  Two written at
\* once share one temporary file.
WriteCredential(w) ==
  /\ jobs[w].pc = "WRITING"
  /\ secret' = [gen |-> jobs[w].gen, account |-> jobs[w].account]
  /\ Says("CONNECT", jobs[w].account)
  /\ lapsed' = \E v \in Calls \ {w}: jobs[v].pc \in {"WRITING", "ADRIFT"}
  /\ Job(w, [jobs[w] EXCEPT !.pc = "WRITTEN"])
  /\ UNCHANGED <<local, remote, station, connects, tokensMade, breaks>>

\* writeCredential of a call whose database a restore has closed; its commit fails.
WriteAdrift(w) ==
  /\ jobs[w].pc = "ADRIFT"
  /\ secret' = [gen |-> jobs[w].gen, account |-> jobs[w].account]
  /\ lapsed' = (lapsed \/ station # "SWAPPED")
  /\ Job(w, NoJob)
  /\ UNCHANGED <<local, remote, chosen, station, connects, tokensMade, breaks>>

Connected(gen) ==
  [access EXCEPT !.gen = gen, !.active = TRUE, !.quarantine = FALSE]

\* ensureProvisioned: the token is made once and kept.
WithToken(settings) ==
  IF settings.token # 0 THEN settings ELSE [settings EXCEPT !.token = tokensMade + 1]
Provision(w, job, settings) ==
  /\ settings.token # 0 \/ tokensMade < MaxTokens
  /\ tokensMade' = IF settings.token # 0 THEN tokensMade ELSE tokensMade + 1
  /\ access' = WithToken(settings)
  /\ Job(w, [job EXCEPT !.pc = "LOOKUP", !.token = WithToken(settings).token])

CommitConnect(w) ==
  /\ jobs[w].pc = "WRITTEN"
  /\ Provision(w, jobs[w], Connected(jobs[w].gen))
  /\ UNCHANGED <<saved, handed, remote, said, secret, station, connects, breaks>>

RetrySetup(w) ==
  /\ Ready(w) /\ Active
  /\ Provision(w, [NoJob EXCEPT !.account = secret.account], access)
  /\ UNCHANGED <<saved, handed, remote, said, secret, station, connects, breaks>>

-------------------------------------------------------------------------------
(* provisionSpreadsheet.                                                       *)

Wanted(w) == [account |-> jobs[w].account, token |-> jobs[w].token]
Creating(s) == {w \in Workers: jobs[w].pc = "CREATE" /\ Wanted(w) = s}

Adopt(w) == Job(w, [jobs[w] EXCEPT !.pc = "CONVERGE"]) /\ UNCHANGED local
Incomplete(w) ==
  /\ access' = [access EXCEPT !.sheet = NoSheet] /\ UNCHANGED <<saved, handed>>
  /\ Job(w, NoJob)

\* The attempt is recorded before it is made.
BeginCreate(w) ==
  /\ access' = [access EXCEPT !.attempted = TRUE] /\ UNCHANGED <<saved, handed>>
  /\ Job(w, [jobs[w] EXCEPT !.pc = "CREATE"])
  /\ overlapped' = IF late[Wanted(w)] > 0 \/ Creating(Wanted(w)) # {}
                   THEN overlapped \cup {Wanted(w)} ELSE overlapped

\* Mutated: a call creates without looking.
CreateWithoutLookup(w) ==
  /\ jobs[w].pc = "LOOKUP"
  /\ BeginCreate(w)
  /\ UNCHANGED <<drives, late, said, secret, station, connects, tokensMade, breaks>>

\* One match is adopted; where there is none, one is created for a call of the owner only.
Lookup(w) ==
  /\ jobs[w].pc = "LOOKUP"
  /\ LET matches == drives[Wanted(w)] IN
     \/ matches = 1 /\ Adopt(w) /\ UNCHANGED overlapped
     \/ matches = 0 /\ w \in Calls /\ BeginCreate(w)
     \/ /\ matches > 1 \/ (matches = 0 /\ w \notin Calls)
        /\ Incomplete(w) /\ UNCHANGED overlapped
  /\ UNCHANGED <<drives, late, said, secret, station, connects, tokensMade, breaks>>

\* A request without an answer has created the spreadsheet, will create it, or never does.
CreateUnanswered(s) ==
  \/ UNCHANGED <<drives, late>>
  \/ drives' = [drives EXCEPT ![s] = @ + 1] /\ UNCHANGED late
  \/ late' = [late EXCEPT ![s] = @ + 1] /\ UNCHANGED drives

Create(w) ==
  /\ jobs[w].pc = "CREATE"
  /\ \/ /\ drives' = [drives EXCEPT ![Wanted(w)] = @ + 1]
        /\ Adopt(w) /\ UNCHANGED <<late, breaks>>
     \/ /\ Break
        /\ CreateUnanswered(Wanted(w))
        /\ Job(w, [jobs[w] EXCEPT !.pc = "RECHECK"]) /\ UNCHANGED local
  /\ UNCHANGED <<overlapped, said, secret, station, connects, tokensMade>>

\* A lookup that fails, or a creation that is taken to have failed.
RequestFails(w) ==
  /\ jobs[w].pc \in {"LOOKUP", "CREATE", "RECHECK", "CONVERGE"}
  /\ Break
  /\ IF jobs[w].pc = "CREATE" THEN CreateUnanswered(Wanted(w)) ELSE UNCHANGED <<drives, late>>
  /\ Incomplete(w)
  /\ UNCHANGED <<overlapped, said, secret, station, connects, tokensMade>>

CreatedLate(s) ==
  /\ late[s] > 0
  /\ late' = [late EXCEPT ![s] = @ - 1]
  /\ drives' = [drives EXCEPT ![s] = @ + 1]
  /\ UNCHANGED <<local, overlapped, said, secret, station, jobs, connects, tokensMade,
                 breaks>>

Recheck(w) ==
  /\ jobs[w].pc = "RECHECK"
  /\ IF drives[Wanted(w)] = 1 THEN Adopt(w) ELSE Incomplete(w)
  /\ UNCHANGED <<remote, said, secret, station, connects, tokensMade, breaks>>

\* The worksheets are there and verified.
Converge(w) ==
  /\ jobs[w].pc = "CONVERGE"
  /\ access' = [access EXCEPT !.sheet = Wanted(w)] /\ UNCHANGED <<saved, handed>>
  /\ Job(w, IF jobs[w].connect THEN [jobs[w] EXCEPT !.pc = "ENABLE"] ELSE NoJob)
  /\ UNCHANGED <<remote, said, secret, station, connects, tokensMade, breaks>>

Enable(w) ==
  /\ jobs[w].pc = "ENABLE"
  /\ access' = [access EXCEPT !.enabled = TRUE] /\ UNCHANGED <<saved, handed>>
  /\ Job(w, NoJob)
  /\ UNCHANGED <<remote, said, secret, station, connects, tokensMade, breaks>>

-------------------------------------------------------------------------------
(* The owner's other operations, and the exports.                              *)

\* setEnabled(true) awaits the credential between its checks and its write.
SwitchOn(w) ==
  /\ Ready(w) /\ ~access.enabled /\ Active /\ access.sheet # NoSheet
  /\ Job(w, [NoJob EXCEPT !.pc = "ENABLE"])
  /\ UNCHANGED <<local, remote, said, secret, station, connects, tokensMade, breaks>>

SwitchOff(w) ==
  /\ Ready(w) /\ access.enabled
  /\ access' = [access EXCEPT !.enabled = FALSE]
  /\ UNCHANGED <<saved, handed, remote, said, secret, station, jobs, connects, tokensMade,
                 breaks>>

\* A connection that is written and not yet committed, and a credential that the startup
\* has read and not yet adopted, come after a disconnect.
Underway == \E w \in Workers: jobs[w].pc \in {"WRITTEN", "RECONCILE"}

\* writeCredentialDisconnected: the settings first, the file after an await.
Disconnect(w) ==
  /\ Ready(w) /\ Break
  /\ access' = [NoSettings EXCEPT !.gen = access.gen, !.token = access.token]
  /\ Says("DISCONNECT", NoAccount)
  /\ lapsed' = (lapsed \/ Underway)
  /\ Job(w, [NoJob EXCEPT !.pc = "DELETE"])
  /\ UNCHANGED <<saved, handed, remote, secret, station, connects, tokensMade>>

DeleteCredential(w) ==
  /\ jobs[w].pc = "DELETE"
  /\ secret' = NoSecret
  /\ lapsed' = FALSE
  /\ Job(w, NoJob)
  /\ UNCHANGED <<local, remote, chosen, station, connects, tokensMade, breaks>>

\* A failing rm is not reported.
DeleteFails(w) ==
  /\ jobs[w].pc = "DELETE" /\ Break
  /\ lapsed' = (lapsed \/ secret.gen > access.gen)
  /\ Job(w, NoJob)
  /\ UNCHANGED <<local, remote, chosen, secret, station, connects, tokensMade>>

HandOut ==
  /\ station = "UP" /\ handed = NoSheet /\ Context
  /\ handed' = access.sheet
  /\ UNCHANGED <<access, saved, remote, said, secret, station, jobs, connects, tokensMade,
                 breaks>>

\* invalidateSpreadsheetTarget: only the spreadsheet that still is the one.
ExportEnds ==
  /\ handed # NoSheet
  /\ access' \in {access, [access EXCEPT !.sheet = IF @ = handed THEN NoSheet ELSE @]}
  /\ handed' = NoSheet
  /\ UNCHANGED <<saved, remote, said, secret, station, jobs, connects, tokensMade, breaks>>

-------------------------------------------------------------------------------
(* Backup, restore, crash and startup.                                         *)

SaveSettings ==
  /\ station = "UP" /\ saved # access
  /\ saved' = access
  /\ UNCHANGED <<access, handed, remote, said, secret, station, jobs, connects, tokensMade,
                 breaks>>

\* No setup goes on; what it was about to create may still take place.
SetupsEnd == late' = [s \in Sheet |-> late[s] + Cardinality(Creating(s))]

\* The database of every call is closed, the export worker has stopped; a file that is
\* being written still is.
PutBack ==
  /\ station = "UP" /\ Break
  /\ access' = saved
  /\ station' = "SWAPPED"
  /\ jobs' = [w \in Workers |-> IF jobs[w].pc \in {"WRITING", "ADRIFT"}
                                THEN [jobs[w] EXCEPT !.pc = "ADRIFT"] ELSE NoJob]
  /\ SetupsEnd
  /\ Says("RESTORE", NoAccount)
  /\ handed' = NoSheet
  /\ UNCHANGED <<saved, drives, overlapped, lapsed, secret, connects, tokensMade>>

\* Mutated: generations that agree are taken to be of one account.
PrepareByGeneration ==
  /\ station = "SWAPPED"
  /\ access' = [access EXCEPT !.quarantine =
                  @ \/ secret.gen > access.gen \/ (access.active /\ secret.gen < access.gen)]
  /\ station' = "STARTING"
  /\ UNCHANGED <<saved, handed, remote, said, secret, jobs, connects, tokensMade, breaks>>

\* prepareRestoredCredentialState.
PrepareRestored ==
  /\ station = "SWAPPED"
  /\ access' = [access EXCEPT !.quarantine =
                  @ \/ access.active \/ secret.gen > access.gen]
  /\ station' = "STARTING"
  /\ UNCHANGED <<saved, handed, remote, said, secret, jobs, connects, tokensMade, breaks>>

\* The quarantine cannot be written, or the credential not be read; the work starts anyway.
PrepareFails ==
  /\ station = "SWAPPED" /\ Break
  /\ access' \in {access, [access EXCEPT !.quarantine = @ \/ access.active]}
  /\ station' = "STARTING"
  /\ lapsed' = TRUE
  /\ UNCHANGED <<saved, handed, remote, chosen, secret, jobs, connects, tokensMade>>

\* What a crash leaves undone: the quarantine of a restore, and the deletion of a
\* credential that is ahead of the settings.
Undone ==
  \/ station = "SWAPPED"
  \/ secret.gen > access.gen /\ \E w \in Workers: jobs[w].pc = "DELETE"

CutOff ==
  /\ station # "DOWN" /\ Break
  /\ station' = "DOWN"
  /\ jobs' = [w \in Workers |-> NoJob]
  /\ SetupsEnd
  /\ lapsed' = (lapsed \/ Undone)
  /\ handed' = NoSheet
  /\ UNCHANGED <<access, saved, drives, overlapped, chosen, secret, connects, tokensMade>>

LaunchAgain ==
  /\ station = "DOWN"
  /\ station' = "STARTING"
  /\ UNCHANGED <<local, remote, said, secret, jobs, connects, tokensMade, breaks>>

\* What reconcileAtStartup will do to the settings and the file it has read: adopt a
\* credential that is ahead, discard one that is behind or no longer named.
Reconciling ==
  IF access.quarantine \/ secret.gen = 0 THEN NoJob
  ELSE IF secret.gen > access.gen THEN [NoJob EXCEPT !.pc = "RECONCILE", !.gen = secret.gen]
  ELSE IF secret.gen < access.gen \/ ~access.active THEN [NoJob EXCEPT !.pc = "DISCARD"]
  ELSE NoJob

\* What ensureProvisionedIfNeeded will look for.
Resuming ==
  IF Active /\ access.sheet = NoSheet /\ access.attempted
  THEN [NoJob EXCEPT !.pc = "LOOKUP", !.account = secret.account, !.token = access.token]
  ELSE NoJob

\* Both have read before either goes on; neither does where the file cannot be decrypted.
StartWork ==
  /\ station = "STARTING"
  /\ station' = "UP"
  /\ \E reconciling \in {Reconciling, NoJob}, resuming \in {Resuming, NoJob}:
       jobs' = [jobs EXCEPT !["RECONCILER"] = reconciling, !["PROVISIONER"] = resuming]
  /\ UNCHANGED <<local, remote, said, secret, connects, tokensMade, breaks>>

Reconcile ==
  /\ jobs["RECONCILER"].pc = "RECONCILE"
  /\ access' = Connected(jobs["RECONCILER"].gen)
  /\ Job("RECONCILER", NoJob)
  /\ UNCHANGED <<saved, handed, remote, said, secret, station, connects, tokensMade, breaks>>

\* A failing rm leaves the file to the next startup.
Discard ==
  /\ jobs["RECONCILER"].pc = "DISCARD"
  /\ secret' \in {NoSecret, secret}
  /\ Job("RECONCILER", NoJob)
  /\ UNCHANGED <<local, remote, said, station, connects, tokensMade, breaks>>

-------------------------------------------------------------------------------

GoogleAccessInit ==
  /\ access = NoSettings /\ saved = NoSettings /\ handed = NoSheet
  /\ secret = NoSecret
  /\ station = "UP"
  /\ jobs = [w \in Workers |-> NoJob]
  /\ drives = [s \in Sheet |-> 0] /\ late = [s \in Sheet |-> 0] /\ overlapped = {}
  /\ chosen = [word |-> "NOTHING", account |-> NoAccount] /\ lapsed = FALSE
  /\ connects = 0 /\ tokensMade = 0 /\ breaks = 0

CallStep(w) ==
  \/ BeginSignIn(w) \/ SignInFails(w) \/ WriteCredential(w) \/ WriteAdrift(w)
  \/ \E a \in Accounts: SignedIn(w, a)
  \/ CommitConnect(w) \/ RetrySetup(w)
  \/ Enable(w) \/ SwitchOn(w) \/ SwitchOff(w)
  \/ Disconnect(w) \/ DeleteCredential(w) \/ DeleteFails(w)

ProvisionStep(w) ==
  Lookup(w) \/ Create(w) \/ Recheck(w) \/ Converge(w) \/ RequestFails(w)

GoogleAccessNext ==
  \/ \E w \in Calls: CallStep(w)
  \/ \E w \in Workers: ProvisionStep(w)
  \/ \E s \in Sheet: CreatedLate(s)
  \/ HandOut \/ ExportEnds
  \/ SaveSettings \/ PutBack \/ PrepareRestored \/ PrepareFails
  \/ CutOff \/ LaunchAgain \/ StartWork \/ Reconcile \/ Discard

GoogleAccessSpec == GoogleAccessInit /\ [][GoogleAccessNext]_accessVars

-------------------------------------------------------------------------------
(* Properties.                                                                 *)

\* Exports go out under the account the owner connected last, and under none since a
\* disconnect or a restore: no crash between the file and its generation, and no
\* generation that a restored database repeats, gives them another
\* (googleConfigService.ts:575).  Until the owner's next connection or deletion nothing is
\* claimed where a restore was not quarantined, where a credential that leads the settings
\* outlived its disconnect, or where two calls crossed: see the actions that set lapsed.
ExportsAreTheOwners ==
  station = "UP" /\ Context /\ ~lapsed => secret.account = chosen.account

\* ARCHITECTURE 27.4: after a restore nothing is treated as connected before the owner
\* has connected again.
RestoreAsksForConnect ==
  station = "UP" /\ chosen.word = "RESTORE" => ~Active

\* However a setup was interrupted, retried or begun again, one provisioning token makes a
\* second spreadsheet in an account only where a setup looked for the first while its
\* creation was under way or had been given up without an answer
\* (spreadsheetProvisioning.ts:84).
SecondSheetsOverlap == \A s \in Sheet \ overlapped: drives[s] <= 1
===============================================================================
