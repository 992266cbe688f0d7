-------------------------------- MODULE Restore --------------------------------
(* Whole-database restore and the recovery of an interrupted one               *)
(* (src/main/backup/restoreService.ts, databaseSwap.ts,                        *)
(* src/main/maintenance/maintenanceCoordinator.ts, restoreMarker.ts,           *)
(* src/main/app/startupRestoreRecovery.ts, the startup of src/main/index.ts).  *)
(*                                                                             *)
(* The process may die between any two effects on the disk; a restore is one   *)
(* action per effect, with app where the process is.  The content of a         *)
(* database is its completed sales and whether a checkout attempt in it is     *)
(* still outstanding; Checkout says how those come about.                      *)
(*                                                                             *)
(* Operators whose comment starts with "Mutated:" are defective variants of    *)
(* the definition that follows them; no specification uses them.               *)
EXTENDS Naturals

CONSTANTS
  MaxSales,  \* bound on the sales ever completed
  NoFile,    \* no such file, or none in hand
  Torn,      \* a file whose copying was cut short
  Faults     \* faults on top of crashes and failing swaps and validations:
             \* "ROLLBACK": putting the original back after a failed swap fails too
             \* "MARKER": the marker's file cannot be removed

ASSUME RestoreAssumption ==
  /\ MaxSales \in Nat
  /\ Faults \subseteq {"ROLLBACK", "MARKER"}
  /\ NoFile # Torn

VARIABLES
  main,     \* the operational database file
  marker,   \* restore-in-progress.json: the recovery copy it names
  backup,   \* a verified backup file
  app,      \* the process: where it is and what it holds
  cart,     \* draftCartOpen
  token,    \* the confirmation token the owner was given
  truth,    \* what the database must hold: the last sale or restore decided it
  sold      \* sales ever completed

vars == <<main, marker, backup, app, cart, token, truth, sold>>

Content == [sales: SUBSET (1..MaxSales), card: BOOLEAN]

ASSUME FileAssumption == NoFile \notin Content /\ Torn \notin Content

\* What migrations make of a file that does not exist.
Fresh == [sales |-> {}, card |-> FALSE]

\* Where the process is.  From CLAIMED to RESTORED a restore holds the exclusive
\* claim; a database is open in SERVING and up to MARKED.
Stopped == {"DOWN", "UNAVAILABLE"}
Restoring == {"CLAIMED", "PREPARED", "MARKED", "CLOSED", "SWAPPED", "RESTORED",
              "ROLLBACK", "COPYING", "ROLLED_BACK", "LOST"}
Starting == {"STARTUP_COPYING", "STARTUP_COPIED"}

\* cause: what the rollback under way is for.
App == [at: {"SERVING"} \cup Stopped \cup Restoring \cup Starting,
        copied: Content \cup {NoFile}, candidate: Content \cup {NoFile},
        cause: {"NONE", "SWAP", "VALIDATION"}]

At(place) == [at |-> place, copied |-> NoFile, candidate |-> NoFile, cause |-> "NONE"]
Go(place) == app' = [app EXCEPT !.at = place]

Token == [candidate: Content, content: Content]

\* exclusiveOwner.  A channel is served while a database is open and no restore
\* owns it.
Exclusive == app.at \in Restoring
Serving == app.at = "SERVING"

-------------------------------------------------------------------------------
(* The business while it is open.                                              *)

Write(content) == main' = content /\ truth' = content

\* A Card attempt starts; until it is settled it may have been charged.
BeginCard ==
  /\ Serving
  /\ ~main.card
  /\ Write([main EXCEPT !.card = TRUE])
  /\ UNCHANGED <<marker, backup, app, cart, token, sold>>

\* It is declined or resolved without a sale.
SettleCard ==
  /\ Serving
  /\ main.card
  /\ Write([main EXCEPT !.card = FALSE])
  /\ UNCHANGED <<marker, backup, app, cart, token, sold>>

\* A sale completes, maybe that of the outstanding attempt.
Sell ==
  /\ Serving
  /\ sold < MaxSales
  /\ sold' = sold + 1
  /\ \E card \in {main.card, FALSE} :
       Write([sales |-> main.sales \cup {sold + 1}, card |-> card])
  /\ UNCHANGED <<marker, backup, app, cart, token>>

\* noteDraftCartActivity: a cart is not accepted while a restore owns the
\* database; clearing one always is.
OpenCart ==
  /\ Serving
  /\ ~cart
  /\ cart' = TRUE
  /\ UNCHANGED <<main, marker, backup, app, token, truth, sold>>

CloseCart ==
  /\ cart
  /\ cart' = FALSE
  /\ UNCHANGED <<main, marker, backup, app, token, truth, sold>>

TakeBackup ==
  /\ Serving
  /\ backup' = main
  /\ UNCHANGED <<main, marker, app, cart, token, truth, sold>>

-------------------------------------------------------------------------------
(* restoreService.restore                                                      *)

\* Mutated: only a cart blocks the claim.
FreeIgnoringCards == ~cart

\* tryAcquireExclusive: no cart is open and no checkout is outstanding.
Free == ~cart /\ ~main.card

Claim ==
  /\ Serving
  /\ Free
  /\ backup # NoFile
  /\ app' = [At("CLAIMED") EXCEPT !.candidate = backup]
  /\ UNCHANGED <<main, marker, backup, cart, token, truth, sold>>

\* A failure before the swap: the candidate or the copy does not verify.
GiveUp ==
  /\ app.at \in {"CLAIMED", "PREPARED"}
  /\ app' = At("SERVING")
  /\ UNCHANGED <<main, marker, backup, cart, token, truth, sold>>

\* makeVerifiedPreRestoreCopy
Prepare ==
  /\ app.at = "CLAIMED"
  /\ app' = [app EXCEPT !.at = "PREPARED", !.copied = main]
  /\ UNCHANGED <<main, marker, backup, cart, token, truth, sold>>

Minted == [candidate |-> app.candidate, content |-> main]

\* CONFIRMATION_REQUIRED, without a token or with one that is stale or expired:
\* the claim is released while the owner thinks.
AskOwner ==
  /\ app.at = "PREPARED"
  /\ token' = Minted
  /\ app' = At("SERVING")
  /\ UNCHANGED <<main, marker, backup, cart, truth, sold>>

\* Mutated: the token is bound to the candidate alone.
MarkForCandidate ==
  /\ app.at = "PREPARED"
  /\ token # NoFile
  /\ token.candidate = app.candidate
  /\ marker' = app.copied
  /\ Go("MARKED")
  /\ UNCHANGED <<main, backup, cart, token, truth, sold>>

\* Mutated: no marker is written.
MarkNothing ==
  /\ app.at = "PREPARED"
  /\ token = Minted
  /\ Go("MARKED")
  /\ UNCHANGED <<main, marker, backup, cart, token, truth, sold>>

\* The owner's token still matches the candidate and the database.
Mark ==
  /\ app.at = "PREPARED"
  /\ token = Minted
  /\ marker' = app.copied
  /\ Go("MARKED")
  /\ UNCHANGED <<main, backup, cart, token, truth, sold>>

Close ==
  /\ app.at = "MARKED"
  /\ Go("CLOSED")
  /\ UNCHANGED <<main, marker, backup, cart, token, truth, sold>>

\* stageAndActivate renames the old file aside, then the staged one into place.
Aside ==
  /\ app.at = "CLOSED"
  /\ main # NoFile
  /\ main' = NoFile
  /\ UNCHANGED <<marker, backup, app, cart, token, truth, sold>>

Swap ==
  /\ app.at = "CLOSED"
  /\ main = NoFile
  /\ main' = app.candidate
  /\ Go("SWAPPED")
  /\ UNCHANGED <<marker, backup, cart, token, truth, sold>>

\* It fails: at the copy or the first rename, or at the second, after which the
\* old file may not come back either.
SwapFails ==
  /\ app.at = "CLOSED"
  /\ main' \in {main, app.copied}
  /\ app' = [app EXCEPT !.at = "ROLLBACK", !.cause = "SWAP"]
  /\ UNCHANGED <<marker, backup, cart, token, truth, sold>>

\* The restored database opens and assertRestoredDatabaseUsable accepts it.
Validate ==
  /\ app.at = "SWAPPED"
  /\ Go("RESTORED")
  /\ UNCHANGED <<main, marker, backup, cart, token, truth, sold>>

ValidateFails ==
  /\ app.at = "SWAPPED"
  /\ app' = [app EXCEPT !.at = "ROLLBACK", !.cause = "VALIDATION"]
  /\ UNCHANGED <<main, marker, backup, cart, token, truth, sold>>

\* clearRestoreMarker swallows its failure.
ClearMarker ==
  \/ marker' = NoFile
  \/ "MARKER" \in Faults /\ UNCHANGED marker

\* Activated, marker cleared, claim released: the owner is told COMPLETED.
Complete ==
  /\ app.at = "RESTORED"
  /\ ClearMarker
  /\ truth' = main
  /\ app' = At("SERVING")
  /\ UNCHANGED <<main, backup, cart, token, sold>>

-------------------------------------------------------------------------------
(* recoverToOriginal                                                           *)

\* Whether putting the original back may fail.
CopyMayFail == app.cause = "VALIDATION" \/ "ROLLBACK" \in Faults

\* restoreFromRecoveryCopy removes what is there first.
RemoveMain ==
  /\ app.at = "ROLLBACK"
  /\ main' = NoFile
  /\ Go("COPYING")
  /\ UNCHANGED <<marker, backup, cart, token, truth, sold>>

\* The copy is put back, opens and validates.
CopyBack ==
  /\ app.at = "COPYING"
  /\ main' = app.copied
  /\ Go("ROLLED_BACK")
  /\ UNCHANGED <<marker, backup, cart, token, truth, sold>>

\* The copy does not verify, or copying it fails, or it does not open.
CopyBackFails ==
  /\ CopyMayFail
  /\ \/ app.at = "ROLLBACK" /\ UNCHANGED main
     \/ app.at = "COPYING" /\ main' \in {NoFile, Torn, app.copied}
  /\ Go("LOST")
  /\ UNCHANGED <<marker, backup, cart, token, truth, sold>>

RolledBack ==
  /\ app.at = "ROLLED_BACK"
  /\ ClearMarker
  /\ app' = At("SERVING")
  /\ UNCHANGED <<main, backup, cart, token, truth, sold>>

\* Mutated: the marker is cleared whichever failure led here.
GiveUpRecoveryClearing ==
  /\ app.at = "LOST"
  /\ marker' = NoFile
  /\ app' = At("UNAVAILABLE")
  /\ UNCHANGED <<main, backup, cart, token, truth, sold>>

\* After a failed validation the marker is kept for the next launch; after a
\* failed swap it is cleared although nothing was recovered.
GiveUpRecovery ==
  /\ app.at = "LOST"
  /\ IF app.cause = "SWAP" THEN ClearMarker ELSE UNCHANGED marker
  /\ app' = At("UNAVAILABLE")
  /\ UNCHANGED <<main, backup, cart, token, truth, sold>>

-------------------------------------------------------------------------------
(* The process.                                                                *)

\* It dies, or quits; what a copy in progress leaves is torn.  The tokens die
\* with the secret they are signed with.
Crash ==
  /\ app.at # "DOWN"
  /\ IF app.at \in {"COPYING", "STARTUP_COPYING"}
     THEN main' \in {main, Torn} ELSE UNCHANGED main
  /\ app' = At("DOWN")
  /\ cart' = FALSE
  /\ token' = NoFile
  /\ UNCHANGED <<marker, backup, truth, sold>>

\* ProductionDatabase.open at startup: a missing file becomes a fresh store.
OpenMain ==
  /\ IF main = NoFile THEN main' = Fresh ELSE UNCHANGED main
  /\ app' = At(IF main = Torn THEN "UNAVAILABLE" ELSE "SERVING")

\* Startup without a marker.
Start ==
  /\ app.at = "DOWN"
  /\ marker = NoFile
  /\ OpenMain
  /\ UNCHANGED <<marker, backup, cart, token, truth, sold>>

\* Mutated: the marker only counts if the database file is gone or torn.
StartRecoveryIfGone ==
  /\ app.at = "DOWN"
  /\ marker # NoFile
  /\ IF main \in {NoFile, Torn}
     THEN main' = NoFile /\ Go("STARTUP_COPYING") ELSE OpenMain
  /\ UNCHANGED <<marker, backup, cart, token, truth, sold>>

\* recoverInterruptedRestore: a marker means the original is put back.
StartRecovery ==
  /\ app.at = "DOWN"
  /\ marker # NoFile
  /\ main' = NoFile
  /\ Go("STARTUP_COPYING")
  /\ UNCHANGED <<marker, backup, cart, token, truth, sold>>

StartupCopy ==
  /\ app.at = "STARTUP_COPYING"
  /\ main' = marker
  /\ Go("STARTUP_COPIED")
  /\ UNCHANGED <<marker, backup, cart, token, truth, sold>>

\* Mutated: the database is opened although the recovery failed.
StartupCopyFailsIgnored ==
  /\ app.at = "STARTUP_COPYING"
  /\ main' \in {main, Torn}
  /\ app' = At("SERVING")
  /\ UNCHANGED <<marker, backup, cart, token, truth, sold>>

\* The copy does not verify or cannot be copied: startup stops, marker kept.
StartupCopyFails ==
  /\ app.at = "STARTUP_COPYING"
  /\ main' \in {main, Torn}
  /\ app' = At("UNAVAILABLE")
  /\ UNCHANGED <<marker, backup, cart, token, truth, sold>>

StartupOpen ==
  /\ app.at = "STARTUP_COPIED"
  /\ ClearMarker
  /\ OpenMain
  /\ UNCHANGED <<backup, cart, token, truth, sold>>

-------------------------------------------------------------------------------
Init ==
  /\ main = NoFile
  /\ marker = NoFile
  /\ backup = NoFile
  /\ app = At("DOWN")
  /\ cart = FALSE
  /\ token = NoFile
  /\ truth = Fresh
  /\ sold = 0

Business == BeginCard \/ SettleCard \/ Sell \/ OpenCart \/ CloseCart \/ TakeBackup

Restore ==
  \/ Claim \/ GiveUp \/ Prepare \/ AskOwner \/ Mark \/ Close \/ Aside \/ Swap
  \/ SwapFails \/ Validate \/ ValidateFails \/ Complete

Rollback == RemoveMain \/ CopyBack \/ CopyBackFails \/ RolledBack \/ GiveUpRecovery

Startup == Start \/ StartRecovery \/ StartupCopy \/ StartupCopyFails \/ StartupOpen

Next == Business \/ Restore \/ Rollback \/ Startup \/ Crash

Spec == Init /\ [][Next]_vars

\* A handler under way goes on; an owner who finds the store down or unavailable
\* launches it again; and copying the recovery copy fails now and then at most.
Fairness ==
  /\ WF_vars(Restore \/ Rollback)
  /\ WF_vars(app.at = "UNAVAILABLE" /\ Crash)
  /\ SF_vars(Start)
  /\ SF_vars(StartRecovery)
  /\ SF_vars(StartupCopy)
  /\ SF_vars(StartupOpen)

FairSpec == Spec /\ Fairness

-------------------------------------------------------------------------------
(* Properties.                                                                 *)

TypeOK ==
  /\ main \in Content \cup {NoFile, Torn}
  /\ marker \in Content \cup {NoFile}
  /\ backup \in Content \cup {NoFile}
  /\ app \in App
  /\ Serving => main \in Content
  /\ cart \in BOOLEAN
  /\ token \in Token \cup {NoFile}
  /\ truth \in Content
  /\ sold \in 0..MaxSales

\* Whatever fails or dies, and wherever, the store that opens again has every
\* sale: it serves what the last sale or the last completed restore left.
ServesTruth == Serving => main = truth

\* At every moment the next launch can bring the truth back: as long as the
\* database file may not be it, a marker names a copy that is.
AlwaysRecoverable ==
  /\ marker # NoFile => marker = truth
  /\ main # truth => marker = truth \/ (sold = 0 /\ main = NoFile /\ truth = Fresh)

\* No restore, failure or crash leaves the store closed for good.
EventuallyServes == []<>Serving

\* A restore is alone: no cart is open under it and no Card attempt that may
\* have been charged is in the database it replaces.
RestoreIsAlone == Exclusive => ~cart /\ ~truth.card

\* Sales disappear only in a completed restore, and only those of the very
\* database the owner was shown and confirmed replacing, by the very backup.
LossIsConfirmed ==
  [][~(truth.sales \subseteq truth'.sales) =>
       token = [candidate |-> truth', content |-> truth]]_vars
===============================================================================
