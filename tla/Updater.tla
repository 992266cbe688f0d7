-------------------------------- MODULE Updater --------------------------------
(* Looking for, downloading and installing an update                           *)
(* (src/main/updater/updateService.ts, updaterAdapter.ts, updatesIpc.ts,       *)
(* AboutUpdatesSection.tsx, aboutUpdates.ts), against electron-updater, which  *)
(* raises its events when it likes: a check ends once it has an answer, and    *)
(* the download it started goes on in the background through later checks.     *)
EXTENDS Naturals

CONSTANTS
  MaxRelease,  \* bound on the releases on the feed
  MaxChecks    \* bound on the checks

VARIABLES
  update,     \* the snapshot of updateService: state and availableVersion
  checking,   \* inFlightCheck
  timer,      \* the scheduler: nothing, waiting, or in a tick
  release,    \* the newest release on the feed
  download,   \* the release electron-updater is downloading, 0 for none
  installer,  \* the release whose installer lies ready, 0 for none
  duty,       \* MaintenanceState of the coordinator
  page,       \* the snapshot the settings page shows
  click,      \* Restart & Update is on its way
  launched,   \* what quitAndInstall launched, and under which duty
  checks      \* see MaxChecks

updaterVars == <<update, checking, timer, release, download, installer, duty, page,
                 click, launched, checks>>

Duties == {"SAFE", "CHECKOUT_ACTIVE", "RESTORE_IN_PROGRESS"}
NotLaunched == [release |-> 0, duty |-> "SAFE"]
Running == launched = NotLaunched
To(state) == update' = [update EXCEPT !.state = state]

\* checkNow: a check in flight is shared.
CheckNow ==
  IF checking THEN UNCHANGED <<update, checking, checks>>
  ELSE /\ checks < MaxChecks /\ checks' = checks + 1
       /\ checking' = TRUE
       /\ To("CHECKING")

Tick ==
  /\ Running /\ timer = "WAITING"
  /\ timer' = "CHECKING"
  /\ CheckNow
  /\ UNCHANGED <<release, download, installer, duty, page, click, launched>>

PressCheckNow ==
  /\ Running
  /\ CheckNow
  /\ UNCHANGED <<timer, release, download, installer, duty, page, click, launched>>

\* The next tick is scheduled once the check has settled.
Settle == checking' = FALSE /\ timer' = "WAITING"

NoUpdate ==
  /\ Running /\ checking /\ release = 0
  /\ update' = [state |-> "IDLE", version |-> 0]
  /\ Settle
  /\ UNCHANGED <<release, download, installer, duty, page, click, launched, checks>>

\* Mutated: an update that is ready stays ready while a later one is available.
UpdateAvailableKeepingReady ==
  /\ Running /\ checking /\ release # 0
  /\ update' = [state |-> IF installer # 0 THEN "READY" ELSE "AVAILABLE",
                version |-> release]
  /\ Settle
  /\ download' = IF download = 0 THEN release ELSE download
  /\ UNCHANGED <<release, installer, duty, page, click, launched, checks>>

\* A download under way is joined, not started again.
UpdateAvailable ==
  /\ Running /\ checking /\ release # 0
  /\ update' = [state |-> "AVAILABLE", version |-> release]
  /\ Settle
  /\ download' = IF download = 0 THEN release ELSE download
  /\ UNCHANGED <<release, installer, duty, page, click, launched, checks>>

CheckFails ==
  /\ Running /\ checking
  /\ To("FAILED")
  /\ Settle
  /\ UNCHANGED <<release, download, installer, duty, page, click, launched, checks>>

DownloadProgress ==
  /\ Running /\ download # 0
  /\ To("DOWNLOADING")
  /\ UNCHANGED <<checking, timer, release, download, installer, duty, page, click,
                 launched, checks>>

Downloaded ==
  /\ Running /\ download # 0
  /\ update' = [state |-> "READY", version |-> download]
  /\ installer' = download
  /\ download' = 0
  /\ UNCHANGED <<checking, timer, release, duty, page, click, launched, checks>>

DownloadFails ==
  /\ Running /\ download # 0
  /\ To("FAILED")
  /\ download' = 0
  /\ UNCHANGED <<checking, timer, release, installer, duty, page, click, launched,
                 checks>>

\* External: a release is published; sales and restores begin and end.
PublishRelease ==
  /\ Running /\ release < MaxRelease
  /\ release' = release + 1
  /\ UNCHANGED <<update, checking, timer, download, installer, duty, page, click,
                 launched, checks>>

DutyChanges ==
  /\ Running
  /\ duty' \in Duties \ {duty}
  /\ UNCHANGED <<update, checking, timer, release, download, installer, page, click,
                 launched, checks>>

Poll ==
  /\ Running
  /\ page' = update
  /\ UNCHANGED <<update, checking, timer, release, download, installer, duty, click,
                 launched, checks>>

PressRestart ==
  /\ Running /\ page.state = "READY" /\ ~click
  /\ click' = TRUE
  /\ UNCHANGED <<update, checking, timer, release, download, installer, duty, page,
                 launched, checks>>

RestartAndInstall ==
  /\ Running /\ click /\ click' = FALSE
  /\ launched' = IF update.state = "READY" /\ duty = "SAFE"
                 THEN [release |-> installer, duty |-> duty] ELSE launched
  /\ UNCHANGED <<update, checking, timer, release, download, installer, duty, page,
                 checks>>

UpdaterInit ==
  /\ update = [state |-> "IDLE", version |-> 0] /\ page = update
  /\ checking = FALSE /\ timer = "WAITING"
  /\ release = 0 /\ download = 0 /\ installer = 0
  /\ duty = "SAFE" /\ click = FALSE /\ launched = NotLaunched /\ checks = 0

UpdaterNext ==
  \/ Tick \/ PressCheckNow \/ NoUpdate \/ UpdateAvailable \/ CheckFails
  \/ DownloadProgress \/ Downloaded \/ DownloadFails
  \/ PublishRelease \/ DutyChanges \/ Poll \/ PressRestart \/ RestartAndInstall

UpdaterSpec == UpdaterInit /\ [][UpdaterNext]_updaterVars

-------------------------------------------------------------------------------
(* Properties.                                                                 *)

\* Whatever checks, downloads and releases overlap, the update called READY is the
\* one whose installer lies there, and it is launched only while nothing is being
\* sold or restored (updateService.ts, restartAndInstall).
InstallsWhatIsReady ==
  /\ update.state = "READY" => update.version = installer /\ installer # 0
  /\ launched.duty = "SAFE"
===============================================================================
