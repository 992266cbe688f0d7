------------------------------- MODULE MCStation -------------------------------
(* The components that share no state with one another, each in a scene of its *)
(* own: a behaviour picks one scene at the start, and the others stay as they  *)
(* are.  What holds of every scene holds of each module under these bounds.    *)
(* The properties are those of the modules.                                    *)
EXTENDS Backups, Migrations, OffDevice, Discovery, GoogleAccess, CheckoutScreen, Updater,
        Reports, Sessions, Health, Wake

CONSTANTS call1, call2, ann, bob

VARIABLE scene

\* A line sold above its listed price and three pieces below it.
StationMenu == {[listed |-> 18, sold |-> 20, quantity |-> 1],
                [listed |-> 50, sold |-> 30, quantity |-> 3]}

\* Chicago puts its clocks forward before hour 5.
StationOffset == [z \in Zones |-> [t \in Instants |->
                    IF z = "UTC" THEN 0 ELSE IF t < 5 THEN -6 ELSE -5]]

vars == <<scene, backupVars, upgradeVars, offDeviceVars, discoveryVars, accessVars, screenVars,
          updaterVars, reportsVars, sessionsVars, healthVars, wakeVars>>

-------------------------------------------------------------------------------
(* A scene that is not played begins in one of its initial states.             *)

DeviceRests ==
  /\ site = CHOOSE s \in Site: Possible(s)
  /\ question = "CANONICAL_PATHS" /\ canonical = site.given
  /\ answered = TRUE /\ verdict = "NONE"

DiscoveryRests ==
  /\ shelf = [f \in Paths |-> NoArtifact] /\ listed = {}
  /\ tokens = {} /\ offered = {} /\ wanted = Nothing
  /\ pass = NoPass /\ found = {} /\ resolved = Nothing
  /\ passes = 0 /\ changes = 0

Init ==
  /\ scene \in {"BACKUPS", "MIGRATIONS", "DEVICE", "DISCOVERY", "GOOGLE", "GOOGLE TWICE", "SCREEN", "UPDATER",
                "REPORTS", "SESSIONS", "HEALTH", "WAKE"}
  /\ BackupsInit /\ MigrationsInit /\ GoogleAccessInit /\ CheckoutScreenInit
  /\ UpdaterInit /\ ReportsInit /\ SessionsInit /\ HealthInit /\ WakeInit
  /\ IF scene = "DEVICE" THEN OffDeviceInit ELSE DeviceRests
  /\ IF scene = "DISCOVERY" THEN DiscoveryInit ELSE DiscoveryRests

BackupsPlays ==
  /\ scene = "BACKUPS" /\ BackupsNext
  /\ UNCHANGED <<scene, upgradeVars, offDeviceVars, discoveryVars, accessVars,
                 screenVars, updaterVars, reportsVars, sessionsVars, healthVars, wakeVars>>

MigrationsPlays ==
  /\ scene = "MIGRATIONS" /\ MigrationsNext
  /\ UNCHANGED <<scene, backupVars, offDeviceVars, discoveryVars, accessVars, screenVars,
                 updaterVars, reportsVars, sessionsVars, healthVars, wakeVars>>

OffDevicePlays ==
  /\ scene = "DEVICE" /\ OffDeviceNext
  /\ UNCHANGED <<scene, backupVars, upgradeVars, discoveryVars, accessVars, screenVars,
                 updaterVars, reportsVars, sessionsVars, healthVars, wakeVars>>

DiscoveryPlays ==
  /\ scene = "DISCOVERY" /\ DiscoveryNext
  /\ UNCHANGED <<scene, backupVars, upgradeVars, offDeviceVars, accessVars, screenVars,
                 updaterVars, reportsVars, sessionsVars, healthVars, wakeVars>>

\* One call at a time with two accounts; two at once where no backup is taken, with one
\* sign-in and one account, or with two sign-ins and accounts and nothing that breaks.
GoogleAccessPlays ==
  /\ scene \in {"GOOGLE", "GOOGLE TWICE"} /\ GoogleAccessNext
  /\ \/ scene = "GOOGLE" /\ jobs'[call2] = NoJob
     \/ /\ scene = "GOOGLE TWICE" /\ saved' = saved
        /\ \/ connects' <= 1 /\ \A w \in Calls: jobs'[w].account # bob
           \/ breaks' = 0
  /\ UNCHANGED <<scene, backupVars, upgradeVars, offDeviceVars, discoveryVars,
                 screenVars, updaterVars, reportsVars, sessionsVars, healthVars, wakeVars>>

CheckoutScreenPlays ==
  /\ scene = "SCREEN" /\ CheckoutScreenNext
  /\ UNCHANGED <<scene, backupVars, upgradeVars, offDeviceVars, discoveryVars,
                 accessVars, updaterVars, reportsVars, sessionsVars, healthVars, wakeVars>>

UpdaterPlays ==
  /\ scene = "UPDATER" /\ UpdaterNext
  /\ UNCHANGED <<scene, backupVars, upgradeVars, offDeviceVars, discoveryVars,
                 accessVars, screenVars, reportsVars, sessionsVars, healthVars, wakeVars>>

ReportsPlays ==
  /\ scene = "REPORTS" /\ ReportsNext
  /\ UNCHANGED <<scene, backupVars, upgradeVars, offDeviceVars, discoveryVars,
                 accessVars, screenVars, updaterVars, sessionsVars, healthVars, wakeVars>>

SessionsPlays ==
  /\ scene = "SESSIONS" /\ SessionsNext
  /\ UNCHANGED <<scene, backupVars, upgradeVars, offDeviceVars, discoveryVars,
                 accessVars, screenVars, updaterVars, reportsVars, healthVars, wakeVars>>

HealthPlays ==
  /\ scene = "HEALTH" /\ HealthNext
  /\ UNCHANGED <<scene, backupVars, upgradeVars, offDeviceVars, discoveryVars,
                 accessVars, screenVars, updaterVars, reportsVars, sessionsVars, wakeVars>>

WakePlays ==
  /\ scene = "WAKE" /\ WakeNext
  /\ UNCHANGED <<scene, backupVars, upgradeVars, offDeviceVars, discoveryVars,
                 accessVars, screenVars, updaterVars, reportsVars, sessionsVars,
                 healthVars>>

Next ==
  \/ BackupsPlays \/ MigrationsPlays \/ OffDevicePlays \/ DiscoveryPlays
  \/ GoogleAccessPlays \/ CheckoutScreenPlays \/ UpdaterPlays \/ ReportsPlays
  \/ SessionsPlays \/ HealthPlays \/ WakePlays

Spec == Init /\ [][Next]_vars
FairSpec == Spec /\ BackupsFairness
===============================================================================
