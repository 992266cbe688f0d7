----------------------------- MODULE RestoreProofs -----------------------------
(* What holds of Restore for any number of sales: its type, and, without the   *)
(* faults that two runs show to be fatal, that the truth is never lost.        *)
EXTENDS Restore, TLAPS

(* Type correctness.  The store serves a database only if what was put in place *)
(* of it is one, so the files in hand of a restore have a type of their own.   *)

Copied == Restoring \ {"CLAIMED"}

HandsFull ==
  /\ Exclusive => app.candidate \in Content
  /\ app.at \in Copied => app.copied \in Content
  /\ app.at \in {"CLAIMED", "PREPARED", "SWAPPED", "RESTORED", "ROLLED_BACK"} =>
       main \in Content

TypeInv == TypeOK /\ HandsFull

Places == {"SERVING"} \cup Stopped \cup Restoring \cup Starting

\* What a process holds at a place it newly reaches.
LEMMA AtType ==
  ASSUME NEW place \in Places
  PROVE  At(place) \in App /\ At(place).at = place
BY DEF At, App, Places

\* Going on keeps what the process holds.
LEMMA GoType ==
  ASSUME app \in App, NEW place \in Places, Go(place)
  PROVE  /\ app' \in App
         /\ app'.at = place
         /\ app'.copied = app.copied
         /\ app'.candidate = app.candidate
         /\ app'.cause = app.cause
BY DEF Go, App, Places

\* A store without sales is a database.
LEMMA FreshType == Fresh \in Content
BY DEF Fresh, Content

\* Before the first launch there is no file and nothing was sold.
LEMMA InitType == Init => TypeInv
<1> SUFFICES ASSUME Init PROVE TypeInv
  OBVIOUS
<1>1. app \in App /\ app.at = "DOWN"
  BY AtType DEF Init, Places, Stopped
<1>2. sold \in 0..MaxSales
  BY RestoreAssumption DEF Init
<1>3. cart \in BOOLEAN
  BY Zenon DEF Init
<1>4. token \in Token \cup {NoFile}
  BY DEF Init
<1>5. TypeOK
  BY <1>1, <1>2, <1>3, <1>4, FreshType DEF Init, TypeOK, Serving
<1>6. HandsFull
  BY <1>1 DEF HandsFull, Exclusive, Copied, Restoring
<1> QED
  BY <1>5, <1>6 DEF TypeInv

\* The business: databases stay databases.
LEMMA BusinessType ==
  ASSUME TypeInv, Business
  PROVE  TypeInv'
<1> USE DEF TypeInv, TypeOK, HandsFull, Exclusive, Serving, Copied, Restoring
<1>1. CASE BeginCard
  <2>1. [main EXCEPT !.card = TRUE] \in Content
    BY <1>1 DEF BeginCard, Content
  <2> QED
    BY <1>1, <2>1 DEF BeginCard, Write
<1>2. CASE SettleCard
  <2>1. [main EXCEPT !.card = FALSE] \in Content
    BY <1>2 DEF SettleCard, Content
  <2> QED
    BY <1>2, <2>1 DEF SettleCard, Write
<1>3. CASE Sell
  <2>1. sold + 1 \in 1..MaxSales
    BY <1>3, RestoreAssumption DEF Sell
  <2>2. \A card \in {main.card, FALSE} :
          [sales |-> main.sales \cup {sold + 1}, card |-> card] \in Content
    BY <1>3, <2>1 DEF Sell, Content
  <2>3. main' \in Content /\ truth' \in Content
    BY <1>3, <2>2 DEF Sell, Write
  <2>4. sold' \in 0..MaxSales
    BY <1>3, <2>1 DEF Sell
  <2> QED
    BY <1>3, <2>3, <2>4 DEF Sell
<1>4. CASE OpenCart
  BY <1>4 DEF OpenCart
<1>5. CASE CloseCart
  BY <1>5 DEF CloseCart
<1>6. CASE TakeBackup
  BY <1>6 DEF TakeBackup
<1> QED
  BY <1>1, <1>2, <1>3, <1>4, <1>5, <1>6 DEF Business

\* A restore: what is swapped into place is the candidate, a database.
LEMMA RestoreType ==
  ASSUME TypeInv, Restore
  PROVE  TypeInv'
<1> USE DEF TypeInv, TypeOK, HandsFull, Exclusive, Serving, Copied, Restoring
<1>1. CASE Claim
  <2>1. /\ app'.at = "CLAIMED" /\ app'.candidate = backup
        /\ app' \in App
    BY <1>1, Zenon, AtType DEF Claim, At, App
  <2> QED
    BY <1>1, <2>1 DEF Claim
<1>2. CASE GiveUp
  BY <1>2, AtType DEF GiveUp, Places
<1>3. CASE Prepare
  <2>1. /\ app' \in App
        /\ app'.at = "PREPARED"
        /\ app'.copied = main
        /\ app'.candidate = app.candidate
    BY <1>3 DEF Prepare, App
  <2> QED
    BY <1>3, <2>1 DEF Prepare
<1>4. CASE AskOwner
  <2>1. token' \in Token
    BY <1>4 DEF AskOwner, Minted, Token
  <2> QED
    BY <1>4, <2>1, AtType DEF AskOwner, Places
<1>5. CASE Mark
  BY <1>5, GoType DEF Mark, Places
<1>6. CASE Close
  BY <1>6, GoType DEF Close, Places
<1>7. CASE Aside
  BY <1>7 DEF Aside
<1>8. CASE Swap
  BY <1>8, GoType DEF Swap, Places
<1>9. CASE SwapFails
  <2>1. /\ app' \in App
        /\ app'.at = "ROLLBACK"
        /\ app'.copied = app.copied
        /\ app'.candidate = app.candidate
    BY <1>9 DEF SwapFails, App
  <2> QED
    BY <1>9, <2>1 DEF SwapFails
<1>10. CASE Validate
  BY <1>10, GoType DEF Validate, Places
<1>11. CASE ValidateFails
  <2>1. /\ app' \in App
        /\ app'.at = "ROLLBACK"
        /\ app'.copied = app.copied
        /\ app'.candidate = app.candidate
    BY <1>11 DEF ValidateFails, App
  <2> QED
    BY <1>11, <2>1 DEF ValidateFails
<1>12. CASE Complete
  BY <1>12, AtType DEF Complete, ClearMarker, Places
<1> QED
  BY <1>1, <1>2, <1>3, <1>4, <1>5, <1>6, <1>7, <1>8, <1>9, <1>10, <1>11, <1>12
     DEF Restore

\* A rollback: what is put back is the copy, a database.
LEMMA RollbackType ==
  ASSUME TypeInv, Rollback
  PROVE  TypeInv'
<1> USE DEF TypeInv, TypeOK, HandsFull, Exclusive, Serving, Copied, Restoring
<1>1. CASE RemoveMain
  BY <1>1, GoType DEF RemoveMain, Places
<1>2. CASE CopyBack
  BY <1>2, GoType DEF CopyBack, Places
<1>3. CASE CopyBackFails
  BY <1>3, GoType DEF CopyBackFails, Places
<1>4. CASE RolledBack
  BY <1>4, AtType DEF RolledBack, ClearMarker, Places
<1>5. CASE GiveUpRecovery
  BY <1>5, AtType DEF GiveUpRecovery, ClearMarker, Places, Stopped
<1> QED
  BY <1>1, <1>2, <1>3, <1>4, <1>5 DEF Rollback

\* A launch opens a database, or a fresh one if there is no file.
LEMMA StartupType ==
  ASSUME TypeInv, Startup \/ Crash
  PROVE  TypeInv'
<1> USE DEF TypeInv, TypeOK, HandsFull, Exclusive, Serving, Copied, Restoring
<1>1. CASE Start
  BY <1>1, AtType, FreshType DEF Start, OpenMain, Places, Stopped
<1>2. CASE StartRecovery
  BY <1>2, GoType DEF StartRecovery, Places, Starting
<1>3. CASE StartupCopy
  BY <1>3, GoType DEF StartupCopy, Places, Starting
<1>4. CASE StartupCopyFails
  BY <1>4, AtType DEF StartupCopyFails, Places, Stopped
<1>5. CASE StartupOpen
  BY <1>5, AtType, FreshType DEF StartupOpen, OpenMain, ClearMarker, Places, Stopped
<1>6. CASE Crash
  BY <1>6, AtType DEF Crash, Places, Stopped
<1> QED
  BY <1>1, <1>2, <1>3, <1>4, <1>5, <1>6 DEF Startup

\* The inductive step of the type.
LEMMA StepType == TypeInv /\ [Next]_vars => TypeInv'
<1>1. ASSUME TypeInv, UNCHANGED vars
      PROVE  TypeInv'
  BY <1>1 DEF vars, TypeInv, TypeOK, HandsFull, Exclusive, Serving
<1> QED
  BY <1>1, BusinessType, RestoreType, RollbackType, StartupType DEF Next

\* Every file in hand is what it is taken for; a torn database file is never
\* served, whatever fails.
THEOREM TypeCorrect == Spec => []TypeOK
<1>1. TypeInv => TypeOK
  BY DEF TypeInv
<1> QED
  BY <1>1, InitType, StepType, PTL DEF Spec

-------------------------------------------------------------------------------
(* The truth, without the faults of MCSwapFails and MCMarkerStays.  At every   *)
(* place of a restore the truth is somewhere: in the database file, in the     *)
(* copy in hand, in the file the marker names.                                 *)

\* Places where the database file is the one that was served last.
Untouched == {"SERVING", "CLAIMED", "PREPARED", "MARKED"}

\* Places that a restore and its rollback reach with the marker written.
Marked == {"MARKED", "CLOSED", "SWAPPED", "RESTORED", "ROLLBACK", "COPYING",
           "ROLLED_BACK", "LOST"}

InMain ==
  /\ app.at \in Untouched \cup {"ROLLED_BACK", "STARTUP_COPIED"} => main = truth
  /\ app.at = "CLOSED" => main \in {truth, NoFile}
  /\ app.at \in {"SWAPPED", "RESTORED"} => main = app.candidate

InCopy == app.at \in Copied => app.copied = truth

InMarker ==
  /\ marker # NoFile => marker = truth
  /\ app.at \in Untouched \ {"MARKED"} => marker = NoFile
  /\ app.at \in Marked \cup Starting => marker = truth

\* What only a validation that failed leaves behind; a swap that failed is always
\* undone.
LostIsKept == app.at = "LOST" => app.cause = "VALIDATION"

Confirmed ==
  app.at \in {"MARKED", "CLOSED", "SWAPPED", "RESTORED"} =>
    token = [candidate |-> app.candidate, content |-> truth]

TruthInv ==
  /\ TypeInv
  /\ InMain
  /\ InCopy
  /\ InMarker
  /\ LostIsKept
  /\ Confirmed
  /\ RestoreIsAlone
  /\ AlwaysRecoverable

\* At the first launch there is nothing to lose.
LEMMA InitTruth == Init => TruthInv
<1> SUFFICES ASSUME Init PROVE TruthInv
  OBVIOUS
<1>1. app.at = "DOWN"
  BY DEF Init, At
<1>2. TypeInv
  BY InitType
<1>3. InMain /\ InCopy /\ InMarker /\ LostIsKept /\ Confirmed
  BY <1>1 DEF Init, InMain, InCopy, InMarker, LostIsKept, Confirmed, Copied,
              Restoring, Untouched, Marked, Starting
<1>4. RestoreIsAlone /\ AlwaysRecoverable
  BY <1>1 DEF Init, RestoreIsAlone, AlwaysRecoverable, Exclusive, Restoring
<1> QED
  BY <1>2, <1>3, <1>4 DEF TruthInv

\* While the store is open there is no marker and the file is the truth.
LEMMA BusinessTruth ==
  ASSUME TruthInv, Business
  PROVE  TruthInv'
<1>1. TypeInv'
  BY BusinessType DEF TruthInv
<1>2. app' = app /\ marker' = marker /\ token' = token
  BY DEF Business, BeginCard, SettleCard, Sell, OpenCart, CloseCart, TakeBackup
<1>3. CASE BeginCard \/ SettleCard \/ Sell
  <2>1. app.at = "SERVING"
    BY <1>3 DEF BeginCard, SettleCard, Sell, Serving
  <2>2. main' = truth'
    <3>1. \A content : Write(content) => main' = truth'
      BY DEF Write
    <3> QED
      BY <1>3, <3>1, Zenon DEF BeginCard, SettleCard, Sell
  <2>3. InMain' /\ InCopy' /\ InMarker' /\ LostIsKept' /\ Confirmed'
    BY <1>2, <2>1, <2>2 DEF TruthInv, InMain, InCopy, InMarker, LostIsKept, Confirmed,
       Copied, Restoring, Untouched, Marked, Starting
  <2>4. RestoreIsAlone' /\ AlwaysRecoverable'
    BY <1>2, <2>1, <2>2, <2>3
       DEF RestoreIsAlone, AlwaysRecoverable, Exclusive, Restoring, InMarker
  <2> QED
    BY <1>1, <2>3, <2>4 DEF TruthInv
<1>4. CASE OpenCart \/ CloseCart \/ TakeBackup
  <2>1. main' = main /\ truth' = truth /\ sold' = sold
    BY <1>4 DEF OpenCart, CloseCart, TakeBackup
  <2>2. InMain' /\ InCopy' /\ InMarker' /\ LostIsKept' /\ Confirmed' /\ AlwaysRecoverable'
    BY <1>2, <2>1 DEF TruthInv, InMain, InCopy, InMarker, LostIsKept, Confirmed,
       AlwaysRecoverable
  <2>3. RestoreIsAlone'
    BY <1>2, <1>4, <2>1 DEF TruthInv, RestoreIsAlone, Exclusive, Serving, Restoring,
       OpenCart, CloseCart, TakeBackup
  <2> QED
    BY <1>1, <2>2, <2>3 DEF TruthInv
<1> QED
  BY <1>3, <1>4 DEF Business

\* A restore and its rollback.  Between the marker and the end of either, the
\* truth is in the marker and in the copy, whatever happens to the file.
LEMMA RestoreTruth ==
  ASSUME Faults = {}, TruthInv, Restore \/ Rollback
  PROVE  TruthInv'
<1>1. TypeInv'
  BY RestoreType, RollbackType DEF TruthInv
<1> USE DEF TruthInv, InMain, InCopy, InMarker, LostIsKept, Confirmed, RestoreIsAlone,
            AlwaysRecoverable, Exclusive, Serving, Copied, Restoring, Untouched, Marked,
            Starting, TypeInv, TypeOK, HandsFull
<1>2. CASE Claim
  <2>1. app'.at = "CLAIMED"
    BY <1>2 DEF Claim, At
  <2> QED
    BY <1>1, <1>2, <2>1 DEF Claim, Free
<1>3. CASE GiveUp
  BY <1>1, <1>3, AtType DEF GiveUp, Places
<1>4. CASE Prepare
  <2>1. app'.at = "PREPARED" /\ app'.copied = main
    BY <1>4 DEF Prepare, App
  <2> QED
    BY <1>1, <1>4, <2>1 DEF Prepare
<1>5. CASE AskOwner
  BY <1>1, <1>5, AtType DEF AskOwner, Places
<1>6. CASE Mark
  BY <1>1, <1>6, GoType DEF Mark, Minted, Places
<1>7. CASE Close
  BY <1>1, <1>7, GoType DEF Close, Places
<1>8. CASE Aside
  BY <1>1, <1>8 DEF Aside
<1>9. CASE Swap
  BY <1>1, <1>9, GoType DEF Swap, Places
<1>10. CASE SwapFails
  <2>1. app'.at = "ROLLBACK" /\ app'.copied = app.copied
    BY <1>10 DEF SwapFails, App
  <2> QED
    BY <1>1, <1>10, <2>1 DEF SwapFails
<1>11. CASE Validate
  BY <1>1, <1>11, GoType DEF Validate, Places
<1>12. CASE ValidateFails
  <2>1. app'.at = "ROLLBACK" /\ app'.copied = app.copied
    BY <1>12 DEF ValidateFails, App
  <2> QED
    BY <1>1, <1>12, <2>1 DEF ValidateFails
<1>13. CASE Complete
  BY <1>1, <1>13, AtType DEF Complete, ClearMarker, Places
<1>14. CASE RemoveMain
  BY <1>1, <1>14, GoType DEF RemoveMain, Places
<1>15. CASE CopyBack
  BY <1>1, <1>15, GoType DEF CopyBack, Places
<1>16. CASE CopyBackFails
  BY <1>1, <1>16, GoType DEF CopyBackFails, CopyMayFail, Places
<1>17. CASE RolledBack
  BY <1>1, <1>17, AtType DEF RolledBack, ClearMarker, Places
<1>18. CASE GiveUpRecovery
  BY <1>1, <1>18, AtType DEF GiveUpRecovery, Places, Stopped
<1> QED
  BY <1>2, <1>3, <1>4, <1>5, <1>6, <1>7, <1>8, <1>9, <1>10, <1>11, <1>12, <1>13, <1>14,
     <1>15, <1>16, <1>17, <1>18 DEF Restore, Rollback

\* A launch puts the truth back if a marker names it, and finds it in place else.
LEMMA StartupTruth ==
  ASSUME Faults = {}, TruthInv, Startup \/ Crash
  PROVE  TruthInv'
<1>1. TypeInv'
  BY StartupType DEF TruthInv
<1> USE DEF TruthInv, InMain, InCopy, InMarker, LostIsKept, Confirmed, RestoreIsAlone,
            AlwaysRecoverable, Exclusive, Serving, Copied, Restoring, Untouched, Marked,
            Starting, TypeInv, TypeOK, HandsFull
<1>2. CASE Start
  BY <1>1, <1>2, AtType, FileAssumption DEF Start, OpenMain, Places, Stopped
<1>3. CASE StartRecovery
  BY <1>1, <1>3, GoType DEF StartRecovery, Places
<1>4. CASE StartupCopy
  BY <1>1, <1>4, GoType DEF StartupCopy, Places
<1>5. CASE StartupCopyFails
  BY <1>1, <1>5, AtType DEF StartupCopyFails, Places, Stopped
<1>6. CASE StartupOpen
  BY <1>1, <1>6, AtType, FileAssumption DEF StartupOpen, OpenMain, ClearMarker, Places,
     Stopped
<1>7. CASE Crash
  BY <1>1, <1>7, AtType DEF Crash, Places, Stopped
<1> QED
  BY <1>2, <1>3, <1>4, <1>5, <1>6, <1>7 DEF Startup

\* The inductive step of the truth.
LEMMA StepTruth ==
  ASSUME Faults = {}
  PROVE  TruthInv /\ [Next]_vars => TruthInv'
<1>1. ASSUME TruthInv, UNCHANGED vars
      PROVE  TruthInv'
  BY <1>1 DEF vars, TruthInv, TypeInv, TypeOK, HandsFull, InMain, InCopy, InMarker,
              LostIsKept, Confirmed, RestoreIsAlone, AlwaysRecoverable, Exclusive, Serving
<1> QED
  BY <1>1, BusinessTruth, RestoreTruth, StartupTruth DEF Next

\* The truth is somewhere, and the invariant says where, in every state.
LEMMA TruthInvariant ==
  ASSUME Faults = {}
  PROVE  Spec => []TruthInv
<1>1. TruthInv /\ [Next]_vars => TruthInv'
  BY StepTruth
<1> QED
  BY <1>1, InitTruth, PTL DEF Spec

\* The store that opens, after whatever failed or died, has every sale up to the
\* last one or up to the last completed restore.
THEOREM TruthServed ==
  ASSUME Faults = {}
  PROVE  Spec => []ServesTruth
<1>1. TruthInv => ServesTruth
  BY DEF TruthInv, InMain, ServesTruth, Serving, Untouched
<1> QED
  BY <1>1, TruthInvariant, PTL

\* At every moment the next launch finds the truth in the file or by the marker.
THEOREM TruthRecoverable ==
  ASSUME Faults = {}
  PROVE  Spec => []AlwaysRecoverable
<1>1. TruthInv => AlwaysRecoverable
  BY DEF TruthInv
<1> QED
  BY <1>1, TruthInvariant, PTL

\* No cart and no Card attempt is open in the database that a restore replaces.
THEOREM RestoresAlone ==
  ASSUME Faults = {}
  PROVE  Spec => []RestoreIsAlone
<1>1. TruthInv => RestoreIsAlone
  BY DEF TruthInv
<1> QED
  BY <1>1, TruthInvariant, PTL

\* Sales leave the truth only at the end of a restore that the owner confirmed for
\* this database and this backup.
THEOREM LossConfirmed ==
  ASSUME Faults = {}
  PROVE  Spec => LossIsConfirmed
<1> DEFINE Loss == ~(truth.sales \subseteq truth'.sales) =>
                     token = [candidate |-> truth', content |-> truth]
<1>1. TruthInv /\ [Next]_vars => Loss \/ UNCHANGED vars
  <2> SUFFICES ASSUME TruthInv, Next, ~(truth.sales \subseteq truth'.sales)
               PROVE  token = [candidate |-> truth', content |-> truth]
    BY DEF vars
  <2>1. truth' = truth \/ BeginCard \/ SettleCard \/ Sell \/ Complete
    BY DEF Next, Business, OpenCart, CloseCart, TakeBackup, Restore, Claim, GiveUp, Prepare,
       AskOwner, Mark, Close, Aside, Swap, SwapFails, Validate, ValidateFails, Rollback,
       RemoveMain, CopyBack, CopyBackFails, RolledBack, GiveUpRecovery, Startup, Start,
       StartRecovery, StartupCopy, StartupCopyFails, StartupOpen, Crash
  <2>2. CASE BeginCard \/ SettleCard \/ Sell
    <3>1. main = truth /\ main \in Content
      BY <2>2 DEF BeginCard, SettleCard, Sell, Serving, TruthInv, InMain, Untouched, TypeInv,
                  TypeOK
    <3>2. truth.sales \subseteq truth'.sales
      BY <2>2, <3>1 DEF BeginCard, SettleCard, Sell, Write, Content
    <3> QED
      BY <3>2
  <2>3. CASE Complete
    BY <2>3 DEF Complete, TruthInv, InMain, Confirmed
  <2> QED
    BY <2>1, <2>2, <2>3
<1> QED
  BY <1>1, TruthInvariant, PTL DEF Spec, LossIsConfirmed
================================================================================
