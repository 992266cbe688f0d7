---------------------------- MODULE StorageProofs -----------------------------
(* What holds of the backups and of the places they are kept in, for any number *)
(* of runs, drives, files and days: what is called complete is whole, what is  *)
(* shown as healthy is protected, what is accepted is elsewhere, and what is   *)
(* offered and taken is what was verified.                                     *)
EXTENDS Backups, OffDevice, Discovery, FiniteSetTheorems, WellFoundedInduction,
        NaturalsInduction, TLAPS

(* Backups: the invariant.                                                     *)

Services == 1..MaxServices
AllRows == rows \cup UNION {image[f].rows: f \in Files}
Done(r, place) == r.status = "COMPLETED" /\ r.place = place
FileOf(r) == IF r.place = "LOCAL_DISK" THEN disk[r.run] ELSE drive[r.run]

RunShape(j) == {"pc", "type", "file", "config"} \subseteq DOMAIN j /\ j.type \in Type
BackupShapes ==
  /\ runs \in Nat /\ runs <= MaxRuns /\ clock \in Nat /\ service \in Services
  /\ disk \in [Files -> FileState] /\ drive \in [Files -> FileState]
  /\ DOMAIN image = Files
  /\ DOMAIN run = Services /\ \A s \in Services: RunShape(run[s])
  /\ pruned \subseteq Place \X (1..runs)

\* Every row, in the catalogue and in the catalogues that backups hold: the file of a
\* backup is whole until retention removes it for its age.
RowOK(r) ==
  /\ r.run \in 1..runs /\ r.type \in Type /\ r.place \in Place
  /\ r.at \in Nat /\ r.at <= clock
  /\ r.status = "COMPLETED" => IF <<r.place, r.run>> \in pruned
                               THEN clock - r.at > Keep[r.type]
                               ELSE FileOf(r) = "WHOLE"
RowsOK == \A r \in AllRows: RowOK(r)
Unique ==
  \A r, q \in AllRows: r.status = "COMPLETED" /\ q.status = "COMPLETED"
                       /\ r.place = q.place /\ r.run = q.run => r = q

\* A run in hand: no row names its file before it is recorded, none its copy before
\* that is.
Before == {"SNAPSHOT", "VERIFY", "HASH"}
Copying == {"CHECK", "DIRECTORY", "COPYING", "COPIED", "MANIFEST"}
Unnamed(f, place) ==
  <<place, f>> \notin pruned /\ \A r \in AllRows: ~(r.run = f /\ r.place = place)
RunOK(s) ==
  LET f == run[s].file IN
  /\ run[s].pc # "IDLE" => f \in 1..runs /\ s <= service
                           /\ run[s].pc \in Before \cup Copying \cup {"RETAIN"}
  /\ run[s].pc \in Before => Unnamed(f, "LOCAL_DISK")
  /\ run[s].pc \in Before \cup Copying => Unnamed(f, "OFF_DEVICE")
  /\ run[s].pc = "HASH" => disk[f] = "WHOLE"
  /\ run[s].pc = "MANIFEST" => drive[f] = "WHOLE"
  /\ run[s].pc = "DIRECTORY" => plugged
RunsOK == \A s \in Services: RunOK(s)
Apart ==
  \A s, t \in Services: s # t /\ run[s].pc # "IDLE" /\ run[t].pc # "IDLE" =>
    run[s].file # run[t].file

\* A run of the service that is open is the newest local backup once it is recorded, and
\* no row of that age was ever pruned.
Newest ==
  run[service].pc \in Copying \cup {"RETAIN"} =>
    \E r \in rows:
      /\ Done(r, "LOCAL_DISK") /\ r.run = run[service].file
      /\ <<"LOCAL_DISK", r.run>> \notin pruned
      /\ \A q \in rows: Done(q, "LOCAL_DISK") =>
           /\ q.at <= r.at
           /\ <<"LOCAL_DISK", q.run>> \in pruned => r.at - q.at > Keep[q.type]

BackupsInv == BackupShapes /\ RowsOK /\ Unique /\ RunsOK /\ Apart /\ Newest

-------------------------------------------------------------------------------

\* A set of numbers below a bound has a greatest.
LEMMA MaxExists ==
  ASSUME NEW n \in Nat, NEW T \in SUBSET (0..n), T # {}
  PROVE  \E t \in T: \A u \in T: u <= t
<1> DEFINE D == {n - t: t \in T}
<1>1. D \in SUBSET Nat /\ D # {}
  <2>1. \A t \in T: n - t \in Nat
    OBVIOUS
  <2>2. D \subseteq Nat
    BY <2>1
  <2>3. PICK t \in T: TRUE
    OBVIOUS
  <2>4. n - t \in D
    OBVIOUS
  <2> QED
    BY <2>2, <2>4
<1>2. PICK d \in D: \A e \in D: ~(<<e, d>> \in OpToRel(<, Nat))
  BY <1>1, NatLessThanWellFounded, WFMin
<1>3. PICK t \in T: d = n - t
  BY <1>2
<1>4. ASSUME NEW u \in T PROVE u <= t
  <2>1. n - u \in D /\ ~(n - u < n - t)
    BY <1>1, <1>2, <1>3 DEF OpToRel
  <2> QED
    BY <2>1, <1>3
<1> QED BY <1>4

\* What a step does to the rows: those of N are new, all of them whole and named now
\* for the first time, and the others have the files they had.
Adds(N) ==
  /\ AllRows' \subseteq AllRows \cup N
  /\ \A n \in N: RowOK(n)' /\ (n.status = "COMPLETED" => Unnamed(n.run, n.place))
  /\ \A n, m \in N: n = m
KeepsFiles == \A r \in AllRows: FileOf(r)' = FileOf(r)
Grows ==
  /\ pruned' = pruned
  /\ runs' \in Nat /\ runs <= runs'
  /\ clock' \in Nat /\ clock <= clock'

\* Such a step keeps what is said of the rows.
LEMMA RowsAreKept ==
  ASSUME BackupsInv, NEW N, Adds(N), KeepsFiles, Grows
  PROVE  RowsOK' /\ Unique'
<1>0. /\ runs \in Nat /\ clock \in Nat
  BY DEF BackupsInv, BackupShapes
<1>k. \A t \in Type: Keep[t] \in Nat
  BY BackupsAssumption DEF Type, Keep
<1>1. ASSUME NEW r \in AllRows PROVE RowOK(r)'
  <2>1. RowOK(r)
    BY <1>1 DEF BackupsInv, RowsOK
  <2>2. FileOf(r)' = FileOf(r)
    BY <1>1 DEF KeepsFiles
  <2>3. r.run \in 1..runs' /\ r.at <= clock'
    BY <1>0, <2>1 DEF Grows, RowOK
  <2>4. CASE <<r.place, r.run>> \in pruned
    <3>1. clock' - r.at > Keep[r.type] \/ r.status # "COMPLETED"
      BY <1>0, <1>k, <2>1, <2>4 DEF Grows, RowOK
    <3> QED
      BY <2>1, <2>3, <2>4, <3>1 DEF Grows, RowOK
  <2>5. CASE <<r.place, r.run>> \notin pruned
    BY <2>1, <2>2, <2>3, <2>5 DEF Grows, RowOK
  <2> QED BY <2>4, <2>5
<1>2. RowsOK'
  BY <1>1 DEF Adds, RowsOK
<1>3. ASSUME NEW r \in AllRows', NEW q \in AllRows', r.status = "COMPLETED",
             q.status = "COMPLETED", r.place = q.place, r.run = q.run
      PROVE  r = q
  <2>1. CASE r \in AllRows /\ q \in AllRows
    BY <1>3, <2>1 DEF BackupsInv, Unique
  <2>2. CASE r \in N /\ q \in N
    BY <2>2 DEF Adds
  <2>3. CASE r \in N /\ q \in AllRows
    BY <1>3, <2>3 DEF Adds, Unnamed
  <2>4. CASE r \in AllRows /\ q \in N
    BY <1>3, <2>4 DEF Adds, Unnamed
  <2> QED BY <1>3, <2>1, <2>2, <2>3, <2>4 DEF Adds
<1>4. Unique'
  BY <1>3 DEF Unique
<1> QED BY <1>2, <1>4

\* A run in hand that a step about another file does not touch.
LEMMA OthersAreKept ==
  ASSUME BackupsInv, NEW N, AllRows' \subseteq AllRows \cup N, Grows,
         NEW t \in Services, run'[t] = run[t],
         run[t].pc # "IDLE" => /\ \A n \in N: n.run # run[t].file
                               /\ disk'[run[t].file] = disk[run[t].file]
                               /\ drive'[run[t].file] = drive[run[t].file]
                               /\ service' \in Nat /\ service <= service'
                               /\ run[t].pc = "DIRECTORY" => plugged',
         Services' = Services
  PROVE  RunOK(t)'
<1> DEFINE f == run[t].file
<1>1. RunOK(t)
  BY DEF BackupsInv, RunsOK
<1>2. CASE run[t].pc = "IDLE"
  BY <1>2 DEF RunOK, Before, Copying
<1>3. CASE run[t].pc # "IDLE"
  <2>1. \A place: Unnamed(f, place) => Unnamed(f, place)'
    BY <1>3 DEF Unnamed, Grows
  <2>2. runs \in Nat /\ service \in Nat
    BY BackupsAssumption DEF BackupsInv, BackupShapes, Services
  <2>3. f \in 1..runs' /\ t <= service'
    BY <1>1, <1>3, <2>2, BackupsAssumption DEF RunOK, Grows, Services
  <2>4. /\ disk'[f] = disk[f] /\ drive'[f] = drive[f]
        /\ run[t].pc = "DIRECTORY" => plugged'
    BY <1>3
  <2> QED BY <1>1, <1>3, <2>1, <2>3, <2>4 DEF RunOK
<1> QED BY <1>2, <1>3

\* What Newest says stays while the recorded local backups do.
LEMMA NewestIsKept ==
  ASSUME BackupsInv, service' = service, pruned' = pruned,
         \A r: Done(r, "LOCAL_DISK") => (r \in rows' <=> r \in rows),
         run'[service].pc \in Copying \cup {"RETAIN"} =>
           /\ run[service].pc \in Copying \cup {"RETAIN"}
           /\ run'[service].file = run[service].file
  PROVE  Newest'
<1> SUFFICES ASSUME run'[service].pc \in Copying \cup {"RETAIN"} PROVE Newest'
  BY DEF Newest
<1>1. PICK r \in rows:
        /\ Done(r, "LOCAL_DISK") /\ r.run = run[service].file
        /\ <<"LOCAL_DISK", r.run>> \notin pruned
        /\ \A q \in rows: Done(q, "LOCAL_DISK") =>
             /\ q.at <= r.at
             /\ <<"LOCAL_DISK", q.run>> \in pruned => r.at - q.at > Keep[q.type]
  BY DEF BackupsInv, Newest
<1>2. r \in rows' /\ r.run = run'[service].file
  BY <1>1
<1>3. \A q \in rows': Done(q, "LOCAL_DISK") =>
        /\ q.at <= r.at
        /\ <<"LOCAL_DISK", q.run>> \in pruned => r.at - q.at > Keep[q.type]
  BY <1>1
<1> QED BY <1>1, <1>2, <1>3 DEF Newest

\* What a run that goes on, or ends, does: it touches its own file only, and the rows of
\* N are about that file.
LEMMA OneRun ==
  ASSUME BackupsInv, NEW s \in Services, NEW j, NEW N, run[s].pc # "IDLE",
         RunShape(j), run' = [run EXCEPT ![s] = j],
         j.pc = "IDLE" \/ j.file = run[s].file,
         UNCHANGED <<around, runs, pruned>>,
         Adds(N), \A n \in N: n.run = run[s].file, KeepsFiles,
         disk' \in [Files -> FileState], drive' \in [Files -> FileState],
         \A g \in Files: g # run[s].file => disk'[g] = disk[g] /\ drive'[g] = drive[g],
         DOMAIN image' = Files, RunOK(s)', Newest'
  PROVE  BackupsInv'
<1>0. DOMAIN run = Services /\ Services' = Services
  BY DEF BackupsInv, BackupShapes, Services
<1>1. BackupShapes'
  <2>1. DOMAIN run' = Services /\ \A t \in Services: RunShape(run'[t])
    BY <1>0 DEF BackupsInv, BackupShapes
  <2> QED BY <1>0, <2>1 DEF BackupsInv, BackupShapes, around
<1>2. Grows
  BY DEF Grows, around, BackupsInv, BackupShapes
<1>3. RowsOK' /\ Unique'
  BY <1>2, RowsAreKept
<1>4. ASSUME NEW t \in Services PROVE RunOK(t)'
  <2>1. CASE t = s
    BY <2>1
  <2>2. CASE t # s
    <3>1. run'[t] = run[t]
      BY <1>0, <2>2
    <3>2. ASSUME run[t].pc # "IDLE"
          PROVE  /\ run[t].file # run[s].file /\ run[t].file \in Files
                 /\ run[t].pc = "DIRECTORY" => plugged'
      <4>1. RunOK(t)
        BY DEF BackupsInv, RunsOK
      <4>2. run[t].file \in Files
        BY <4>1, <3>2, BackupsAssumption DEF RunOK, Files, BackupsInv, BackupShapes
      <4> QED BY <4>1, <4>2, <3>2, <2>2 DEF BackupsInv, Apart, RunOK, around
    <3>3. service' \in Nat /\ service <= service'
      BY BackupsAssumption DEF BackupsInv, BackupShapes, Services, around
    <3>4. AllRows' \subseteq AllRows \cup N
      BY DEF Adds
    <3>5. run[t].pc # "IDLE" => /\ \A n \in N: n.run # run[t].file
                                /\ disk'[run[t].file] = disk[run[t].file]
                                /\ drive'[run[t].file] = drive[run[t].file]
                                /\ service' \in Nat /\ service <= service'
                                /\ run[t].pc = "DIRECTORY" => plugged'
      BY <3>2, <3>3
    <3> QED BY <1>0, <1>2, <3>1, <3>4, <3>5, OthersAreKept
  <2> QED BY <2>1, <2>2
<1>5. Apart'
  BY <1>0 DEF BackupsInv, Apart
<1> QED BY <1>0, <1>1, <1>3, <1>4, <1>5 DEF BackupsInv, RunsOK

\* A step that leaves the rows alone adds none.
LEMMA NoRowAdded ==
  ASSUME AllRows' \subseteq AllRows
  PROVE  Adds({})
BY DEF Adds

\* A run that goes on to its next await and writes to no file of a row.
LEMMA RunGoesOn ==
  ASSUME BackupsInv, NEW s \in Services, NEW pc, run[s].pc # "IDLE", Go(s, pc),
         UNCHANGED <<around, runs, pruned, rows>>, AllRows' \subseteq AllRows, KeepsFiles,
         disk' \in [Files -> FileState], drive' \in [Files -> FileState],
         \A g \in Files: g # run[s].file => disk'[g] = disk[g] /\ drive'[g] = drive[g],
         DOMAIN image' = Files, RunOK(s)',
         pc \in Copying \cup {"RETAIN"} => run[s].pc \in Copying \cup {"RETAIN"}
  PROVE  BackupsInv'
<1> DEFINE j == [run[s] EXCEPT !.pc = pc]
<1>0. DOMAIN run = Services /\ RunShape(run[s])
  BY DEF BackupsInv, BackupShapes
<1>1. run' = [run EXCEPT ![s] = j]
  BY DEF Go
<1>2. RunShape(j) /\ j.file = run[s].file /\ j.pc = pc
  BY <1>0 DEF RunShape
<1>3. Newest'
  <2>1. service' = service /\ pruned' = pruned /\ rows' = rows
    BY DEF around
  <2>2. run'[service].pc \in Copying \cup {"RETAIN"} =>
           /\ run[service].pc \in Copying \cup {"RETAIN"}
           /\ run'[service].file = run[service].file
    <3>1. CASE service = s
      BY <1>0, <1>1, <1>2, <3>1
    <3>2. CASE service # s
      BY <1>0, <1>1, <3>2
    <3> QED BY <3>1, <3>2
  <2> QED BY <2>1, <2>2, NewestIsKept
<1> HIDE DEF j
<1> QED BY <1>1, <1>2, <1>3, OneRun, NoRowAdded

\* The facts the steps of a run start from.
LEMMA RunInHand ==
  ASSUME BackupsInv, NEW s \in Services, run[s].pc # "IDLE"
  PROVE  /\ DOMAIN run = Services /\ RunShape(run[s]) /\ RunOK(s)
         /\ run[s].file \in 1..runs /\ run[s].file \in Files /\ s <= service
         /\ disk \in [Files -> FileState] /\ drive \in [Files -> FileState]
         /\ DOMAIN image = Files
BY BackupsAssumption DEF BackupsInv, BackupShapes, RunsOK, RunOK, Files

\* Files that no row names stay so, and a step that writes to no file of a row keeps
\* the rows.
LEMMA StaysUnnamed ==
  ASSUME AllRows' \subseteq AllRows, pruned' = pruned, NEW f, NEW place
  PROVE  Unnamed(f, place) => Unnamed(f, place)'
BY DEF Unnamed

\* A step that leaves the catalogue and what the backups hold of it adds no row.
LEMMA SameRows ==
  ASSUME rows' = rows, image' = image
  PROVE  AllRows' \subseteq AllRows
BY DEF AllRows

\* The facts about a row.
LEMMA RowFacts ==
  ASSUME BackupsInv, NEW r \in AllRows
  PROVE  /\ RowOK(r) /\ r.run \in 1..runs /\ r.run \in Files /\ r.place \in Place
         /\ r.type \in Type /\ r.at \in Nat /\ r.at <= clock /\ clock \in Nat
<1>1. RowOK(r)
  BY DEF BackupsInv, RowsOK
<1>2. runs \in Nat /\ runs <= MaxRuns /\ MaxRuns \in Nat /\ clock \in Nat
  BY BackupsAssumption DEF BackupsInv, BackupShapes
<1> QED BY <1>1, <1>2 DEF RowOK, Files

\* A local file that no row names changes without a row noticing.
LEMMA LocalFileChanges ==
  ASSUME BackupsInv, NEW f, Unnamed(f, "LOCAL_DISK"), drive' = drive,
         \A g \in Files: g # f => disk'[g] = disk[g]
  PROVE  KeepsFiles
<1> SUFFICES ASSUME NEW r \in AllRows PROVE FileOf(r)' = FileOf(r)
  BY DEF KeepsFiles
<1>1. r.run \in Files
  BY RowFacts
<1> QED BY <1>1 DEF Unnamed, FileOf

\* So does a file on the drive.
LEMMA DriveFileChanges ==
  ASSUME BackupsInv, NEW f, Unnamed(f, "OFF_DEVICE"), disk' = disk,
         \A g \in Files: g # f => drive'[g] = drive[g]
  PROVE  KeepsFiles
<1> SUFFICES ASSUME NEW r \in AllRows PROVE FileOf(r)' = FileOf(r)
  BY DEF KeepsFiles
<1>1. r.run \in Files /\ r.place \in Place
  BY RowFacts
<1> QED BY <1>1 DEF Unnamed, FileOf, Place

\* The steps that check and write nothing.
LEMMA VerifyStep ==
  ASSUME BackupsInv, NEW s \in Services, Verify(s)
  PROVE  BackupsInv'
<1> PICK f: f = run[s].file
  OBVIOUS
<1>1. run[s].pc = "VERIFY" /\ run[s].pc # "IDLE" /\ disk[run[s].file] = "WHOLE" /\ Go(s, "HASH")
  BY DEF Verify
<1>2. UNCHANGED <<disk, drive, image, rows, around, runs, pruned>>
  BY DEF Verify, files, catalogue
<1>3. AllRows' \subseteq AllRows
  BY <1>2, SameRows
<1>4. KeepsFiles
  BY <1>2 DEF KeepsFiles, FileOf
<1>5. RunOK(s)'
  <2>1. run'[s].pc = "HASH" /\ run'[s].file = f
    BY <1>1, RunInHand DEF Go, RunShape
  <2>2. /\ Unnamed(f, "LOCAL_DISK")' /\ Unnamed(f, "OFF_DEVICE")'
        /\ f \in 1..runs' /\ s <= service'
    <3>1. /\ Unnamed(f, "LOCAL_DISK") /\ Unnamed(f, "OFF_DEVICE")
          /\ f \in 1..runs /\ s <= service
      BY <1>1, RunInHand DEF RunOK, Before
    <3> QED BY <1>2, <1>3, <3>1, StaysUnnamed DEF around
  <2> QED BY <1>1, <1>2, <2>1, <2>2 DEF RunOK, Before, Copying
<1> QED BY <1>1, <1>2, <1>3, <1>4, <1>5, RunInHand, RunGoesOn DEF Copying

\* The drive is checked, or the bytes are on it.
LEMMA CheckStep ==
  ASSUME BackupsInv, NEW s \in Services, Check(s) \/ CopyBytes(s)
  PROVE  BackupsInv'
<1> PICK f: f = run[s].file
  OBVIOUS
<1>1. PICK pc \in {"DIRECTORY", "COPIED"}: Go(s, pc)
  BY DEF Check, CopyBytes
<1>2. /\ UNCHANGED <<disk, drive, image, rows, around, runs, pruned>>
      /\ run[s].pc \in Copying /\ plugged /\ run[s].pc # "IDLE"
  BY DEF Check, CopyBytes, files, catalogue, Copying
<1>3. AllRows' \subseteq AllRows
  BY <1>2, SameRows
<1>4. KeepsFiles
  BY <1>2 DEF KeepsFiles, FileOf
<1>5. RunOK(s)'
  <2>1. run'[s].pc = pc /\ run'[s].file = f
    BY <1>1, <1>2, RunInHand DEF Go, RunShape
  <2>2. /\ Unnamed(f, "OFF_DEVICE")'
        /\ f \in 1..runs' /\ s <= service'
    <3>1. Unnamed(f, "OFF_DEVICE") /\ f \in 1..runs /\ s <= service
      BY <1>2, RunInHand DEF RunOK
    <3> QED BY <1>2, <1>3, <3>1, StaysUnnamed DEF around
  <2> QED BY <1>2, <2>1, <2>2 DEF RunOK, Before, Copying, around
<1> QED BY <1>1, <1>2, <1>3, <1>4, <1>5, RunInHand, RunGoesOn DEF Copying

\* The steps that write a file: the snapshot, the copy and its final name.
LEMMA SnapshotStep ==
  ASSUME BackupsInv, NEW s \in Services, SnapshotEnds(s)
  PROVE  BackupsInv'
<1> PICK f: f = run[s].file
  OBVIOUS
<1>1. /\ run[s].pc = "SNAPSHOT" /\ run[s].pc # "IDLE" /\ Go(s, "VERIFY")
      /\ image' = [image EXCEPT ![f] = [rows |-> rows, destination |-> destination]]
      /\ UNCHANGED <<drive, rows, around, runs, pruned>>
  BY DEF SnapshotEnds, catalogue
<1>2. PICK x \in {"WHOLE", "TORN"}: disk' = [disk EXCEPT ![f] = x]
  BY DEF SnapshotEnds
<1>3. /\ disk' \in [Files -> FileState] /\ DOMAIN image' = Files
      /\ \A g \in Files: g # f => disk'[g] = disk[g] /\ drive'[g] = drive[g]
      /\ drive' \in [Files -> FileState]
  BY <1>1, <1>2, RunInHand DEF FileState
<1>4. AllRows' \subseteq AllRows
  <2>1. \A g \in Files: image'[g].rows = (IF g = f THEN rows ELSE image[g].rows)
    BY <1>1, RunInHand
  <2> QED BY <1>1, <2>1 DEF AllRows, Files
<1>5. Unnamed(f, "LOCAL_DISK") /\ Unnamed(f, "OFF_DEVICE")
  BY <1>1, RunInHand DEF RunOK, Before
<1>6. KeepsFiles
  BY <1>1, <1>3, <1>5, LocalFileChanges
<1>7. RunOK(s)'
  <2>1. run'[s].pc = "VERIFY" /\ run'[s].file = f
    BY <1>1, RunInHand DEF Go, RunShape
  <2>2. /\ Unnamed(f, "LOCAL_DISK")' /\ Unnamed(f, "OFF_DEVICE")'
        /\ f \in 1..runs' /\ s <= service'
    <3>1. f \in 1..runs /\ s <= service
      BY <1>1, RunInHand
    <3> QED BY <1>1, <1>4, <1>5, <3>1, StaysUnnamed DEF around
  <2> QED BY <2>1, <2>2 DEF RunOK, Before, Copying
<1> QED BY <1>1, <1>3, <1>4, <1>6, <1>7, RunGoesOn DEF Copying

\* The copy is begun under a partial name, or gets its own.
LEMMA DriveStep ==
  ASSUME BackupsInv, NEW s \in Services, MakeDirectory(s) \/ Publish(s)
  PROVE  BackupsInv'
<1> PICK f: f = run[s].file
  OBVIOUS
<1>1. /\ run[s].pc \in Copying /\ run[s].pc # "IDLE"
      /\ UNCHANGED <<disk, image, rows, around, runs, pruned>>
  BY DEF MakeDirectory, Publish, catalogue, Copying
<1>2. PICK x \in FileState, pc \in {"COPYING", "MANIFEST"}:
        drive' = [drive EXCEPT ![f] = x] /\ Go(s, pc) /\ (pc = "MANIFEST" => x = "WHOLE")
  BY DEF MakeDirectory, Publish, FileState
<1>3. /\ drive' \in [Files -> FileState] /\ disk' \in [Files -> FileState]
      /\ DOMAIN image' = Files /\ drive'[f] = x
      /\ \A g \in Files: g # f => disk'[g] = disk[g] /\ drive'[g] = drive[g]
  BY <1>1, <1>2, RunInHand
<1>4. AllRows' \subseteq AllRows
  BY <1>1, SameRows
<1>5. Unnamed(f, "OFF_DEVICE")
  BY <1>1, RunInHand DEF RunOK
<1>6. KeepsFiles
  BY <1>1, <1>3, <1>5, DriveFileChanges
<1>7. RunOK(s)'
  <2>1. run'[s].pc = pc /\ run'[s].file = f
    BY <1>1, <1>2, RunInHand DEF Go, RunShape
  <2>2. Unnamed(f, "OFF_DEVICE")' /\ f \in 1..runs' /\ s <= service'
    <3>1. f \in 1..runs /\ s <= service
      BY <1>1, RunInHand
    <3> QED BY <1>1, <1>4, <1>5, <3>1, StaysUnnamed DEF around
  <2> QED BY <1>2, <1>3, <2>1, <2>2 DEF RunOK, Before, Copying
<1> QED BY <1>1, <1>2, <1>3, <1>4, <1>6, <1>7, RunGoesOn DEF Copying

\* The steps that write a row: one row, about the file of the run.
LEMMA OneRowAdded ==
  ASSUME BackupsInv, NEW s \in Services, NEW place \in Place, NEW status,
         run[s].pc # "IDLE", Recorded(s, place, status), image' = image,
         UNCHANGED <<around, runs, pruned>>,
         NEW f, f = run[s].file,
         status = "COMPLETED" =>
           /\ Unnamed(f, place)
           /\ (IF place = "LOCAL_DISK" THEN disk'[f] ELSE drive'[f]) = "WHOLE"
  PROVE  \E n: /\ n = [run |-> f, type |-> run[s].type, place |-> place,
                       status |-> status, at |-> clock, config |-> run[s].config]
               /\ Adds({n})
               /\ rows' \subseteq rows \cup {n} /\ (Open(s) => n \in rows')
               /\ rows \subseteq rows'
<1>1. PICK n: n = [run |-> f, type |-> run[s].type, place |-> place, status |-> status,
                   at |-> clock, config |-> run[s].config]
  OBVIOUS
<1>2. /\ rows' \subseteq rows \cup {n} /\ (Open(s) => n \in rows') /\ rows \subseteq rows'
  BY <1>1 DEF Recorded
<1>3. AllRows' \subseteq AllRows \cup {n}
  BY <1>2 DEF AllRows, Files
<1>4. RowOK(n)'
  <2>1. /\ n.run = f /\ n.type = run[s].type /\ n.place = place /\ n.status = status
        /\ n.at = clock
    BY <1>1
  <2>2. /\ clock \in Nat /\ clock' = clock /\ runs' = runs /\ pruned' = pruned
        /\ run[s].type \in Type /\ f \in 1..runs
    BY RunInHand DEF BackupsInv, BackupShapes, around, RunShape
  <2>3. status = "COMPLETED" => <<place, f>> \notin pruned /\ FileOf(n)' = "WHOLE"
    BY <2>1 DEF Unnamed, FileOf
  <2> QED BY <2>1, <2>2, <2>3 DEF RowOK
<1>5. n.status = "COMPLETED" => Unnamed(n.run, n.place)
  BY <1>1
<1>6. Adds({n})
  BY <1>3, <1>4, <1>5 DEF Adds
<1> QED BY <1>1, <1>2, <1>6

\* A run that is not there has the shape of one.
LEMMA IdleShape == RunShape(Idle) /\ Idle.pc = "IDLE"
BY DEF RunShape, Idle, Type, Keep

\* The local artifact fails before a row names its file.
LEMMA LocalFailsStep ==
  ASSUME BackupsInv, NEW s \in Services, run[s].pc \in Before, LocalFails(s)
  PROVE  BackupsInv'
<1> PICK f: f = run[s].file
  OBVIOUS
<1>1. /\ run[s].pc # "IDLE" /\ UNCHANGED <<drive, image, around, runs, pruned>>
      /\ run' = [run EXCEPT ![s] = Idle] /\ Recorded(s, "LOCAL_DISK", "FAILED")
  BY DEF LocalFails, End, Before
<1>2. PICK x \in FileState: disk' = [disk EXCEPT ![f] = x]
  <2>1. disk[f] \in FileState
    BY <1>1, RunInHand
  <2> QED BY <2>1 DEF LocalFails, FileState
<1>3. /\ disk' \in [Files -> FileState] /\ DOMAIN image' = Files
      /\ \A g \in Files: g # f => disk'[g] = disk[g] /\ drive'[g] = drive[g]
      /\ drive' \in [Files -> FileState]
  BY <1>1, <1>2, RunInHand
<1>4. Unnamed(f, "LOCAL_DISK")
  BY <1>1, RunInHand DEF RunOK
<1>5. KeepsFiles
  BY <1>1, <1>3, <1>4, LocalFileChanges
<1>6. PICK n: /\ n.run = f /\ n.status = "FAILED" /\ Adds({n})
              /\ rows' \subseteq rows \cup {n} /\ rows \subseteq rows'
  <2>1. \E n: /\ n = [run |-> f, type |-> run[s].type, place |-> "LOCAL_DISK",
                           status |-> "FAILED", at |-> clock, config |-> run[s].config]
                   /\ Adds({n})
                   /\ rows' \subseteq rows \cup {n} /\ (Open(s) => n \in rows')
                   /\ rows \subseteq rows'
    <3>1. "LOCAL_DISK" \in Place /\ "FAILED" # "COMPLETED"
      BY DEF Place
    <3> QED BY <1>1, <3>1, OneRowAdded
  <2> QED BY <2>1
<1>7. run'[s] = Idle /\ \A t \in Services: t # s => run'[t] = run[t]
  BY <1>1, RunInHand
<1>8. RunOK(s)'
  BY <1>7, IdleShape DEF RunOK, Before, Copying
<1>9. Newest'
  <2>1. \A r: Done(r, "LOCAL_DISK") => (r \in rows' <=> r \in rows)
    BY <1>6 DEF Done
  <2>2. service' = service /\ pruned' = pruned /\ service \in Services
    BY <1>1 DEF around, BackupsInv, BackupShapes
  <2>3. run'[service].pc \in Copying \cup {"RETAIN"} => service # s
    BY <1>7, IdleShape DEF Copying
  <2> QED BY <1>7, <2>1, <2>2, <2>3, NewestIsKept
<1> QED BY <1>1, <1>3, <1>5, <1>6, <1>8, <1>9, IdleShape, OneRun

\* The run of the open service has read the rows: none is newer than the one it writes.
LEMMA RecordStep ==
  ASSUME BackupsInv, NEW s \in Services, Record(s)
  PROVE  BackupsInv'
<1> PICK f: f = run[s].file
  OBVIOUS
<1>1. /\ run[s].pc = "HASH" /\ run[s].pc # "IDLE" /\ Open(s)
      /\ UNCHANGED <<disk, drive, image, around, runs, pruned>>
      /\ Recorded(s, "LOCAL_DISK", "COMPLETED")
  BY DEF Record, files
<1>2. PICK j: /\ j = [run[s] EXCEPT !.pc = IF destination = 0 THEN "RETAIN" ELSE "CHECK",
                                    !.config = destination]
              /\ run' = [run EXCEPT ![s] = j]
  BY DEF Record
<1>3. /\ RunShape(j) /\ j.file = f /\ j.pc \in {"RETAIN", "CHECK"} /\ j.pc # "IDLE"
      /\ run'[s] = j
  BY <1>1, <1>2, RunInHand DEF RunShape
<1>4. /\ Unnamed(f, "LOCAL_DISK") /\ Unnamed(f, "OFF_DEVICE") /\ disk[f] = "WHOLE"
  BY <1>1, RunInHand DEF RunOK, Before
<1>5. KeepsFiles
  BY <1>1 DEF KeepsFiles, FileOf
<1>6. PICK n: /\ n.run = f /\ n.status = "COMPLETED" /\ n.place = "LOCAL_DISK"
              /\ n.at = clock /\ Adds({n})
              /\ rows' \subseteq rows \cup {n} /\ n \in rows'
  <2>1. disk'[f] = "WHOLE"
    BY <1>1, <1>4
  <2>2. \E n: /\ n = [run |-> f, type |-> run[s].type, place |-> "LOCAL_DISK",
                           status |-> "COMPLETED", at |-> clock, config |-> run[s].config]
                   /\ Adds({n})
                   /\ rows' \subseteq rows \cup {n} /\ (Open(s) => n \in rows')
                   /\ rows \subseteq rows'
    BY <1>1, <1>4, <2>1, OneRowAdded DEF Place
  <2> QED BY <1>1, <2>2
<1>7. RunOK(s)'
  <2>1. Unnamed(f, "OFF_DEVICE")'
    <3>1. <<"OFF_DEVICE", f>> \notin pruned'
      BY <1>1, <1>4 DEF Unnamed
    <3>2. \A r \in AllRows': ~(r.run = f /\ r.place = "OFF_DEVICE")
      BY <1>4, <1>6 DEF Unnamed, Adds
    <3> QED BY <3>1, <3>2 DEF Unnamed
  <2>2. f \in 1..runs' /\ s <= service'
    BY <1>1, RunInHand DEF around
  <2> QED BY <1>3, <2>1, <2>2 DEF RunOK, Before, Copying
<1>8. Newest'
  <2>1. service' = service /\ service = s /\ pruned' = pruned /\ clock' = clock
    BY <1>1 DEF around, Open
  <2>2. ASSUME NEW q \in rows', Done(q, "LOCAL_DISK")
        PROVE  /\ q.at <= n.at
               /\ <<"LOCAL_DISK", q.run>> \in pruned => n.at - q.at > Keep[q.type]
    <3>1. CASE q = n
      BY <1>4, <1>6, <3>1, RunInHand DEF Unnamed, BackupsInv, BackupShapes
    <3>2. CASE q # n
      <4>1. q \in AllRows
        BY <1>6, <3>2 DEF AllRows
      <4> QED BY <1>6, <2>2, <4>1, RowFacts DEF RowOK, Done
    <3> QED BY <3>1, <3>2
  <2>3. <<"LOCAL_DISK", n.run>> \notin pruned
    BY <1>4, <1>6 DEF Unnamed
  <2>4. run'[service'].file = n.run
    BY <1>3, <1>6, <2>1
  <2> QED BY <1>6, <2>1, <2>2, <2>3, <2>4 DEF Newest, Done
<1>9. DOMAIN image' = Files /\ disk' \in [Files -> FileState]
      /\ drive' \in [Files -> FileState]
  BY <1>1, RunInHand
<1> QED BY <1>1, <1>2, <1>3, <1>5, <1>6, <1>7, <1>8, <1>9, OneRun

\* The row of the copy, whole or not.
LEMMA CopyStep ==
  ASSUME BackupsInv, NEW s \in Services, WriteManifest(s) \/ CopyFails(s)
  PROVE  BackupsInv'
<1> PICK f: f = run[s].file
  OBVIOUS
<1>1. /\ run[s].pc \in Copying /\ run[s].pc # "IDLE"
      /\ UNCHANGED <<disk, image, around, runs, pruned>>
      /\ Go(s, "RETAIN")
  BY DEF WriteManifest, CopyFails, CopyEnds, Copying
<1>2. PICK status: /\ Recorded(s, "OFF_DEVICE", status)
                   /\ status = "COMPLETED" => drive'[f] = "WHOLE"
  <2>1. CASE WriteManifest(s)
    <3>1. run[s].pc = "MANIFEST" /\ drive' = drive /\ Recorded(s, "OFF_DEVICE", "COMPLETED")
      BY <2>1 DEF WriteManifest, CopyEnds
    <3> QED BY <3>1, RunInHand DEF RunOK
  <2>2. CASE CopyFails(s)
    BY <2>2 DEF CopyFails, CopyEnds
  <2> QED BY <2>1, <2>2
<1>3. PICK x \in FileState: drive' = [drive EXCEPT ![f] = x]
  <2>1. drive[f] \in FileState
    BY <1>1, RunInHand
  <2>2. CASE WriteManifest(s)
    BY <1>1, <2>1, <2>2, RunInHand DEF WriteManifest
  <2>3. CASE CopyFails(s)
    BY <2>1, <2>3 DEF CopyFails, FileState
  <2> QED BY <2>2, <2>3
<1>4. /\ drive' \in [Files -> FileState] /\ disk' \in [Files -> FileState]
      /\ DOMAIN image' = Files
      /\ \A g \in Files: g # f => disk'[g] = disk[g] /\ drive'[g] = drive[g]
  BY <1>1, <1>3, RunInHand
<1>5. Unnamed(f, "OFF_DEVICE")
  BY <1>1, RunInHand DEF RunOK
<1>6. KeepsFiles
  BY <1>1, <1>4, <1>5, DriveFileChanges
<1>7. PICK n: /\ n.run = f /\ n.place = "OFF_DEVICE" /\ Adds({n})
              /\ rows' \subseteq rows \cup {n} /\ rows \subseteq rows'
  <2>1. \E n: /\ n = [run |-> f, type |-> run[s].type, place |-> "OFF_DEVICE",
                           status |-> status, at |-> clock, config |-> run[s].config]
                   /\ Adds({n})
                   /\ rows' \subseteq rows \cup {n} /\ (Open(s) => n \in rows')
                   /\ rows \subseteq rows'
    <3>1. "OFF_DEVICE" \in Place /\ "OFF_DEVICE" # "LOCAL_DISK"
      BY DEF Place
    <3>2. status = "COMPLETED" =>
           /\ Unnamed(f, "OFF_DEVICE")
           /\ (IF "OFF_DEVICE" = "LOCAL_DISK" THEN disk'[f] ELSE drive'[f]) = "WHOLE"
      BY <1>2, <1>5
    <3> QED BY <1>1, <1>2, <3>1, <3>2, OneRowAdded
  <2> QED BY <2>1
<1>8. PICK j: j = [run[s] EXCEPT !.pc = "RETAIN"] /\ run' = [run EXCEPT ![s] = j]
  BY <1>1 DEF Go
<1>9. RunShape(j) /\ j.file = f /\ j.pc = "RETAIN" /\ run'[s] = j
      /\ \A t \in Services: t # s => run'[t] = run[t]
  BY <1>1, <1>8, RunInHand DEF RunShape
<1>10. RunOK(s)'
  <2>1. f \in 1..runs' /\ s <= service'
    BY <1>1, RunInHand DEF around
  <2> QED BY <1>9, <2>1 DEF RunOK, Before, Copying
<1>11. Newest'
  <2>1. \A r: Done(r, "LOCAL_DISK") => (r \in rows' <=> r \in rows)
    BY <1>7 DEF Done
  <2>2. service' = service /\ pruned' = pruned /\ service \in Services
    BY <1>1 DEF around, BackupsInv, BackupShapes
  <2>3. run'[service].pc \in Copying \cup {"RETAIN"} =>
          /\ run[service].pc \in Copying \cup {"RETAIN"}
          /\ run'[service].file = run[service].file
    BY <1>1, <1>9, <2>2
  <2> QED BY <2>1, <2>2, <2>3, NewestIsKept
<1> QED BY <1>1, <1>4, <1>6, <1>7, <1>8, <1>9, <1>10, <1>11, OneRun

\* What retention removes.
LEMMA PlanIsOverAge ==
  ASSUME NEW r \in Plan
  PROVE  r \in rows /\ r.status = "COMPLETED" /\ r.place \in Place /\ OverAge(r)
<1>1. PICK place \in Place: r \in Completed(place) /\ OverAge(r)
  BY DEF Plan
<1> QED BY <1>1 DEF Completed

\* Retention, thorough or failing half way, removes of the plan and of partial files.
LEMMA RetentionRemoves ==
  ASSUME Retention
  PROVE  \E gone, forgotten, swept, there:
           /\ gone \subseteq Plan
           /\ swept \subseteq {f \in Files: disk[f] = "PARTIAL"}
           /\ there \subseteq {f \in Files: drive[f] = "PARTIAL"}
           /\ RetainSome(gone, forgotten, swept, there)
<1>1. CASE \E swept \in {{}, Sweepable(disk, "LOCAL_DISK")},
              there \in {{}, IF destination # 0 /\ plugged
                             THEN Sweepable(drive, "OFF_DEVICE") ELSE {}}:
             RetainSome(Plan, Plan, swept, there)
  <2>1. PICK swept \in {{}, Sweepable(disk, "LOCAL_DISK")},
             there \in {{}, IF destination # 0 /\ plugged
                            THEN Sweepable(drive, "OFF_DEVICE") ELSE {}}:
             RetainSome(Plan, Plan, swept, there)
    BY <1>1
  <2>2. /\ swept \subseteq {f \in Files: disk[f] = "PARTIAL"}
        /\ there \subseteq {f \in Files: drive[f] = "PARTIAL"}
    BY DEF Sweepable
  <2> QED BY <2>1, <2>2
<1>2. CASE \E gone \in SUBSET Plan: \E forgotten \in SUBSET gone:
             RetainSome(gone, forgotten, {}, {})
  BY <1>2
<1> QED BY <1>1, <1>2 DEF Retention

\* What it does to the files and to the rows.
LEMMA RetainSomeDoes ==
  ASSUME BackupsInv, NEW gone \in SUBSET Plan, NEW forgotten, NEW swept, NEW there,
         swept \subseteq {f \in Files: disk[f] = "PARTIAL"},
         there \subseteq {f \in Files: drive[f] = "PARTIAL"},
         RetainSome(gone, forgotten, swept, there), image' = image
  PROVE  /\ AllRows' \subseteq AllRows /\ rows' \subseteq rows
         /\ disk' \in [Files -> FileState] /\ drive' \in [Files -> FileState]
         /\ pruned' = pruned \cup {<<r.place, r.run>>: r \in gone}
         /\ \A f \in Files: disk'[f] # disk[f] =>
              \/ disk[f] = "PARTIAL"
              \/ \E r \in gone: r.run = f /\ r.place = "LOCAL_DISK"
         /\ \A f \in Files: drive'[f] # drive[f] =>
              \/ drive[f] = "PARTIAL"
              \/ \E r \in gone: r.run = f /\ r.place = "OFF_DEVICE"
<1> DEFINE Gone(place) == {r.run: r \in {q \in gone: q.place = place /\ Reachable(q)}}
           Without(states, files_) == [f \in Files |-> IF f \in files_ THEN "NONE" ELSE states[f]]
<1>1. /\ rows' = rows \ forgotten
      /\ disk' = Without(disk, swept \cup Gone("LOCAL_DISK"))
      /\ drive' = Without(drive, there \cup Gone("OFF_DEVICE"))
      /\ pruned' = pruned \cup {<<r.place, r.run>>: r \in gone}
  BY DEF RetainSome
<1>2. AllRows' \subseteq AllRows
  BY <1>1 DEF AllRows
<1>3. disk \in [Files -> FileState] /\ drive \in [Files -> FileState]
  BY DEF BackupsInv, BackupShapes
<1>4. disk' \in [Files -> FileState] /\ drive' \in [Files -> FileState]
  BY <1>1, <1>3 DEF FileState
<1>5. \A f \in Files: disk'[f] # disk[f] => f \in swept \/ f \in Gone("LOCAL_DISK")
  BY <1>1
<1>6. \A f \in Files: drive'[f] # drive[f] => f \in there \/ f \in Gone("OFF_DEVICE")
  BY <1>1
<1> QED BY <1>1, <1>2, <1>4, <1>5, <1>6

\* Retention: a row whose file it removes is over its age, and no other loses its file.
LEMMA RetainStep ==
  ASSUME BackupsInv, NEW s \in Services, Retain(s)
  PROVE  BackupsInv'
<1>1. /\ run[s].pc = "RETAIN" /\ run[s].pc # "IDLE"
      /\ UNCHANGED <<image, destination, around, tracked, runs>>
      /\ run' = [run EXCEPT ![s] = Idle]
  BY DEF Retain, End
<1>2. run'[s] = Idle /\ \A t \in Services: t # s => run'[t] = run[t]
  BY <1>1, RunInHand
<1>3. RunOK(s)'
  BY <1>2, IdleShape DEF RunOK, Before, Copying
<1>4. CASE ~Open(s) /\ UNCHANGED <<disk, drive, rows, pruned, upsets>>
  <2>1. AllRows' \subseteq AllRows
    BY <1>1, <1>4, SameRows
  <2>2. KeepsFiles
    BY <1>4 DEF KeepsFiles, FileOf
  <2>3. Newest'
    <3>1. service' = service /\ pruned' = pruned /\ service \in Services
      BY <1>1, <1>4 DEF around, BackupsInv, BackupShapes
    <3>2. run'[service].pc \in Copying \cup {"RETAIN"} => service # s
      BY <1>2, IdleShape DEF Copying
    <3> QED BY <1>2, <1>4, <3>1, <3>2, NewestIsKept
  <2>4. /\ disk' \in [Files -> FileState] /\ drive' \in [Files -> FileState]
        /\ DOMAIN image' = Files
    BY <1>1, <1>4, RunInHand
  <2> QED BY <1>1, <1>3, <1>4, <2>1, <2>2, <2>3, <2>4, IdleShape, NoRowAdded, OneRun
<1>5. CASE Open(s) /\ Retention
  <2>1. PICK gone, forgotten, swept, there:
           /\ gone \subseteq Plan
           /\ swept \subseteq {f \in Files: disk[f] = "PARTIAL"}
           /\ there \subseteq {f \in Files: drive[f] = "PARTIAL"}
           /\ RetainSome(gone, forgotten, swept, there)
    BY <1>5, RetentionRemoves
  <2>2. /\ AllRows' \subseteq AllRows /\ rows' \subseteq rows
        /\ disk' \in [Files -> FileState] /\ drive' \in [Files -> FileState]
        /\ pruned' = pruned \cup {<<r.place, r.run>>: r \in gone}
        /\ \A f \in Files: disk'[f] # disk[f] =>
             \/ disk[f] = "PARTIAL"
             \/ \E r \in gone: r.run = f /\ r.place = "LOCAL_DISK"
        /\ \A f \in Files: drive'[f] # drive[f] =>
             \/ drive[f] = "PARTIAL"
             \/ \E r \in gone: r.run = f /\ r.place = "OFF_DEVICE"
    BY <1>1, <2>1, RetainSomeDoes
  <2>3. \A r \in gone: /\ r \in AllRows /\ r.status = "COMPLETED" /\ OverAge(r)
                       /\ r.place \in Place /\ r.run \in 1..runs
    BY <2>1, PlanIsOverAge, RowFacts DEF AllRows
  <2>4. /\ clock' = clock /\ runs' = runs /\ service' = service /\ plugged' = plugged
        /\ clock \in Nat /\ runs \in Nat
    BY <1>1 DEF around, BackupsInv, BackupShapes
  <2>5. ASSUME NEW r \in AllRows PROVE RowOK(r)'
    <3>1. RowOK(r) /\ r.run \in Files /\ r.place \in Place
      BY RowFacts
    <3>2. ASSUME r.status = "COMPLETED", NEW q \in gone, q.place = r.place, q.run = r.run
          PROVE  clock - r.at > Keep[r.type]
      <4>1. q = r
        BY <2>3, <3>2 DEF BackupsInv, Unique
      <4> QED BY <2>3, <4>1 DEF OverAge
    <3>3. CASE r.status = "COMPLETED" /\ <<r.place, r.run>> \in pruned'
      <4>1. clock - r.at > Keep[r.type]
        <5>1. CASE <<r.place, r.run>> \in pruned
          BY <3>1, <3>3, <5>1 DEF RowOK
        <5>2. CASE <<r.place, r.run>> \notin pruned
          <6>1. PICK q \in gone: q.place = r.place /\ q.run = r.run
            BY <2>2, <3>3, <5>2
          <6> QED BY <3>2, <3>3, <6>1
        <5> QED BY <5>1, <5>2
      <4> QED BY <2>4, <3>1, <3>3, <4>1 DEF RowOK
    <3>4. CASE r.status = "COMPLETED" /\ <<r.place, r.run>> \notin pruned'
      <4>1. FileOf(r) = "WHOLE"
        BY <2>2, <3>1, <3>4 DEF RowOK
      <4>2. ~\E q \in gone: q.run = r.run /\ q.place = r.place
        BY <2>2, <3>4
      <4>3. FileOf(r)' = FileOf(r)
        BY <2>2, <3>1, <4>1, <4>2 DEF FileOf, Place
      <4> QED BY <2>4, <3>1, <3>4, <4>1, <4>3 DEF RowOK
    <3>5. CASE r.status # "COMPLETED"
      BY <2>4, <3>1, <3>5 DEF RowOK
    <3> QED BY <3>3, <3>4, <3>5
  <2>6. RowsOK' /\ Unique'
    BY <2>2, <2>5 DEF RowsOK, Unique, BackupsInv
  <2>7. ASSUME NEW t \in Services, t # s PROVE RunOK(t)'
    <3> PICK f: f = run[t].file
      OBVIOUS
    <3>1. run'[t] = run[t]
      BY <1>2, <2>7
    <3>2. CASE run[t].pc = "IDLE"
      BY <3>1, <3>2 DEF RunOK, Before, Copying
    <3>3. CASE run[t].pc # "IDLE"
      <4>1. f \in Files /\ f \in 1..runs /\ RunOK(t) /\ t <= service
        BY <3>3, RunInHand
      <4>2. \A place: Unnamed(f, place) => Unnamed(f, place)'
        BY <2>2, <2>3 DEF Unnamed
      <4>3. /\ Unnamed(f, "LOCAL_DISK") /\ disk[f] = "WHOLE" => disk'[f] = "WHOLE"
            /\ Unnamed(f, "OFF_DEVICE") /\ drive[f] = "WHOLE" => drive'[f] = "WHOLE"
        BY <2>2, <2>3, <4>1 DEF Unnamed
      <4> QED BY <2>4, <3>1, <3>3, <4>1, <4>2, <4>3 DEF RunOK, Before, Copying
    <3> QED BY <3>2, <3>3
  <2>8. RunsOK' /\ Services' = Services
    BY <1>3, <2>7 DEF RunsOK, Services
  <2>9. Newest'
    <3>1. s = service
      BY <1>5 DEF Open
    <3> QED BY <1>2, <2>4, <3>1, IdleShape DEF Newest, Copying
  <2>10. Apart'
    BY <1>2, <2>8, IdleShape DEF Apart, BackupsInv
  <2>11. BackupShapes'
    <3>1. DOMAIN run' = Services /\ \A t \in Services: RunShape(run'[t])
      BY <1>1, <1>2, IdleShape, RunInHand DEF BackupsInv, BackupShapes
    <3>2. pruned' \subseteq Place \X (1..runs)
      BY <2>2, <2>3 DEF BackupsInv, BackupShapes
    <3> QED BY <1>1, <2>2, <2>4, <2>8, <3>1, <3>2 DEF BackupsInv, BackupShapes
  <2> QED BY <2>6, <2>8, <2>9, <2>10, <2>11 DEF BackupsInv
<1> QED BY <1>4, <1>5 DEF Retain

\* The same where no row appears.
LEMMA RunIsKept ==
  ASSUME BackupsInv, AllRows' \subseteq AllRows, Grows, NEW t \in Services,
         run'[t] = run[t],
         run[t].pc # "IDLE" => /\ disk'[run[t].file] = disk[run[t].file]
                               /\ drive'[run[t].file] = drive[run[t].file]
                               /\ service' \in Nat /\ service <= service'
                               /\ run[t].pc = "DIRECTORY" => plugged'
  PROVE  RunOK(t)'
<1> PICK N: N = {}
  OBVIOUS
<1>1. Services' = Services /\ AllRows' \subseteq AllRows \cup N /\ \A n \in N: n.run # run[t].file
  BY DEF Services
<1> QED BY <1>1, OthersAreKept

\* A backup starts: no row names its file.
LEMMA BeginStep ==
  ASSUME BackupsInv, NEW type \in Type, Begin(type), run[service].pc = "IDLE"
  PROVE  BackupsInv'
<1> PICK s: s = service
  OBVIOUS
<1> PICK f: f = runs + 1
  OBVIOUS
<1> PICK j: j = [pc |-> "SNAPSHOT", type |-> type, file |-> f, config |-> 0]
  OBVIOUS
<1>0. /\ s \in Services /\ DOMAIN run = Services /\ disk \in [Files -> FileState]
      /\ drive \in [Files -> FileState] /\ runs \in Nat /\ runs <= MaxRuns /\ MaxRuns \in Nat
      /\ clock \in Nat /\ pruned \subseteq Place \X (1..runs) /\ service \in Nat
  BY BackupsAssumption DEF BackupsInv, BackupShapes, Services
<1>1. /\ runs < MaxRuns /\ runs' = f /\ run' = [run EXCEPT ![s] = j]
      /\ disk' = [disk EXCEPT ![f] = "PARTIAL"]
      /\ UNCHANGED <<drive, image, rows, around, pruned>>
  BY DEF Begin, catalogue
<1>2. /\ f \in Files /\ f \in Nat /\ f \notin 1..runs /\ f \in 1..runs'
      /\ \A g \in 1..runs: g \in 1..runs' /\ g \in Files
      /\ clock' = clock /\ service' = service /\ plugged' = plugged /\ Services' = Services
  BY <1>0, <1>1 DEF Files, around, Services
<1>3. /\ disk' \in [Files -> FileState] /\ drive' \in [Files -> FileState]
      /\ \A g \in Files: g # f => disk'[g] = disk[g] /\ drive'[g] = drive[g]
  BY <1>0, <1>1, <1>2 DEF FileState
<1>4. run'[s] = j /\ \A t \in Services: t # s => run'[t] = run[t]
  BY <1>0, <1>1
<1>5. AllRows' \subseteq AllRows
  BY <1>1, SameRows
<1>6. \A place: Unnamed(f, place)
  BY <1>0, <1>2, RowFacts DEF Unnamed
<1>7. KeepsFiles
  BY <1>1, <1>3, <1>6, LocalFileChanges
<1>8. Grows
  BY <1>0, <1>1, <1>2 DEF Grows
<1>9. RowsOK' /\ Unique'
  BY <1>5, <1>7, <1>8, NoRowAdded, RowsAreKept
<1>10. RunOK(s)'
  <2>1. \A place: Unnamed(f, place)'
    BY <1>1, <1>5, <1>6, StaysUnnamed
  <2>2. s <= service'
    BY <1>0, <1>2
  <2> QED BY <1>2, <1>4, <2>1, <2>2 DEF RunOK, Before, Copying
<1>11. ASSUME NEW t \in Services, t # s 
      PROVE  RunOK(t)' /\ (run'[t].pc = "IDLE" \/ run'[t].file # f)
  <2>1. run[t].pc # "IDLE" => run[t].file \in 1..runs
    BY RunInHand
  <2>2. run[t].pc # "IDLE" => /\ disk'[run[t].file] = disk[run[t].file]
                              /\ drive'[run[t].file] = drive[run[t].file]
                              /\ service' \in Nat /\ service <= service'
                              /\ run[t].pc = "DIRECTORY" => plugged'
    <3>1. run[t].pc = "DIRECTORY" => plugged
      BY DEF BackupsInv, RunsOK, RunOK
    <3> QED BY <1>0, <1>2, <1>3, <2>1, <3>1
  <2>3. RunOK(t)'
    BY <1>2, <1>4, <1>5, <1>8, <1>11, <2>2, RunIsKept
  <2> QED BY <1>2, <1>4, <1>11, <2>1, <2>3
<1>12. RunsOK'
  BY <1>2, <1>10, <1>11 DEF RunsOK
<1>13. Apart'
  BY <1>2, <1>4, <1>11 DEF Apart, BackupsInv
<1>14. Newest'
  BY <1>2, <1>4 DEF Newest, Copying
<1>15. BackupShapes'
  <2>1. DOMAIN run' = Services /\ \A t \in Services: RunShape(run'[t])
    BY <1>0, <1>1, <1>4 DEF RunShape, BackupsInv, BackupShapes
  <2>2. pruned' \subseteq Place \X (1..runs')
    BY <1>0, <1>1, <1>2
  <2>3. runs' \in Nat /\ runs' <= MaxRuns
    BY <1>0, <1>1, <1>2
  <2>4. DOMAIN image' = Files /\ service' \in Services'
    BY <1>0, <1>1, <1>2 DEF BackupsInv, BackupShapes
  <2> QED BY <1>0, <1>2, <1>3, <2>1, <2>2, <2>3, <2>4 DEF BackupShapes
<1> QED BY <1>9, <1>12, <1>13, <1>14, <1>15 DEF BackupsInv

\* What happens around the runs: no file changes, and no row appears.
LEMMA WorldKeeps ==
  ASSUME BackupsInv, UNCHANGED <<disk, drive, image, runs, pruned>>,
         AllRows' \subseteq AllRows, clock' \in Nat, clock <= clock',
         service' \in Services, service <= service',
         run' = run \/ run' = [s \in Services |-> Idle],
         \A s \in Services: run[s].pc = "DIRECTORY" => plugged',
         Newest'
  PROVE  BackupsInv'
<1>0. Services' = Services /\ DOMAIN run = Services /\ service' \in Nat
  BY BackupsAssumption DEF BackupsInv, BackupShapes, Services
<1>1. Grows
  BY DEF Grows, BackupsInv, BackupShapes
<1>2. KeepsFiles
  BY DEF KeepsFiles, FileOf
<1>3. RowsOK' /\ Unique'
  BY <1>1, <1>2, NoRowAdded, RowsAreKept
<1>4. BackupShapes'
  <2>1. DOMAIN run' = Services /\ \A t \in Services: RunShape(run'[t])
    BY <1>0, IdleShape DEF BackupsInv, BackupShapes
  <2> QED BY <1>0, <2>1 DEF BackupsInv, BackupShapes
<1>5. ASSUME NEW t \in Services PROVE RunOK(t)'
  <2>1. CASE run' = run
    <3>1. run[t].pc # "IDLE" => /\ disk'[run[t].file] = disk[run[t].file]
                                /\ drive'[run[t].file] = drive[run[t].file]
                                /\ service' \in Nat /\ service <= service'
                                /\ run[t].pc = "DIRECTORY" => plugged'
      BY <1>0
    <3> QED BY <1>0, <1>1, <2>1, <3>1, RunIsKept
  <2>2. CASE run' = [s \in Services |-> Idle]
    BY <2>2, IdleShape DEF RunOK, Before, Copying
  <2> QED BY <2>1, <2>2
<1>6. Apart'
  BY <1>0, IdleShape DEF Apart, BackupsInv
<1> QED BY <1>0, <1>3, <1>4, <1>5, <1>6 DEF BackupsInv, RunsOK

\* A step that records nothing leaves the newest local backup the newest.
LEMMA NothingRecorded ==
  ASSUME BackupsInv, UNCHANGED <<rows, service, run, pruned>>
  PROVE  Newest'
BY NewestIsKept

\* A restore starts a service that has no run in hand.
LEMMA RewindStep ==
  ASSUME BackupsInv, NEW f \in Files, Rewind(f)
  PROVE  BackupsInv'
<1>1. /\ rows' = image[f].rows /\ service' = service + 1 /\ service < MaxServices
      /\ UNCHANGED <<disk, drive, image, clock, plugged, run, runs, pruned>>
  BY DEF Rewind, files
<1>2. AllRows' \subseteq AllRows
  BY <1>1 DEF AllRows
<1>3. /\ service' \in Services /\ service <= service' /\ service \in Nat
      /\ clock \in Nat
  BY <1>1, BackupsAssumption DEF BackupsInv, BackupShapes, Services
<1>4. run[service'].pc = "IDLE"
  <2>1. ~(service' <= service)
    BY <1>1, <1>3
  <2> QED BY <1>3, <2>1, RunInHand
<1>5. Newest'
  BY <1>1, <1>4 DEF Newest, Copying
<1>6. \A s \in Services: run[s].pc = "DIRECTORY" => plugged'
  BY <1>1 DEF BackupsInv, RunsOK, RunOK
<1> QED BY <1>1, <1>2, <1>3, <1>5, <1>6, WorldKeeps

\* The rest of the world.
LEMMA WorldStep ==
  ASSUME "DIRECTORY" \notin Faults, BackupsInv, World \/ Launch \/ RefuseManual
  PROVE  BackupsInv'
<1>0. /\ clock \in Nat /\ service \in Services /\ service <= service
      /\ \A s \in Services: run[s].pc = "DIRECTORY" => plugged
  BY BackupsAssumption DEF BackupsInv, BackupShapes, Services, RunsOK, RunOK
<1>1. CASE \E to \in 1..MaxClock: Elapse(to)
  <2>1. PICK to \in 1..MaxClock: Elapse(to)
    BY <1>1
  <2>2. /\ UNCHANGED <<disk, drive, image, rows, plugged, service, run, runs, pruned>>
        /\ clock' = to /\ clock < to
    BY <2>1 DEF Elapse, files, catalogue
  <2> QED BY <1>0, <2>2, SameRows, NothingRecorded, WorldKeeps
<1>2. CASE Unplug
  <2>1. /\ UNCHANGED <<disk, drive, image, rows, clock, service, run, runs, pruned>>
        /\ \A s \in Services: run[s].pc # "DIRECTORY"
    BY <1>2 DEF Unplug, files, catalogue, Services
  <2> QED BY <1>0, <2>1, SameRows, NothingRecorded, WorldKeeps
<1>3. CASE Plug
  <2>1. /\ UNCHANGED <<disk, drive, image, rows, clock, service, run, runs, pruned>>
        /\ plugged'
    BY <1>3 DEF Plug, files, catalogue
  <2> QED BY <1>0, <2>1, SameRows, NothingRecorded, WorldKeeps
<1>4. CASE Configure \/ ClearDestination \/ Quit \/ Launch \/ RefuseManual
  <2>1. UNCHANGED <<disk, drive, image, rows, clock, plugged, service, run, runs, pruned>>
    BY <1>4 DEF Configure, ClearDestination, Quit, Launch, RefuseManual, files, catalogue,
                around
  <2> QED BY <1>0, <2>1, SameRows, NothingRecorded, WorldKeeps
<1>5. CASE Die
  <2>1. /\ UNCHANGED <<disk, drive, image, rows, clock, plugged, service, runs, pruned>>
        /\ run' = [s \in Services |-> Idle]
    BY <1>5 DEF Die, files, catalogue, Services
  <2>2. Newest'
    BY <1>0, <2>1, IdleShape DEF Newest, Copying
  <2> QED BY <1>0, <2>1, <2>2, SameRows, WorldKeeps
<1>6. CASE \E f \in Files: Rewind(f)
  BY <1>6, RewindStep
<1> QED BY <1>1, <1>2, <1>3, <1>4, <1>5, <1>6 DEF World

\* At first there is no row and no run.
LEMMA BackupsStarts == BackupsInit => BackupsInv
<1> SUFFICES ASSUME BackupsInit PROVE BackupsInv
  OBVIOUS
<1>1. AllRows = {}
  BY DEF BackupsInit, AllRows
<1>2. BackupShapes
  BY BackupsAssumption, IdleShape DEF BackupsInit, BackupShapes, Services, FileState
<1>3. \A s \in Services: run[s] = Idle
  BY DEF BackupsInit, Services
<1>4. RunsOK /\ Apart
  BY <1>3, IdleShape DEF RunsOK, RunOK, Apart, Before, Copying
<1>5. Newest
  BY <1>2, <1>3, IdleShape DEF Newest, Copying, BackupShapes
<1> QED BY <1>1, <1>2, <1>4, <1>5 DEF BackupsInv, RowsOK, Unique

\* Every step keeps the invariant, as the drive does not vanish before mkdir.
LEMMA BackupsStep ==
  ASSUME "DIRECTORY" \notin Faults, BackupsInv, [BackupsNext]_backupVars
  PROVE  BackupsInv'
<1>1. CASE BackUpNow \/ BackUpIfDue
  BY <1>1, BeginStep DEF BackUpNow, BackUpIfDue, Type, Keep
<1>2. ASSUME NEW s \in Services, Step(s) PROVE BackupsInv'
  <2>1. CASE SnapshotFails(s) \/ VerifyFails(s) \/ RecordFails(s)
    BY <2>1, LocalFailsStep DEF SnapshotFails, VerifyFails, RecordFails, Before
  <2>2. ~DirectoryFails(s)
    BY DEF DirectoryFails, BackupsInv, RunsOK, RunOK
  <2> QED BY <1>2, <2>1, <2>2, SnapshotStep, VerifyStep, RecordStep, CheckStep, DriveStep,
             CopyStep, RetainStep DEF Step
<1>3. CASE RefuseManual \/ World \/ Launch
  BY <1>3, WorldStep
<1>4. CASE UNCHANGED backupVars
  <2>1. /\ UNCHANGED <<disk, drive, image, rows, clock, plugged, service, run, runs, pruned>>
    BY <1>4 DEF backupVars, files, catalogue, around
  <2>2. /\ clock \in Nat /\ service \in Services /\ service <= service
        /\ \A s \in Services: run[s].pc = "DIRECTORY" => plugged
    BY BackupsAssumption DEF BackupsInv, BackupShapes, Services, RunsOK, RunOK
  <2> QED BY <2>1, <2>2, SameRows, NothingRecorded, WorldKeeps
<1> QED BY <1>1, <1>2, <1>3, <1>4 DEF BackupsNext, Services

\* The time of the newest of some rows.
LEMMA LatestIsOne ==
  ASSUME BackupsInv, NEW T \in SUBSET (0..clock), T # {}
  PROVE  Latest(T) \in T /\ \A u \in T: u <= Latest(T)
<1>1. clock \in Nat
  BY DEF BackupsInv, BackupShapes
<1>2. \E t \in T: \A u \in T: u <= t
  BY <1>1, MaxExists
<1> QED BY <1>2 DEF Latest

\* Every backup the catalogue calls COMPLETED is a whole file where it says it is, or
\* one that retention removed.
THEOREM CompletedWhole ==
  ASSUME "DIRECTORY" \notin Faults
  PROVE  BackupsSpec => []CompletedIsWhole
<1>1. BackupsInv => CompletedIsWhole
  <2> SUFFICES ASSUME BackupsInv, NEW r \in rows, r.status = "COMPLETED",
                      <<r.place, r.run>> \notin pruned
               PROVE  (IF r.place = "LOCAL_DISK" THEN disk ELSE drive)[r.run] = "WHOLE"
    BY DEF CompletedIsWhole
  <2>1. r \in AllRows
    BY DEF AllRows
  <2>2. RowOK(r)
    BY <2>1, RowFacts
  <2> QED BY <2>2 DEF RowOK, FileOf
<1> QED BY <1>1, BackupsStarts, BackupsStep, PTL DEF BackupsSpec

\* Days are counted by the date: a copy past the age it is kept for is stale.
LEMMA OverAgeIsStale ==
  ASSUME NEW from \in Nat, NEW to \in Nat, NEW type \in Type, to - from > Keep[type]
  PROVE  Days(from, to) >= StaleDays
<1>1. Keep[type] \in Nat /\ 2 * StaleDays <= Keep[type] + 1 /\ StaleDays \in Nat
  BY BackupsAssumption DEF Type, Keep
<1>2. to >= from + 2 * StaleDays
  BY <1>1
<1>3. (from + 2 * StaleDays) \div 2 = (from \div 2) + StaleDays
  BY <1>1
<1>4. to \div 2 >= (from + 2 * StaleDays) \div 2
  BY <1>1, <1>2
<1> QED BY <1>1, <1>3, <1>4 DEF Days

\* While the health shown is HEALTHY the drive holds a whole copy of the last days: the
\* copy it counts is too young for retention to have removed it.
THEOREM HealthyProtected ==
  ASSUME "DIRECTORY" \notin Faults
  PROVE  BackupsSpec => []HealthyIsProtected
<1>1. BackupsInv => HealthyIsProtected
  <2> SUFFICES ASSUME BackupsInv, NEW config \in 1..configured,
                      Protection(config) = "HEALTHY"
               PROVE  \E r \in Completed("OFF_DEVICE"):
                        /\ r.config >= config /\ drive[r.run] = "WHOLE"
                        /\ Days(r.at, clock) < StaleDays
    BY DEF HealthyIsProtected
  <2> DEFINE T == {r.at: r \in Copies(config)}
  <2>1. Copies(config) # {} /\ ~(Days(Latest(T), clock) >= StaleDays)
    BY DEF Protection
  <2>2. \A r \in Copies(config): /\ r \in AllRows /\ r \in Completed("OFF_DEVICE")
                                 /\ r.config >= config
    BY DEF Copies, Completed, AllRows
  <2>3. T \in SUBSET (0..clock) /\ T # {}
    BY <2>1, <2>2, RowFacts
  <2>4. PICK r \in Copies(config): r.at = Latest(T)
    BY <2>3, LatestIsOne
  <2>5. /\ RowOK(r) /\ r.at \in Nat /\ clock \in Nat /\ r.type \in Type
        /\ r.status = "COMPLETED" /\ r.place = "OFF_DEVICE"
    BY <2>2, RowFacts DEF Completed
  <2>6. ~(Days(r.at, clock) >= StaleDays)
    BY <2>1, <2>4
  <2>7. <<r.place, r.run>> \notin pruned
    BY <2>5, <2>6, OverAgeIsStale DEF RowOK
  <2>8. drive[r.run] = "WHOLE"
    BY <2>5, <2>7 DEF RowOK, FileOf
  <2>9. Days(r.at, clock) < StaleDays
    BY <2>5, <2>6, BackupsAssumption DEF Days
  <2> QED BY <2>2, <2>8, <2>9
<1> QED BY <1>1, BackupsStarts, BackupsStep, PTL DEF BackupsSpec

\* Where retention means to remove a row it leaves one of that place: a young one or the
\* newest.
LEMMA OneIsSpared ==
  ASSUME BackupsInv, NEW place \in Place, NEW r \in Plan, r.place = place
  PROVE  \E c \in Completed(place):
           /\ c \notin Plan
           /\ ~OverAge(c) \/ \A q \in Completed(place): q.at <= c.at
<1> DEFINE Prune(p) ==
             LET prune == {q \in Completed(p): OverAge(q)}
             IN  IF prune # Completed(p) \/ prune = {} THEN prune
                 ELSE prune \ {CHOOSE q \in prune: \A u \in prune: u.at <= q.at}
<1>1. \A c: c \in Plan => c \in Prune(c.place)
  BY DEF Plan, Completed
<1>2. r \in Completed(place)
  BY PlanIsOverAge DEF Completed
<1>3. CASE \E c \in Completed(place): ~OverAge(c)
  BY <1>3, PlanIsOverAge
<1>4. CASE \A c \in Completed(place): OverAge(c)
  <2> DEFINE all == Completed(place)
             newest == CHOOSE q \in all: \A u \in all: u.at <= q.at
  <2>1. PICK t \in {q.at: q \in all}: \A u \in {q.at: q \in all}: u <= t
    <3>1. \A q \in all: q.at \in 0..clock /\ clock \in Nat
      BY RowFacts DEF Completed, AllRows
    <3>2. {q.at: q \in all} \in SUBSET (0..clock) /\ {q.at: q \in all} # {}
      BY <1>2, <3>1
    <3> HIDE DEF all
    <3> QED BY <1>2, <3>1, <3>2, MaxExists
  <2>2. \E q \in all: \A u \in all: u.at <= q.at
    BY <2>1
  <2>3. newest \in all /\ \A u \in all: u.at <= newest.at
    BY <2>2
  <2>4. {q \in all: OverAge(q)} = all /\ all # {}
    BY <1>2, <1>4
  <2>5. Prune(place) = all \ {newest}
    BY <2>4
  <2>6. newest.place = place
    BY <2>3 DEF Completed
  <2>7. newest \notin Plan
    <3> HIDE DEF Prune, newest
    <3> QED BY <1>1, <2>5, <2>6
  <2> QED BY <2>3, <2>7
<1> QED BY <1>3, <1>4

\* Retention leaves a whole backup where there was one, and what it removes is past its
\* age: the run in hand has just recorded the newest local backup, and a copy is spared
\* while the catalogue counts none that was removed before.
THEOREM RetentionIsSparing ==
  ASSUME "DIRECTORY" \notin Faults
  PROVE  BackupsSpec => RetentionSpares
<1> DEFINE Spares ==
      \A s \in 1..MaxServices: Retain(s) =>
       /\ (\E f \in Files: disk[f] = "WHOLE") => (\E f \in Files: disk'[f] = "WHOLE")
       /\ /\ \E f \in Files: drive[f] = "WHOLE"
          /\ \A r \in Completed("OFF_DEVICE"): <<r.place, r.run>> \notin pruned
          => \E f \in Files: drive'[f] = "WHOLE"
       /\ \A f \in Files:
            /\ disk[f] = "WHOLE" /\ disk'[f] # "WHOLE" =>
                 \E r \in Completed("LOCAL_DISK"): r.run = f /\ OverAge(r)
            /\ drive[f] = "WHOLE" /\ drive'[f] # "WHOLE" =>
                 \E r \in Completed("OFF_DEVICE"): r.run = f /\ OverAge(r)
<1>1. BackupsInv => Spares
  <2> SUFFICES ASSUME BackupsInv, NEW s \in Services, Retain(s)
      PROVE  /\ (\E f \in Files: disk[f] = "WHOLE") => (\E f \in Files: disk'[f] = "WHOLE")
             /\ /\ \E f \in Files: drive[f] = "WHOLE"
                /\ \A r \in Completed("OFF_DEVICE"): <<r.place, r.run>> \notin pruned
                => \E f \in Files: drive'[f] = "WHOLE"
             /\ \A f \in Files:
                  /\ disk[f] = "WHOLE" /\ disk'[f] # "WHOLE" =>
                       \E r \in Completed("LOCAL_DISK"): r.run = f /\ OverAge(r)
                  /\ drive[f] = "WHOLE" /\ drive'[f] # "WHOLE" =>
                       \E r \in Completed("OFF_DEVICE"): r.run = f /\ OverAge(r)
    BY DEF Services
  <2>1. CASE ~Open(s) /\ UNCHANGED <<disk, drive, rows, pruned, upsets>>
    BY <2>1
  <2>2. CASE Open(s) /\ Retention
    <3>1. PICK gone, forgotten, swept, there:
             /\ gone \subseteq Plan
             /\ swept \subseteq {f \in Files: disk[f] = "PARTIAL"}
             /\ there \subseteq {f \in Files: drive[f] = "PARTIAL"}
             /\ RetainSome(gone, forgotten, swept, there)
      BY <2>2, RetentionRemoves
    <3>2. /\ \A f \in Files: disk'[f] # disk[f] =>
               \/ disk[f] = "PARTIAL"
               \/ \E r \in gone: r.run = f /\ r.place = "LOCAL_DISK"
          /\ \A f \in Files: drive'[f] # drive[f] =>
               \/ drive[f] = "PARTIAL"
               \/ \E r \in gone: r.run = f /\ r.place = "OFF_DEVICE"
      <4>1. image' = image
        BY DEF Retain
      <4> QED BY <3>1, <4>1, RetainSomeDoes
    <3>3. \A r \in gone: /\ r \in AllRows /\ r \in Completed(r.place) /\ OverAge(r)
                         /\ r.place \in Place /\ r.status = "COMPLETED"
      BY <3>1, PlanIsOverAge DEF AllRows, Completed
    <3>4. ASSUME NEW place \in Place, NEW c \in Completed(place), c \notin Plan,
                 <<c.place, c.run>> \notin pruned
          PROVE  IF place = "LOCAL_DISK" THEN \E f \in Files: disk'[f] = "WHOLE"
                                         ELSE \E f \in Files: drive'[f] = "WHOLE"
      <4>1. /\ c \in AllRows /\ c.status = "COMPLETED" /\ c.place = place
        BY DEF Completed, AllRows
      <4>2. RowOK(c) /\ c.run \in Files
        BY <4>1, RowFacts
      <4>3. FileOf(c) = "WHOLE"
        BY <3>4, <4>1, <4>2 DEF RowOK
      <4>4. ~\E q \in gone: q.run = c.run /\ q.place = place
        BY <3>1, <3>3, <3>4, <4>1 DEF BackupsInv, Unique
      <4> QED BY <3>2, <4>1, <4>2, <4>3, <4>4 DEF FileOf, Place
    <3>5. ASSUME NEW f \in Files, disk[f] = "WHOLE", \A g \in Files: disk'[g] # "WHOLE"
          PROVE  FALSE
      <4>1. s = service /\ run[service].pc \in Copying \cup {"RETAIN"}
        BY <2>2 DEF Open, Retain
      <4>2. PICK r \in rows:
              /\ Done(r, "LOCAL_DISK")
              /\ <<"LOCAL_DISK", r.run>> \notin pruned
              /\ \A q \in rows: Done(q, "LOCAL_DISK") =>
                   /\ q.at <= r.at
                   /\ <<"LOCAL_DISK", q.run>> \in pruned => r.at - q.at > Keep[q.type]
        BY <4>1 DEF BackupsInv, Newest
      <4>3. r \in Completed("LOCAL_DISK") /\ r.place = "LOCAL_DISK" /\ "LOCAL_DISK" \in Place
        BY <4>2 DEF Completed, Done, Place
      <4>4. r \in Plan
        BY <3>4, <3>5, <4>2, <4>3
      <4>5. PICK c \in Completed("LOCAL_DISK"):
              /\ c \notin Plan
              /\ ~OverAge(c) \/ \A q \in Completed("LOCAL_DISK"): q.at <= c.at
        BY <4>3, <4>4, OneIsSpared
      <4>6. /\ c \in rows /\ Done(c, "LOCAL_DISK") /\ c \in AllRows /\ r \in AllRows
            /\ c.place = "LOCAL_DISK"
        BY <4>2 DEF Completed, Done, AllRows
      <4>7. /\ RowOK(c) /\ c.at \in Nat /\ r.at \in Nat /\ c.type \in Type
            /\ Keep[c.type] \in Nat
        BY <4>6, RowFacts, BackupsAssumption DEF Type, Keep
      <4>8. <<"LOCAL_DISK", c.run>> \notin pruned
        <5>1. CASE ~OverAge(c)
          BY <4>6, <4>7, <5>1 DEF RowOK, OverAge, Done
        <5>2. CASE \A q \in Completed("LOCAL_DISK"): q.at <= c.at
          <6>1. r.at <= c.at
            BY <4>3, <5>2
          <6> QED BY <4>2, <4>6, <4>7, <6>1
        <5> QED BY <4>5, <5>1, <5>2
      <4> QED BY <3>4, <3>5, <4>3, <4>5, <4>6, <4>8
    <3>6. ASSUME NEW f \in Files, drive[f] = "WHOLE", \A g \in Files: drive'[g] # "WHOLE",
                 \A r \in Completed("OFF_DEVICE"): <<r.place, r.run>> \notin pruned
          PROVE  FALSE
      <4>1. PICK r \in gone: r.place = "OFF_DEVICE"
        BY <3>2, <3>6
      <4>2. r \in Plan /\ "OFF_DEVICE" \in Place
        BY <3>1 DEF Place
      <4>3. PICK c \in Completed("OFF_DEVICE"): c \notin Plan
        BY <4>1, <4>2, OneIsSpared
      <4> QED BY <3>4, <3>6, <4>2, <4>3
    <3>7. ASSUME NEW f \in Files
          PROVE  /\ disk[f] = "WHOLE" /\ disk'[f] # "WHOLE" =>
                      \E r \in Completed("LOCAL_DISK"): r.run = f /\ OverAge(r)
                 /\ drive[f] = "WHOLE" /\ drive'[f] # "WHOLE" =>
                      \E r \in Completed("OFF_DEVICE"): r.run = f /\ OverAge(r)
      BY <3>2, <3>3
    <3> QED BY <3>5, <3>6, <3>7
  <2> QED BY <2>1, <2>2 DEF Retain
<1>2. Spares => [Spares]_<<disk, drive>>
  OBVIOUS
<1> HIDE DEF Spares
<1>3. RetentionSpares <=> [][Spares]_<<disk, drive>>
  BY DEF RetentionSpares, Spares
<1> QED BY <1>1, BackupsStarts, BackupsStep, <1>2, <1>3, PTL DEF BackupsSpec

-------------------------------------------------------------------------------
(* OffDevice: a destination is asked about step by step.                       *)

Refusals == {"INACCESSIBLE", "LOCAL_SHARE", "NOT_VERIFIED", "MAPPED_NETWORK_DRIVE",
             "SAME_DISK", "INTERNAL_DISK", "NOT_WRITABLE"}

\* The bytes are outside this computer, for all that could be found out.
Outside == Elsewhere \/ (site.final.at = "OWN_ALIAS" /\ ~answered)

\* What the verification knows at each question.
Known(q) ==
  CASE q = "CANONICAL_PATHS" -> answered /\ verdict = "NONE"
    [] q = "HOST" -> /\ answered /\ verdict = "NONE"
                     /\ canonical = site.final /\ site.final.kind = "SHARE"
    [] q = "DISKS" -> /\ answered /\ verdict = "NONE"
                      /\ canonical = site.final /\ site.final.kind = "DRIVE"
    [] q = "PROBE" -> verdict = "NONE" /\ canonical = site.final /\ Outside
    [] OTHER -> /\ verdict \in Refusals \cup {"NETWORK", "USB"}
                /\ AcceptedIsElsewhere

OffDeviceInv ==
  /\ site \in Site /\ Possible(site)
  /\ question \in {"CANONICAL_PATHS", "HOST", "DISKS", "PROBE", "DONE"}
  /\ Known(question)

\* A volume on one disk holds that disk and no other.
LEMMA OneDiskIs ==
  ASSUME site \in Site, NEW l \in Letters
  PROVE  OneDisk(l) <=> \E d \in Disks: site.volumes[l].disks = {d}
<1> DEFINE S == site.volumes[l].disks
<1>1. S = {} \/ (\E d \in Disks: S = {d}) \/ S = Disks
  BY DEF Site, Volume
<1>2. IsFiniteSet(S)
  BY <1>1, FS_EmptySet, FS_Singleton, OffDeviceAssumption
<1>3. Cardinality(S) = 1 <=> \E x: S = {x}
  BY <1>2, FS_Singleton
<1>4. \A x: S = {x} => x \in Disks
  BY <1>1
<1> QED
  BY <1>3, <1>4 DEF OneDisk

\* A refusal of what is not outside, or of what could not be found out.
LEMMA Refuses ==
  ASSUME OffDeviceInv, UNCHANGED <<site, canonical>>, NEW v \in Refusals, Answer(v),
         answered' => answered /\ ~(Elsewhere /\ site.writable)
  PROVE  OffDeviceInv'
<1>1. verdict' \in Refusals /\ question' = "DONE" /\ site' = site
  BY DEF Answer
<1>2. ~Accepted'
  BY <1>1 DEF Accepted, Refusals
<1>3. Elsewhere' = Elsewhere
  BY <1>1 DEF Elsewhere
<1>4. AcceptedIsElsewhere'
  BY <1>1, <1>2, <1>3 DEF AcceptedIsElsewhere
<1> QED
  BY <1>1, <1>4 DEF OffDeviceInv, Known, Possible

\* A folder that gets as far as the probe is outside, for all that is known.
LEMMA Admits ==
  ASSUME OffDeviceInv, UNCHANGED <<site, verdict>>, verdict = "NONE",
         question' = "PROBE", canonical' = site.final, Outside'
  PROVE  OffDeviceInv'
BY DEF OffDeviceInv, Known, Possible

\* Before the first question nothing is accepted.
LEMMA OffDeviceStarts == OffDeviceInit => OffDeviceInv
BY DEF OffDeviceInit, OffDeviceInv, Known

\* No answer, and none that could not be had, admits a folder that is not outside.
LEMMA OffDeviceStep ==
  ASSUME OffDeviceInv, [OffDeviceNext]_offDeviceVars
  PROVE  OffDeviceInv'
<1>1. CASE Canonicalize
  <2>1. CASE NoAnswer("INACCESSIBLE") /\ UNCHANGED canonical
    BY <1>1, <2>1, Refuses DEF Canonicalize, NoAnswer, Refusals
  <2>2. CASE canonical' = site.final /\ UNCHANGED <<answered, verdict>>
    <3>1. question' = IF site.final.kind = "SHARE" THEN "HOST" ELSE "DISKS"
      BY <1>1, <2>2 DEF Canonicalize, NoAnswer, Answer, OffDeviceInv, Known
    <3>2. site.final.kind \in {"SHARE", "DRIVE"}
      BY DEF OffDeviceInv, Site, Path
    <3>3. site' = site /\ answered /\ verdict = "NONE"
      BY <1>1 DEF Canonicalize, OffDeviceInv, Known
    <3> QED
      BY <2>2, <3>1, <3>2, <3>3 DEF OffDeviceInv, Known, Possible
  <2> QED
    BY <1>1, <2>1, <2>2 DEF Canonicalize
<1>2. CASE AskHost
  <2>1. /\ site' = site /\ canonical' = canonical /\ canonical = site.final
        /\ verdict = "NONE" /\ answered /\ site.final.kind = "SHARE"
    BY <1>2 DEF AskHost, OffDeviceInv, Known
  <2>2. site.final.at \in Hosts /\ site.final.kind # "DRIVE"
    BY <2>1 DEF OffDeviceInv, Site, Path
  <2>3. CASE Answer("LOCAL_SHARE") /\ UNCHANGED answered
    <3>1. site.final.at \notin {"OTHER_NAME", "OTHER_ADDRESS"}
      BY <1>2, <2>1, <2>2, <2>3 DEF AskHost, OwnByForm, Literal, Answer
    <3>2. ~Elsewhere
      BY <2>2, <3>1 DEF Elsewhere
    <3> QED
      BY <2>1, <2>3, <3>2, Refuses DEF Refusals
  <2>4. CASE question' = "PROBE" /\ UNCHANGED verdict
    <3>1. \/ site.final.at \in {"OTHER_NAME", "OTHER_ADDRESS"}
          \/ site.final.at = "OWN_ALIAS" /\ answered' = FALSE
      BY <1>2, <2>1, <2>2, <2>4 DEF AskHost, OwnByForm, Literal, Answer, Hosts
    <3>2. Outside'
      BY <2>1, <3>1 DEF Outside, Elsewhere
    <3> QED
      BY <2>1, <2>4, <3>2, Admits
  <2> QED
    BY <1>2, <2>3, <2>4 DEF AskHost
<1>3. CASE Inspect
  <2> DEFINE there == site.final.at
  <2>1. /\ site' = site /\ canonical' = canonical /\ canonical = site.final
        /\ verdict = "NONE" /\ answered /\ site.final.kind = "DRIVE"
    BY <1>3 DEF Inspect, OffDeviceInv, Known
  <2>2. there \in Letters /\ site.home \in Letters /\ site \in Site
    BY <2>1 DEF OffDeviceInv, Site, Path
  <2>3. PICK h \in Disks: site.volumes[site.home].disks = {h}
    BY <2>2, OneDiskIs DEF OffDeviceInv, Possible, OneDisk
  <2>4. CASE NoAnswer("NOT_VERIFIED")
    BY <2>1, <2>4, Refuses DEF NoAnswer, Refusals
  <2>5. CASE site.volumes[there].type = "NETWORK" /\ Answer("MAPPED_NETWORK_DRIVE")
             /\ UNCHANGED answered
    <3>1. site.volumes[there].disks = {}
      BY <2>2, <2>5 DEF Site, Volume
    <3>2. ~Elsewhere
      BY <2>1, <3>1 DEF Elsewhere
    <3> QED
      BY <2>1, <2>5, <3>2, Refuses DEF Refusals
  <2>6. CASE ~OneDisk(there) /\ Answer("NOT_VERIFIED") /\ UNCHANGED answered
    <3>1. ~Elsewhere
      BY <2>1, <2>2, <2>6, OneDiskIs DEF Elsewhere, Site
    <3> QED
      BY <2>1, <2>6, <3>1, Refuses DEF Refusals
  <2>7. CASE /\ OneDisk(there) /\ UNCHANGED answered
             /\ CASE DiskOf(there) = DiskOf(site.home) -> Answer("SAME_DISK")
                  [] DiskOf(there) # DiskOf(site.home) /\ DiskOf(there) \notin site.usb ->
                       Answer("INTERNAL_DISK")
                  [] OTHER -> question' = "PROBE" /\ UNCHANGED verdict
    <3>1. PICK d \in Disks: site.volumes[there].disks = {d}
      BY <2>2, <2>7, OneDiskIs
    <3>2. DiskOf(there) = d /\ DiskOf(site.home) = h
      BY <2>3, <3>1 DEF DiskOf
    <3>3. Elsewhere <=> d \in site.usb /\ d # h
      BY <2>1, <2>3, <3>1 DEF Elsewhere
    <3>4. CASE d = h \/ d \notin site.usb
      <4>1. Answer("SAME_DISK") \/ Answer("INTERNAL_DISK")
        BY <2>7, <3>2, <3>4
      <4> QED
        BY <2>1, <2>7, <3>3, <3>4, <4>1, Refuses DEF Refusals
    <3>5. CASE d # h /\ d \in site.usb
      <4>1. question' = "PROBE" /\ UNCHANGED verdict
        BY <2>7, <3>2, <3>5
      <4>2. Outside'
        BY <2>1, <3>3, <3>5 DEF Outside, Elsewhere
      <4> QED
        BY <2>1, <4>1, <4>2, Admits
    <3> QED
      BY <3>4, <3>5
  <2> QED
    BY <1>3, <2>1, <2>4, <2>5, <2>6, <2>7 DEF Inspect
<1>4. CASE Probe
  <2>1. site' = site /\ canonical' = canonical /\ canonical = site.final /\ Outside
    BY <1>4 DEF Probe, OffDeviceInv, Known
  <2>2. CASE NoAnswer("NOT_WRITABLE")
    BY <2>1, <2>2, Refuses DEF NoAnswer, Refusals
  <2>3. CASE ~site.writable /\ Answer("NOT_WRITABLE") /\ UNCHANGED answered
    BY <2>1, <2>3, Refuses DEF Refusals
  <2>4. CASE /\ site.writable /\ UNCHANGED answered
             /\ Answer(IF canonical.kind = "SHARE" THEN "NETWORK" ELSE "USB")
    <3>1. verdict' \in {"NETWORK", "USB"} /\ question' = "DONE"
      BY <2>4 DEF Answer
    <3>2. Outside' /\ Accepted' /\ site'.writable
      BY <2>1, <2>4, <3>1 DEF Outside, Elsewhere, Accepted
    <3>3. AcceptedIsElsewhere'
      BY <3>2 DEF Outside, AcceptedIsElsewhere
    <3> QED
      BY <2>1, <3>1, <3>3 DEF OffDeviceInv, Known, Possible
  <2> QED
    BY <1>4, <2>2, <2>3, <2>4 DEF Probe
<1>5. CASE UNCHANGED offDeviceVars
  BY <1>5 DEF offDeviceVars, OffDeviceInv, Known, Possible, Outside, Elsewhere,
              AcceptedIsElsewhere, Accepted
<1> QED
  BY <1>1, <1>2, <1>3, <1>4, <1>5 DEF OffDeviceNext

\* A folder is accepted only where its bytes are outside this computer, and where every
\* question was answered exactly then, for any letters, disks and junctions.
THEOREM AcceptedElsewhere == OffDeviceSpec => []AcceptedIsElsewhere
<1>1. OffDeviceInv => AcceptedIsElsewhere
  BY DEF OffDeviceInv, Known, AcceptedIsElsewhere, Accepted
<1> QED
  BY <1>1, OffDeviceStarts, OffDeviceStep, PTL DEF OffDeviceSpec

-------------------------------------------------------------------------------
(* Discovery: the files found, offered and taken.                              *)

\* A candidate, under a row that is the file's and speaks of its bytes or under none.
Offerable ==
  {c \in [file: Paths, sum: Bytes, claim: listed \cup {NoClaim}, hand: BOOLEAN]:
     c.claim # NoClaim => c.claim.file = c.file /\ c.claim.bytes = c.sum /\ ~c.hand}

\* Bytes that were not whole when they were opened were replaced by then and again since.
WholeOrTwice(c) == c.sum \in Good \/ (c.claim = NoClaim /\ changes > 1)

\* A pass looks at the files it listed when it began, each of them once.
PassOK ==
  /\ pass \in [pc: {"IDLE", "NEXT", "HASH", "OPEN", "STAT_AGAIN", "HASH_AGAIN", "MANIFEST"},
               for: {"NONE", "LIST", "BROWSE", "RESTORE", "TOKEN"}, todo: SUBSET Paths,
               file: Paths \cup {"NONE"}, before: 0..1, sum: Bytes \cup {"NONE"}]
  /\ pass.pc \notin {"IDLE", "NEXT"} => pass.file \in Paths \ pass.todo
  /\ pass.pc # "IDLE" => pass.for # "NONE"

DiscoveryTypeOK ==
  /\ shelf \in [Paths -> Artifact \cup {NoArtifact}]
  /\ listed \subseteq Claim
  /\ changes \in Nat
  /\ offered \subseteq Offerable /\ found \subseteq Offerable
  /\ wanted \in Offerable \cup {Nothing} /\ resolved \in Offerable \cup {Nothing}
  /\ PassOK

\* Rows have different numbers.
RowsApart == \A c, d \in listed: c.id = d.id => c = d

\* What the file in hand has been, by what the pass has seen of it.
Seen ==
  /\ pass.pc \notin {"IDLE", "NEXT", "HASH"} => pass.sum \in Bytes
  /\ pass.pc = "OPEN" => shelf[pass.file].bytes = pass.sum \/ changes > 0
  /\ pass.pc \in {"STAT_AGAIN", "HASH_AGAIN"} =>
       \/ pass.sum \in Good
       \/ shelf[pass.file].bytes \in Good /\ changes > 0
       \/ changes > 1
  /\ pass.pc = "MANIFEST" =>
       /\ pass.sum \in Good \/ changes > 1
       /\ pass.for \in {"LIST", "RESTORE"} =>
            ClaimOf(pass.file) = NoClaim \/ ClaimOf(pass.file).bytes = pass.sum

\* The candidates so far are of files that are done with, one of each.
OneOfEach ==
  /\ \A c \in found: c.file \notin pass.todo
  /\ pass.pc \notin {"IDLE", "NEXT"} => \A c \in found: c.file # pass.file
  /\ \A c, d \in found: c.file = d.file => c = d

Whole == \A c \in offered \cup found \cup ({resolved} \ {Nothing}): WholeOrTwice(c)

\* A restore goes after a candidate that was offered, a token after one by hand.
Asked ==
  /\ pass.for = "RESTORE" => wanted \in Offerable
  /\ pass.for = "TOKEN" => wanted \in Offerable /\ wanted.hand

DiscoveryInv ==
  /\ DiscoveryTypeOK /\ RowsApart /\ Seen /\ OneOfEach /\ Whole /\ Asked
  /\ TakesWhatWasChosen

-------------------------------------------------------------------------------
(* The rows of a file.                                                         *)

\* The row chosen for a file is one of its rows, or there is none.
LEMMA ChosenRow ==
  ASSUME listed \subseteq Claim, NEW f \in Paths
  PROVE  (ClaimOf(f) = NoClaim /\ Claims(f) = {}) \/ ClaimOf(f) \in Claims(f)
<1>1. CASE Claims(f) = {}
  BY <1>1 DEF ClaimOf
<1>2. CASE Claims(f) # {}
  <2>1. Claims(f) \subseteq Claim
    BY DEF Claims
  <2>2. \A c \in Claims(f): c.id \in {1, 2}
    BY <2>1 DEF Claim
  <2>3. \E c \in Claims(f): \A d \in Claims(f): d.id <= c.id
    <3>1. CASE \E c \in Claims(f): c.id = 2
      BY <2>2, <3>1
    <3>2. CASE \A c \in Claims(f): c.id # 2
      BY <1>2, <2>2, <3>2
    <3> QED
      BY <3>1, <3>2
  <2> QED
    BY <1>2, <2>3 DEF ClaimOf
<1> QED
  BY <1>1, <1>2

\* No row has the number that stands for none.
LEMMA NoRow == NoClaim \notin Claim
BY DEF NoClaim, Claim

\* Nothing is no candidate.
LEMMA NothingOffered == Nothing \notin Offerable
BY DEF Nothing, Candidate, Offerable, Bytes, Good

\* Two candidates with one id are of one row, of one token, or of the same file and bytes.
LEMMA SameId ==
  ASSUME RowsApart, listed \subseteq Claim, NEW c \in Offerable, NEW d \in Offerable,
         Id(c) = Id(d), ~d.hand
  PROVE  c.sum = d.sum /\ c.file = d.file
<1>1. CASE c.claim # NoClaim /\ d.claim # NoClaim
  <2>1. Id(c).row = c.claim.id /\ Id(d).row = d.claim.id
    BY <1>1 DEF Id
  <2>2. c.claim \in listed /\ d.claim \in listed
    BY <1>1 DEF Offerable
  <2>3. c.claim = d.claim
    BY <2>1, <2>2 DEF RowsApart
  <2> QED
    BY <1>1, <2>3 DEF Offerable
<1>2. CASE c.claim = NoClaim /\ ~c.hand /\ d.claim = NoClaim
  BY <1>2 DEF Id
<1>3. CASE c.claim # NoClaim /\ d.claim = NoClaim
  <2>1. DOMAIN Id(c) = {"row"} /\ DOMAIN Id(d) = {"path", "sum"}
    BY <1>3 DEF Id
  <2> QED
    BY <2>1
<1>4. CASE c.claim = NoClaim /\ d.claim # NoClaim
  <2>1. DOMAIN Id(d) = {"row"} /\ DOMAIN Id(c) \in {{"path", "sum"}, {"token"}}
    BY <1>4 DEF Id
  <2> QED
    BY <2>1
<1>5. CASE c.claim = NoClaim /\ c.hand /\ d.claim = NoClaim
  <2>1. DOMAIN Id(c) = {"token"} /\ DOMAIN Id(d) = {"path", "sum"}
    BY <1>5 DEF Id
  <2> QED
    BY <2>1
<1> QED
  BY <1>1, <1>2, <1>3, <1>4, <1>5

-------------------------------------------------------------------------------
(* A pass.                                                                     *)

\* A step of the verification that leaves the candidates alone.
LEMMA VerifyingKeeps ==
  ASSUME DiscoveryInv, Verifying, UNCHANGED found, PassOK', Seen', OneOfEach',
         pass'.for = pass.for
  PROVE  DiscoveryInv'
<1>1. DiscoveryTypeOK' /\ RowsApart'
  BY DEF DiscoveryInv, DiscoveryTypeOK, Verifying, RowsApart, Offerable
<1>2. Whole' /\ Asked' /\ TakesWhatWasChosen'
  BY DEF DiscoveryInv, Verifying, Whole, WholeOrTwice, Asked, TakesWhatWasChosen, Offerable
<1> QED
  BY <1>1, <1>2 DEF DiscoveryInv

\* Giving a file up keeps the invariant.
LEMMA GivingUp ==
  ASSUME DiscoveryInv, Verifying, UNCHANGED found, pass.pc \notin {"IDLE", "NEXT"}, NextFile
  PROVE  DiscoveryInv'
<1>1. pass' = [pc |-> "NEXT", for |-> pass.for, todo |-> pass.todo, file |-> "NONE",
               before |-> 0, sum |-> "NONE"]
  BY DEF NextFile, NoPass
<1>2. PassOK'
  BY <1>1 DEF DiscoveryInv, DiscoveryTypeOK, PassOK
<1>3. Seen' /\ OneOfEach'
  BY <1>1 DEF DiscoveryInv, Seen, OneOfEach
<1> QED
  BY <1>1, <1>2, <1>3, VerifyingKeeps

\* The end of a pass leaves nothing in hand.
LEMMA NothingGoesOn ==
  ASSUME DiscoveryInv, pass' = NoPass, found' = {},
         UNCHANGED <<shelf, listed, changes>>,
         offered' \subseteq Offerable, wanted' \in Offerable \cup {Nothing},
         resolved' \in Offerable \cup {Nothing},
         \A c \in offered' \cup ({resolved'} \ {Nothing}): WholeOrTwice(c),
         TakesWhatWasChosen'
  PROVE  DiscoveryInv'
<1>1. DiscoveryTypeOK' /\ RowsApart'
  BY DEF DiscoveryInv, DiscoveryTypeOK, RowsApart, Offerable, PassOK, NoPass
<1>2. Seen' /\ OneOfEach' /\ Asked'
  BY DEF Seen, OneOfEach, Asked, NoPass
<1>3. Whole'
  BY DEF Whole, WholeOrTwice
<1> QED
  BY <1>1, <1>2, <1>3 DEF DiscoveryInv

\* A pass begins with nothing found and nothing taken.
LEMMA Begins ==
  ASSUME DiscoveryInv, NEW for \in {"LIST", "BROWSE", "RESTORE"}, NEW todo \in SUBSET Paths,
         Start(for, todo), wanted' \in Offerable \cup {Nothing},
         for = "RESTORE" => wanted' \in Offerable
  PROVE  DiscoveryInv'
<1>1. /\ pass' = [pc |-> "NEXT", for |-> for, todo |-> todo, file |-> "NONE",
                  before |-> 0, sum |-> "NONE"]
      /\ found' = {} /\ resolved' = Nothing
      /\ UNCHANGED <<shelf, listed, tokens, offered, changes>>
  BY DEF Start, NoPass
<1>2. PassOK'
  BY <1>1 DEF PassOK
<1>3. DiscoveryTypeOK' /\ RowsApart'
  BY <1>1, <1>2 DEF DiscoveryInv, DiscoveryTypeOK, RowsApart, Offerable
<1>4. Seen' /\ OneOfEach' /\ Asked' /\ TakesWhatWasChosen'
  BY <1>1 DEF Seen, OneOfEach, Asked, TakesWhatWasChosen, Offerable
<1>5. Whole'
  BY <1>1 DEF DiscoveryInv, Whole, WholeOrTwice
<1> QED
  BY <1>3, <1>4, <1>5 DEF DiscoveryInv

\* One step per await of the verification.
LEMMA VerificationStep ==
  ASSUME DiscoveryInv,
         (\E f \in Paths: Stat(f)) \/ Hash \/ OpenReadOnly \/ StatAgain \/ HashAgain
  PROVE  DiscoveryInv'
<1>1. ASSUME NEW f \in Paths, Stat(f) PROVE DiscoveryInv'
  <2>1. f \in pass.todo /\ pass.pc = "NEXT" /\ UNCHANGED found /\ Verifying
    BY <1>1 DEF Stat
  <2>2. /\ pass'.for = pass.for /\ pass'.todo = pass.todo \ {f} /\ pass'.sum = pass.sum
        /\ pass'.pc \in {"NEXT", "HASH"} /\ (pass'.pc = "HASH" => pass'.file = f)
        /\ PassOK'
    BY <1>1 DEF Stat, There, DiscoveryInv, DiscoveryTypeOK, PassOK, Artifact
  <2>3. Seen' /\ OneOfEach'
    BY <2>1, <2>2 DEF DiscoveryInv, Seen, OneOfEach
  <2> QED
    BY <2>1, <2>2, <2>3, VerifyingKeeps
<1>2. CASE Hash
  <2>1. CASE NextFile
    BY <1>2, <2>1, GivingUp DEF Hash
  <2>2. CASE There(pass.file) /\ pass' = [pass EXCEPT !.pc = "OPEN",
                                                     !.sum = shelf[pass.file].bytes]
    <3>1. pass.file \in Paths \ pass.todo /\ shelf[pass.file] \in Artifact
      BY <1>2, <2>2 DEF Hash, There, DiscoveryInv, DiscoveryTypeOK, PassOK
    <3>2. /\ PassOK' /\ pass'.for = pass.for /\ pass'.todo = pass.todo
          /\ pass'.file = pass.file /\ pass'.pc = "OPEN"
          /\ pass'.sum = shelf[pass.file].bytes /\ pass'.sum \in Bytes
      BY <1>2, <2>2, <3>1 DEF Hash, DiscoveryInv, DiscoveryTypeOK, PassOK, Artifact
    <3>3. Seen' /\ OneOfEach'
      BY <1>2, <3>2 DEF DiscoveryInv, Seen, OneOfEach, Hash, Verifying
    <3> QED
      BY <1>2, <3>2, <3>3, VerifyingKeeps DEF Hash
  <2> QED
    BY <1>2, <2>1, <2>2 DEF Hash
<1>3. CASE OpenReadOnly
  <2>1. CASE NextFile
    BY <1>3, <2>1, GivingUp DEF OpenReadOnly
  <2>2. CASE shelf[pass.file].bytes \in Good /\ Proceed("STAT_AGAIN")
    <3>1. /\ PassOK' /\ pass'.for = pass.for /\ pass'.todo = pass.todo /\ pass'.sum = pass.sum
          /\ pass'.file = pass.file /\ pass'.pc = "STAT_AGAIN" /\ pass.pc = "OPEN"
      BY <1>3, <2>2 DEF OpenReadOnly, Proceed, DiscoveryInv, DiscoveryTypeOK, PassOK
    <3>2. Seen' /\ OneOfEach'
      BY <1>3, <2>2, <3>1 DEF DiscoveryInv, Seen, OneOfEach, OpenReadOnly, Verifying
    <3> QED
      BY <1>3, <3>1, <3>2, VerifyingKeeps DEF OpenReadOnly
  <2> QED
    BY <1>3, <2>1, <2>2 DEF OpenReadOnly
<1>4. CASE StatAgain
  <2>1. CASE NextFile
    BY <1>4, <2>1, GivingUp DEF StatAgain
  <2>2. CASE Proceed("HASH_AGAIN")
    <3>1. /\ PassOK' /\ pass'.for = pass.for /\ pass'.todo = pass.todo /\ pass'.sum = pass.sum
          /\ pass'.file = pass.file /\ pass'.pc = "HASH_AGAIN" /\ pass.pc = "STAT_AGAIN"
      BY <1>4, <2>2 DEF StatAgain, Proceed, DiscoveryInv, DiscoveryTypeOK, PassOK
    <3>2. Seen' /\ OneOfEach'
      BY <1>4, <3>1 DEF DiscoveryInv, Seen, OneOfEach, StatAgain, Verifying
    <3> QED
      BY <1>4, <3>1, <3>2, VerifyingKeeps DEF StatAgain
  <2> QED
    BY <1>4, <2>1, <2>2 DEF StatAgain
<1>5. CASE HashAgain
  <2>1. CASE NextFile
    BY <1>5, <2>1, GivingUp DEF HashAgain
  <2>2. CASE /\ Proceed("MANIFEST") /\ shelf[pass.file].bytes = pass.sum
             /\ pass.for \in {"LIST", "RESTORE"} =>
                  ClaimOf(pass.file) = NoClaim \/ ClaimOf(pass.file).bytes = pass.sum
    <3>1. /\ PassOK' /\ pass'.for = pass.for /\ pass'.todo = pass.todo /\ pass'.sum = pass.sum
          /\ pass'.file = pass.file /\ pass'.pc = "MANIFEST" /\ pass.pc = "HASH_AGAIN"
      BY <1>5, <2>2 DEF HashAgain, Proceed, DiscoveryInv, DiscoveryTypeOK, PassOK
    <3>2. shelf' = shelf /\ listed' = listed /\ changes' = changes
      BY <1>5 DEF HashAgain, Verifying
    <3>3. ClaimOf(pass.file)' = ClaimOf(pass.file)
      BY <3>1, <3>2 DEF ClaimOf, Claims
    <3>4. pass.sum \in Good \/ changes > 1
      BY <2>2, <3>1 DEF DiscoveryInv, Seen
    <3>5. Seen' /\ OneOfEach'
      BY <1>5, <2>2, <3>1, <3>2, <3>3, <3>4 DEF DiscoveryInv, Seen, OneOfEach, HashAgain
    <3> QED
      BY <1>5, <3>1, <3>5, VerifyingKeeps DEF HashAgain
  <2> QED
    BY <1>5, <2>1, <2>2 DEF HashAgain
<1> QED
  BY <1>1, <1>2, <1>3, <1>4, <1>5

\* What is read at the end of a verification is whole and of the file's row.
LEMMA ManifestStep ==
  ASSUME DiscoveryInv, ReadManifest
  PROVE  DiscoveryInv'
<1> DEFINE f == pass.file
           hand == pass.for \in {"BROWSE", "TOKEN"}
           new == Candidate(f, pass.sum, IF hand THEN NoClaim ELSE ClaimOf(f), hand)
<1>1. /\ f \in Paths \ pass.todo /\ pass.pc = "MANIFEST" /\ Verifying
      /\ pass.sum \in Bytes /\ pass.for \in {"LIST", "RESTORE", "BROWSE", "TOKEN"}
      /\ pass' = [pc |-> "NEXT", for |-> pass.for, todo |-> pass.todo, file |-> "NONE",
                  before |-> 0, sum |-> "NONE"]
  BY DEF ReadManifest, DiscoveryInv, DiscoveryTypeOK, PassOK, Seen, NextFile, NoPass
<1>2. found' = found \/ found' = found \cup {new}
  BY DEF ReadManifest
<1>3. ClaimOf(f) = NoClaim \/ (ClaimOf(f) \in listed /\ ClaimOf(f).file = f)
  BY <1>1, ChosenRow DEF Claims, DiscoveryInv, DiscoveryTypeOK
<1>4. ~hand => ClaimOf(f) = NoClaim \/ ClaimOf(f).bytes = pass.sum
  BY <1>1 DEF DiscoveryInv, Seen
<1>5. pass.sum \in Good \/ changes > 1
  BY <1>1 DEF DiscoveryInv, Seen
<1>6. listed \subseteq Claim
  BY DEF DiscoveryInv, DiscoveryTypeOK
<1>7. new.claim # NoClaim => ~hand /\ new.claim \in listed /\ new.claim.bytes = pass.sum
                             /\ new.claim.file = f
  BY <1>3, <1>4 DEF Candidate
<1>8. new \in Offerable /\ new.file = f /\ new.sum = pass.sum
  <2>1. PICK k \in listed \cup {NoClaim}: k = new.claim
    BY <1>7
  <2>2. PICK h \in BOOLEAN: h = hand
    <3>1. CASE hand
      <4>1. TRUE = hand
        BY <3>1
      <4> QED
        BY <4>1
    <3>2. CASE ~hand
      <4>1. FALSE = hand
        BY <3>2
      <4> QED
        BY <4>1
    <3> QED
      BY <3>1, <3>2
  <2>3. new = [file |-> f, sum |-> pass.sum, claim |-> k, hand |-> h]
    BY <2>1, <2>2 DEF Candidate
  <2> HIDE DEF new, hand
  <2>4. new \in [file: Paths, sum: Bytes, claim: listed \cup {NoClaim}, hand: BOOLEAN]
    BY <1>1, <2>3
  <2> QED
    BY <1>7, <2>2, <2>3, <2>4 DEF Offerable
<1>9. WholeOrTwice(new)
  <2>1. CASE new.claim = NoClaim
    BY <1>5, <1>8, <2>1 DEF WholeOrTwice
  <2>2. CASE new.claim # NoClaim
    BY <1>6, <1>7, <1>8, <2>2 DEF WholeOrTwice, Claim
  <2> QED
    BY <2>1, <2>2
<1> HIDE DEF new
<1>10. /\ UNCHANGED <<shelf, listed, tokens, offered, wanted, resolved, passes, changes>>
  BY <1>1 DEF Verifying
<1>11. PassOK'
  BY <1>1 DEF DiscoveryInv, DiscoveryTypeOK, PassOK
<1>12. DiscoveryTypeOK' /\ RowsApart'
  BY <1>2, <1>8, <1>10, <1>11 DEF DiscoveryInv, DiscoveryTypeOK, RowsApart, Offerable
<1>13. Seen'
  BY <1>1 DEF Seen
<1>14. OneOfEach'
  BY <1>1, <1>2, <1>8 DEF DiscoveryInv, OneOfEach
<1>15. Whole'
  BY <1>2, <1>9, <1>10 DEF DiscoveryInv, Whole, WholeOrTwice
<1>16. Asked' /\ TakesWhatWasChosen'
  BY <1>1, <1>10 DEF DiscoveryInv, Asked, TakesWhatWasChosen, Offerable
<1> QED
  BY <1>12, <1>13, <1>14, <1>15, <1>16 DEF DiscoveryInv

\* The end of a pass offers, or takes, what was found.
LEMMA EndStep ==
  ASSUME DiscoveryInv, Offer \/ Resolve \/ ResolveToken \/ ResolveBrowsed
  PROVE  DiscoveryInv'
<1> USE DEF DiscoveryInv, DiscoveryTypeOK
<1>1. \A c \in offered \cup found \cup ({resolved} \ {Nothing}): WholeOrTwice(c)
  BY DEF Whole
<1>2. CASE Offer
  <2>1. offered' \subseteq offered \cup found
    BY <1>2 DEF Offer
  <2>2. resolved' = resolved /\ wanted' = wanted /\ TakesWhatWasChosen'
    BY <1>2 DEF Offer, TakesWhatWasChosen
  <2>3. offered' \subseteq Offerable
    BY <2>1
  <2>4. \A c \in offered' \cup ({resolved'} \ {Nothing}): WholeOrTwice(c)
    BY <1>1, <2>1, <2>2
  <2> QED
    BY <1>2, <2>2, <2>3, <2>4, NothingGoesOn DEF Offer
<1>3. CASE Resolve
  <2>1. PICK c \in found: Id(c) = Id(wanted) /\ resolved' = c
    BY <1>3 DEF Resolve
  <2>2. wanted' = wanted /\ offered' = offered /\ wanted \in Offerable /\ c \in Offerable
    BY <1>3 DEF Resolve, Asked
  <2>3. ~wanted.hand => c.sum = wanted.sum /\ c.file = wanted.file
    BY <2>1, <2>2, SameId
  <2>4. TakesWhatWasChosen'
    BY <2>1, <2>2, <2>3 DEF TakesWhatWasChosen
  <2> QED
    BY <1>1, <1>3, <2>1, <2>2, <2>4, NothingGoesOn DEF Resolve
<1>4. CASE ResolveToken
  <2>1. /\ found' = {} /\ resolved' = resolved /\ wanted' = wanted /\ offered' = offered
        /\ UNCHANGED <<shelf, listed, changes>> /\ TakesWhatWasChosen'
    BY <1>4 DEF ResolveToken, TakesWhatWasChosen
  <2>2. CASE pass' = NoPass
    BY <1>1, <2>1, <2>2, NothingGoesOn
  <2>3. CASE /\ wanted.hand
             /\ pass' = [NoPass EXCEPT !.pc = "NEXT", !.for = "TOKEN", !.todo = {wanted.file}]
    <3>1. wanted \in Offerable
      BY <1>4 DEF ResolveToken, Asked
    <3>2. pass' = [pc |-> "NEXT", for |-> "TOKEN", todo |-> {wanted.file}, file |-> "NONE",
                   before |-> 0, sum |-> "NONE"]
      BY <2>3 DEF NoPass
    <3>3. {wanted.file} \in SUBSET Paths
      BY <3>1 DEF Offerable
    <3>4. PassOK'
      BY <3>2, <3>3 DEF PassOK
    <3>5. DiscoveryTypeOK' /\ RowsApart'
      BY <2>1, <3>4 DEF RowsApart, Offerable
    <3>6. Seen' /\ OneOfEach'
      BY <2>1, <3>2 DEF Seen, OneOfEach
    <3>7. Asked'
      BY <2>1, <2>3, <3>1, <3>2 DEF Asked, Offerable
    <3>8. Whole'
      BY <2>1 DEF Whole, WholeOrTwice
    <3> QED
      BY <2>1, <3>5, <3>6, <3>7, <3>8
  <2> QED
    BY <1>4, <2>2, <2>3 DEF ResolveToken
<1>5. CASE ResolveBrowsed
  <2>1. resolved' \in found \cup {Nothing}
    BY <1>5 DEF ResolveBrowsed
  <2>2. wanted' = wanted /\ offered' = offered /\ wanted.hand
    BY <1>5 DEF ResolveBrowsed, Asked
  <2>3. TakesWhatWasChosen'
    BY <2>2 DEF TakesWhatWasChosen
  <2> QED
    BY <1>1, <1>5, <2>1, <2>2, <2>3, NothingGoesOn DEF ResolveBrowsed
<1> QED
  BY <1>2, <1>3, <1>4, <1>5

\* A file replaced or removed under a pass counts against what the pass has seen.
LEMMA ChangeStep ==
  ASSUME DiscoveryInv, NEW g \in Paths, Change(g)
  PROVE  DiscoveryInv'
<1>1. /\ changes' = changes + 1 /\ changes \in Nat
      /\ UNCHANGED <<listed, tokens, offered, wanted, pass, found, resolved, passes>>
  BY DEF Change, DiscoveryInv, DiscoveryTypeOK
<1>2. shelf \in [Paths -> Artifact \cup {NoArtifact}] /\ shelf[g] \in Artifact
  BY DEF Change, There, DiscoveryInv, DiscoveryTypeOK
<1>3. /\ shelf' \in [Paths -> Artifact \cup {NoArtifact}]
      /\ \A f \in Paths: shelf'[f] = NoArtifact \/ shelf'[f].root = shelf[f].root
  <2>1. CASE shelf' = [shelf EXCEPT ![g] = NoArtifact]
    BY <1>2, <2>1
  <2>2. CASE \E bytes \in Bytes \ {shelf[g].bytes}, stamp \in 0..1:
               shelf' = [shelf EXCEPT ![g].bytes = bytes, ![g].stamp = stamp]
    <3>1. PICK bytes \in Bytes, stamp \in 0..1:
            shelf' = [shelf EXCEPT ![g] = [shelf[g] EXCEPT !.bytes = bytes, !.stamp = stamp]]
      BY <2>2
    <3>2. [shelf[g] EXCEPT !.bytes = bytes, !.stamp = stamp] \in Artifact
      BY <1>2 DEF Artifact
    <3>3. [shelf[g] EXCEPT !.bytes = bytes, !.stamp = stamp].root = shelf[g].root
      BY <1>2 DEF Artifact
    <3> QED
      BY <1>2, <3>1, <3>2, <3>3
  <2> QED
    BY <2>1, <2>2 DEF Change
<1>4. DiscoveryTypeOK' /\ RowsApart'
  BY <1>1, <1>3 DEF DiscoveryInv, DiscoveryTypeOK, RowsApart, Offerable, PassOK
<1>5. \A f \in Paths: ClaimOf(f)' = NoClaim \/ ClaimOf(f)' = ClaimOf(f)
  <2> TAKE f \in Paths
  <2>1. CASE shelf'[f] = NoArtifact
    <3>1. \A c \in listed: c.root # "OUTSIDE"
      BY DEF DiscoveryInv, DiscoveryTypeOK, Claim, Managed
    <3>2. Claims(f)' = {}
      BY <1>1, <2>1, <3>1 DEF Claims, NoArtifact
    <3> QED
      BY <3>2 DEF ClaimOf
  <2>2. CASE shelf'[f].root = shelf[f].root
    <3>1. Claims(f)' = Claims(f)
      BY <1>1, <2>2 DEF Claims
    <3> QED
      BY <3>1 DEF ClaimOf
  <2> QED
    BY <1>3, <2>1, <2>2
<1>6. Seen'
  <2>1. changes' > 0 /\ (changes > 0 => changes' > 1)
    BY <1>1
  <2>2. pass.pc = "MANIFEST" => pass.file \in Paths
    BY DEF DiscoveryInv, DiscoveryTypeOK, PassOK
  <2>3. pass.pc = "MANIFEST" /\ pass.for \in {"LIST", "RESTORE"} =>
          ClaimOf(pass.file)' = NoClaim \/ ClaimOf(pass.file)'.bytes = pass.sum
    <3> HAVE pass.pc = "MANIFEST" /\ pass.for \in {"LIST", "RESTORE"}
    <3>1. ClaimOf(pass.file) = NoClaim \/ ClaimOf(pass.file).bytes = pass.sum
      BY DEF DiscoveryInv, Seen
    <3>2. pass' = pass
      BY <1>1
    <3> QED
      BY <1>5, <2>2, <3>1, <3>2
  <2>4. pass.pc = "MANIFEST" => pass.sum \in Good \/ changes' > 1
    BY <1>1 DEF DiscoveryInv, Seen
  <2>5. pass.pc \in {"STAT_AGAIN", "HASH_AGAIN"} => pass.sum \in Good \/ changes' > 1
    BY <1>1 DEF DiscoveryInv, Seen
  <2>6. pass' = pass
    BY <1>1
  <2>7. pass.pc \notin {"IDLE", "NEXT", "HASH"} => pass.sum \in Bytes
    BY DEF DiscoveryInv, Seen
  <2> QED
    BY <2>1, <2>3, <2>4, <2>5, <2>6, <2>7 DEF Seen
<1>7. OneOfEach' /\ Asked' /\ TakesWhatWasChosen'
  BY <1>1 DEF DiscoveryInv, OneOfEach, Asked, TakesWhatWasChosen, Offerable
<1>8. Whole'
  BY <1>1 DEF DiscoveryInv, Whole, WholeOrTwice
<1> QED
  BY <1>4, <1>6, <1>7, <1>8 DEF DiscoveryInv

\* Every step keeps the invariant.
LEMMA DiscoveryStep ==
  ASSUME DiscoveryInv, [DiscoveryNext]_discoveryVars
  PROVE  DiscoveryInv'
<1>1. Physical \in SUBSET Paths /\ Nothing \in Offerable \cup {Nothing}
  BY DEF Physical
<1>2. CASE ListCandidates
  BY <1>1, <1>2, Begins DEF ListCandidates
<1>3. ASSUME NEW f \in Paths, Browse(f) PROVE DiscoveryInv'
  <2>1. {f} \in SUBSET Paths
    OBVIOUS
  <2> QED
    BY <1>1, <1>3, <2>1, Begins DEF Browse
<1>4. ASSUME NEW c \in offered, Ask(c) PROVE DiscoveryInv'
  <2>1. c \in Offerable
    BY DEF DiscoveryInv, DiscoveryTypeOK
  <2>2. wanted' \in Offerable /\ Start("RESTORE", Physical)
    BY <1>4, <2>1, <1>4 DEF Ask, Start, Offerable
  <2> QED
    BY <1>1, <2>2, Begins
<1>5. CASE Expire
  <2>1. UNCHANGED <<shelf, listed, offered, wanted, pass, found, resolved, passes, changes>>
    BY <1>5 DEF Expire
  <2> QED
    BY <2>1 DEF DiscoveryInv, DiscoveryTypeOK, PassOK, RowsApart, Seen, OneOfEach, Whole,
                WholeOrTwice, Asked, TakesWhatWasChosen, Offerable, ClaimOf, Claims
<1>6. CASE UNCHANGED discoveryVars
  BY <1>6 DEF discoveryVars, DiscoveryInv, DiscoveryTypeOK, PassOK, RowsApart, Seen,
              OneOfEach, Whole, WholeOrTwice, Asked, TakesWhatWasChosen, Offerable,
              ClaimOf, Claims
<1> QED
  BY <1>2, <1>3, <1>4, <1>5, <1>6, VerificationStep, ManifestStep, EndStep, ChangeStep
     DEF DiscoveryNext

\* What the station has when it starts: nothing offered, and rows of different numbers.
LEMMA DiscoveryStarts == DiscoveryInit => DiscoveryInv
<1> SUFFICES ASSUME DiscoveryInit PROVE DiscoveryInv
  OBVIOUS
<1>1. /\ tokens = {} /\ offered = {} /\ wanted = Nothing /\ pass = NoPass /\ found = {}
      /\ resolved = Nothing /\ changes = 0
  BY DEF DiscoveryInit
<1>2. listed \subseteq Claim /\ RowsApart
  <2>1. CASE listed = {}
    BY <2>1 DEF RowsApart
  <2>2. CASE \E c \in Claim: listed = {c}
    BY <2>2 DEF RowsApart
  <2>3. CASE \E p \in Claim \X Claim: p[1].id < p[2].id /\ listed = {p[1], p[2]}
    <3>1. PICK p \in Claim \X Claim: p[1].id < p[2].id /\ listed = {p[1], p[2]}
      BY <2>3
    <3>2. p[1] \in Claim /\ p[2] \in Claim /\ p[1].id # p[2].id
      <4>1. p[1] \in Claim /\ p[2] \in Claim
        BY <3>1
      <4>2. p[1].id \in 1..2 /\ p[2].id \in 1..2
        BY <4>1 DEF Claim
      <4> QED
        BY <3>1, <4>1, <4>2
    <3> QED
      BY <3>1, <3>2 DEF RowsApart
  <2> QED
    BY <2>1, <2>2, <2>3 DEF DiscoveryInit
<1>3. shelf \in [Paths -> Artifact \cup {NoArtifact}]
  BY DEF DiscoveryInit
<1>4. PassOK
  BY <1>1 DEF PassOK, NoPass
<1>5. DiscoveryTypeOK
  BY <1>1, <1>2, <1>3, <1>4 DEF DiscoveryTypeOK
<1>6. Seen /\ OneOfEach /\ Whole /\ Asked /\ TakesWhatWasChosen
  BY <1>1 DEF Seen, OneOfEach, Whole, Asked, TakesWhatWasChosen, NoPass
<1> QED
  BY <1>2, <1>5, <1>6 DEF DiscoveryInv

\* Whatever is offered is whole, for any files, passes and replacements; one that was
\* replaced twice under its time stamp while it was verified has no row.
THEOREM OffersWhole == DiscoverySpec => []OffersAreWhole
<1>1. DiscoveryInv => OffersAreWhole
  <2> SUFFICES ASSUME DiscoveryInv,
                      NEW c \in offered \cup found \cup ({resolved} \ {Nothing})
               PROVE  /\ c.sum \in Good \/ (c.claim = NoClaim /\ changes > 1)
                      /\ c.claim # NoClaim => c.claim.bytes = c.sum
                      /\ \A d \in found: c \in found /\ c.file = d.file => c = d
    BY DEF OffersAreWhole
  <2>1. c \in Offerable
    BY DEF DiscoveryInv, DiscoveryTypeOK
  <2>2. WholeOrTwice(c)
    BY DEF DiscoveryInv, Whole
  <2>3. c \in found => \A d \in found: c.file = d.file => c = d
    BY DEF DiscoveryInv, OneOfEach
  <2> QED
    BY <2>1, <2>2, <2>3 DEF Offerable, WholeOrTwice
<1> QED
  BY <1>1, DiscoveryStarts, DiscoveryStep, PTL DEF DiscoverySpec

\* A restore of a backup the owner chose from the list takes that file with those bytes,
\* whatever was replaced, removed or listed anew since.
THEOREM TakesChosen == DiscoverySpec => []TakesWhatWasChosen
<1>1. DiscoveryInv => TakesWhatWasChosen
  BY DEF DiscoveryInv
<1> QED
  BY <1>1, DiscoveryStarts, DiscoveryStep, PTL DEF DiscoverySpec
===============================================================================
