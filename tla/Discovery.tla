------------------------------- MODULE Discovery ------------------------------
(* Which backups are offered for a restore, and which one a restore takes      *)
(* (src/main/backup/backupDiscovery.ts, browseCandidate.ts, backupManifest.ts, *)
(* restoreCandidate.ts).                                                       *)
(*                                                                             *)
(* A pass verifies the files it found one after the other, one action per      *)
(* await; meanwhile a file may be replaced, even under its old time stamp, or  *)
(* removed.  The size, the schema version and the checksum of a file are one   *)
(* thing here, its bytes.                                                      *)
EXTENDS Integers, FiniteSets

CONSTANTS
  Paths,      \* of files
  MaxPasses,  \* bound on the passes
  MaxChanges  \* bound on the files replaced or removed

VARIABLES
  shelf,    \* what is at each path
  listed,   \* backup_records: the COMPLETED rows
  tokens,   \* the files chosen by hand whose token still holds
  offered,    \* the candidates the owner sees
  wanted,   \* the candidate whose restore was asked for
  pass,     \* the pass under way
  found,    \* its candidates so far
  resolved, \* what the restore takes
  passes,   \* see MaxPasses
  changes   \* see MaxChanges

discoveryVars == <<shelf, listed, tokens, offered, wanted, pass, found, resolved, passes,
                   changes>>

\* Two whole databases of this schema, and what is not: damaged, or of another.
Good == {"A", "B"}
Bytes == Good \cup {"UNFIT"}
Managed == {"LOCAL_DISK", "OFF_DEVICE"}

\* root: the managed directory the real path lies in; named: whether its name is
\* that of a finished backup; sidecar: no manifest, none that is valid, or the
\* bytes a valid one claims.
Artifact == [root: Managed \cup {"OUTSIDE"}, named: BOOLEAN, bytes: Bytes, stamp: 0..1,
             sidecar: {"MISSING", "INVALID"} \cup Good]
NoArtifact == [root |-> "OUTSIDE", named |-> FALSE, bytes |-> "GONE", stamp |-> 0,
               sidecar |-> "MISSING"]

\* The row of a backup: id 0 is no row.
Claim == [id: 1..2, file: Paths, root: Managed, bytes: Good]
NoClaim == [id |-> 0]

Candidate(file, sum, claim, hand) ==
  [file |-> file, sum |-> sum, claim |-> claim, hand |-> hand]
Nothing == Candidate("NONE", "NONE", NoClaim, FALSE)

NoPass == [pc |-> "IDLE", for |-> "NONE", todo |-> {}, file |-> "NONE",
           before |-> 0, sum |-> "NONE"]

There(f) == shelf[f] # NoArtifact

\* The rows of the pass whose real path lies in the managed directory they claim.
Claims(f) == {c \in listed: c.file = f /\ c.root = shelf[f].root}

\* chooseCatalogRecord: the newest.
ClaimOf(f) ==
  IF Claims(f) = {} THEN NoClaim
  ELSE CHOOSE c \in Claims(f): \A d \in Claims(f): d.id <= c.id

\* Mutated: the id of a file without a row is its path.
IdOfPath(c) == IF c.claim # NoClaim THEN [row |-> c.claim.id]
               ELSE IF c.hand THEN [token |-> c.file]
               ELSE [path |-> c.file]

\* The id the owner's screen sends back: the row's, a token, or one made of the
\* path and the checksum (opaquePhysicalCandidateId).
Id(c) == IF c.claim # NoClaim THEN [row |-> c.claim.id]
         ELSE IF c.hand THEN [token |-> c.file]
         ELSE [path |-> c.file, sum |-> c.sum]

-------------------------------------------------------------------------------
(* Starting a pass.                                                            *)

Idling == pass = NoPass

Physical ==
  {f \in Paths: /\ There(f)
                /\ \/ Claims(f) # {}
                   \/ shelf[f].named /\ shelf[f].root \in Managed}

Start(for, todo) ==
  /\ Idling /\ passes < MaxPasses
  /\ passes' = passes + 1
  /\ pass' = [NoPass EXCEPT !.pc = "NEXT", !.for = for, !.todo = todo]
  /\ found' = {}
  /\ resolved' = Nothing
  /\ UNCHANGED <<shelf, listed, tokens, offered, changes>>

ListCandidates == Start("LIST", Physical) /\ wanted' = Nothing

\* A file picked in the native dialog, wherever it is.
Browse(f) == Start("BROWSE", {f}) /\ wanted' = Nothing

\* resolveAndRevalidateCandidate: everything is discovered again.
Ask(c) == Start("RESTORE", Physical) /\ wanted' = c

-------------------------------------------------------------------------------
(* verifyBackupCandidate, between its awaits.                                  *)

Proceed(pc) == pass' = [pass EXCEPT !.pc = pc]
NextFile == pass' = [NoPass EXCEPT !.pc = "NEXT", !.for = pass.for, !.todo = pass.todo]
Verifying == UNCHANGED <<shelf, listed, tokens, offered, wanted, resolved, passes, changes>>

Stat(f) ==
  /\ pass.pc = "NEXT" /\ f \in pass.todo
  /\ pass' = IF There(f)
             THEN [pass EXCEPT !.pc = "HASH", !.todo = @ \ {f}, !.file = f,
                               !.before = shelf[f].stamp]
             ELSE [pass EXCEPT !.todo = @ \ {f}]
  /\ UNCHANGED found /\ Verifying

Hash ==
  /\ pass.pc = "HASH"
  /\ IF There(pass.file)
     THEN pass' = [pass EXCEPT !.pc = "OPEN", !.sum = shelf[pass.file].bytes]
     ELSE NextFile
  /\ UNCHANGED found /\ Verifying

\* verifySqliteExactly: integrity, foreign keys and the exact migration history.
OpenReadOnly ==
  /\ pass.pc = "OPEN"
  /\ IF shelf[pass.file].bytes \in Good THEN Proceed("STAT_AGAIN") ELSE NextFile
  /\ UNCHANGED found /\ Verifying

StatAgain ==
  /\ pass.pc = "STAT_AGAIN"
  /\ IF There(pass.file) /\ shelf[pass.file].stamp = pass.before
     THEN Proceed("HASH_AGAIN") ELSE NextFile
  /\ UNCHANGED found /\ Verifying

\* Mutated: a file whose time stamp did not change is taken to be the same.
HashOnce ==
  /\ pass.pc = "HASH_AGAIN"
  /\ Proceed("MANIFEST")
  /\ UNCHANGED found /\ Verifying

\* The row's claims are compared before the manifest is read.
HashAgain ==
  /\ pass.pc = "HASH_AGAIN"
  /\ IF /\ There(pass.file) /\ shelf[pass.file].bytes = pass.sum
        /\ pass.for \in {"LIST", "RESTORE"} =>
             ClaimOf(pass.file) = NoClaim \/ ClaimOf(pass.file).bytes = pass.sum
     THEN Proceed("MANIFEST") ELSE NextFile
  /\ UNCHANGED found /\ Verifying

\* readBackupManifest, manifestClaimsMatch: a missing sidecar is no objection, and a
\* valid one speaks of an off-device copy.
ReadManifest ==
  /\ pass.pc = "MANIFEST"
  /\ LET f == pass.file
         hand == pass.for \in {"BROWSE", "TOKEN"}
         fits == \/ shelf[f].sidecar = "MISSING"
                 \/ shelf[f].sidecar = pass.sum /\ (hand \/ shelf[f].root = "OFF_DEVICE")
     IN  found' = IF fits
                  THEN found \cup {Candidate(f, pass.sum,
                                             IF hand THEN NoClaim ELSE ClaimOf(f), hand)}
                  ELSE found
  /\ NextFile
  /\ Verifying

-------------------------------------------------------------------------------
(* The end of a pass.                                                          *)

Over == pass.pc = "NEXT" /\ pass.todo = {}

Offer ==
  /\ Over /\ pass.for \in {"LIST", "BROWSE"}
  /\ offered' = IF pass.for = "LIST" THEN found ELSE offered \cup found
  /\ tokens' = IF pass.for = "BROWSE" THEN tokens \cup {c.file: c \in found} ELSE tokens
  /\ pass' = NoPass /\ found' = {}
  /\ UNCHANGED <<shelf, listed, wanted, resolved, passes, changes>>

Resolve ==
  /\ Over /\ pass.for = "RESTORE"
  /\ \E c \in found: Id(c) = Id(wanted) /\ resolved' = c
  /\ pass' = NoPass /\ found' = {}
  /\ UNCHANGED <<shelf, listed, tokens, offered, wanted, passes, changes>>

\* No candidate of that id: only a token still leads to a file, which is verified.
ResolveToken ==
  /\ Over /\ pass.for = "RESTORE"
  /\ \A c \in found: Id(c) # Id(wanted)
  /\ pass' = IF wanted.hand /\ wanted.file \in tokens
             THEN [NoPass EXCEPT !.pc = "NEXT", !.for = "TOKEN", !.todo = {wanted.file}]
             ELSE NoPass
  /\ found' = {}
  /\ UNCHANGED <<shelf, listed, tokens, offered, wanted, resolved, passes, changes>>

ResolveBrowsed ==
  /\ Over /\ pass.for = "TOKEN"
  /\ resolved' = IF \E c \in found: c.hand
                 THEN CHOOSE c \in found: c.hand ELSE Nothing
  /\ pass' = NoPass /\ found' = {}
  /\ UNCHANGED <<shelf, listed, tokens, offered, wanted, passes, changes>>

\* Once the last pass is over nothing depends on what happens.
Watched == passes < MaxPasses \/ ~Idling

\* Half an hour passes, or the application is started again.
Expire ==
  /\ Watched /\ tokens # {}
  /\ tokens' = {}
  /\ UNCHANGED <<shelf, listed, offered, wanted, pass, found, resolved, passes, changes>>

\* Somebody replaces a file, with or without a new time stamp, or removes it.
Change(f) ==
  /\ Watched /\ There(f) /\ changes < MaxChanges
  /\ changes' = changes + 1
  /\ \/ shelf' = [shelf EXCEPT ![f] = NoArtifact]
     \/ \E bytes \in Bytes \ {shelf[f].bytes}, stamp \in 0..1:
          shelf' = [shelf EXCEPT ![f].bytes = bytes, ![f].stamp = stamp]
  /\ UNCHANGED <<listed, tokens, offered, wanted, pass, found, resolved, passes>>

-------------------------------------------------------------------------------

\* "A" stands for either whole database.
DiscoveryInit ==
  /\ shelf \in [Paths -> {a \in Artifact: a.stamp = 0 /\ a.bytes # "B"}]
  /\ listed \in {{}} \cup {{c}: c \in {d \in Claim: d.id = 1}}
                  \cup {{p[1], p[2]}: p \in {q \in Claim \X Claim:
                           q[1].id < q[2].id /\ q[1].root = q[2].root}}
  /\ tokens = {} /\ offered = {} /\ wanted = Nothing
  /\ pass = NoPass /\ found = {} /\ resolved = Nothing
  /\ passes = 0 /\ changes = 0

DiscoveryNext ==
  \/ ListCandidates
  \/ \E f \in Paths: Browse(f) \/ Stat(f) \/ Change(f)
  \/ \E c \in offered: Ask(c)
  \/ Hash \/ OpenReadOnly \/ StatAgain \/ HashAgain \/ ReadManifest
  \/ Offer \/ Resolve \/ ResolveToken \/ ResolveBrowsed
  \/ Expire

DiscoverySpec == DiscoveryInit /\ [][DiscoveryNext]_discoveryVars

-------------------------------------------------------------------------------
(* Properties.                                                                 *)

\* Whatever is offered or taken is a whole database of this schema, bytes that its
\* file held when they were opened, under the claims of its row; a file is offered
\* once, and only from a managed directory or by hand (backupDiscovery.ts:232).  A
\* file that is replaced before it is opened and put back after, twice under one
\* time stamp, can pass for what was opened.
OffersAreWhole ==
  \A c \in offered \cup found \cup ({resolved} \ {Nothing}):
    /\ c.sum \in Good \/ (c.claim = NoClaim /\ changes > 1)
    /\ c.claim # NoClaim => c.claim.bytes = c.sum
    /\ \A d \in found: c \in found /\ c.file = d.file => c = d

\* The backup a restore takes has the bytes of the one the owner chose, whatever
\* happened to its file since it was listed; but a file picked by hand is verified
\* as it is now (restoreCandidate.ts:148).
TakesWhatWasChosen ==
  resolved # Nothing /\ ~wanted.hand =>
    resolved.sum = wanted.sum /\ resolved.file = wanted.file
===============================================================================
