------------------------------- MODULE OffDevice ------------------------------
(* Whether a folder is storage outside this computer                           *)
(* (src/main/backup/offDeviceDestination.ts, windowsDiskInspection.ts,         *)
(* boundedHostnameResolver.ts).                                                *)
(*                                                                             *)
(* One verification of one folder, on a computer that does not change while it *)
(* lasts.  Every question it asks of Windows is a child process that may die,  *)
(* time out or answer nonsense, and the name server may not answer.  A path is *)
(* the drive letter it begins with or the host of its share.                   *)
EXTENDS Integers, FiniteSets

CONSTANTS
  Letters,   \* drive letters
  Disks      \* physical disks

ASSUME OffDeviceAssumption == IsFiniteSet(Disks)

VARIABLES
  site,      \* the computer and the folder: see Site
  question,  \* what the verification waits for
  canonical, \* the canonical path of the folder
  answered,  \* whether every question was answered so far
  verdict    \* what it returns

offDeviceVars == <<site, question, canonical, answered, verdict>>

\* Names and addresses of this computer, a name the server resolves to one of its
\* addresses, and those of another computer.
Hosts == {"LOCALHOST", "OWN_NAME", "OWN_ADDRESS", "OWN_ALIAS",
          "OTHER_NAME", "OTHER_ADDRESS"}
Path == [kind: {"DRIVE"}, at: Letters] \cup [kind: {"SHARE"}, at: Hosts]

\* A letter may stand for a network share, for a partition of one disk, or for
\* nothing that is one disk.
Volume == {[type |-> "NETWORK", disks |-> {}], [type |-> "LOCAL", disks |-> {}]}
            \cup [type: {"LOCAL"}, disks: {{d}: d \in Disks}]
            \cup {[type |-> "LOCAL", disks |-> Disks]}

\* given: the folder as it was chosen.  final: where its bytes really are: a
\* junction leads elsewhere.
Site == [given: Path, final: Path, home: Letters, volumes: [Letters -> Volume],
         usb: SUBSET Disks, writable: BOOLEAN]

\* What may be under the folder: a junction leads off a drive letter only, and the
\* database is on one local disk.
Possible(s) ==
  /\ Cardinality(s.volumes[s.home].disks) = 1
  /\ s.given.kind = "SHARE" => s.final = s.given

-------------------------------------------------------------------------------

Answer(v) == verdict' = v /\ question' = "DONE"

\* One bounded child process gives no usable answer: killed at its time limit, not
\* there, failed, or its output is not what the script prints.
NoAnswer(v) == Answer(v) /\ answered' = FALSE

\* Mutated: the path is taken as it was given.
CanonicalizeAsGiven ==
  /\ question = "CANONICAL_PATHS"
  /\ \/ /\ canonical' = site.given
        /\ question' = IF site.given.kind = "SHARE" THEN "HOST" ELSE "DISKS"
        /\ UNCHANGED <<answered, verdict>>
     \/ NoAnswer("INACCESSIBLE") /\ UNCHANGED canonical
  /\ UNCHANGED site

\* GetFinalPathNameByHandle follows every junction.
Canonicalize ==
  /\ question = "CANONICAL_PATHS"
  /\ \/ /\ canonical' = site.final
        /\ question' = IF site.final.kind = "SHARE" THEN "HOST" ELSE "DISKS"
        /\ UNCHANGED <<answered, verdict>>
     \/ NoAnswer("INACCESSIBLE") /\ UNCHANGED canonical
  /\ UNCHANGED site

\* A literal address is compared, never resolved.
OwnByForm(host) == host \in {"LOCALHOST", "OWN_NAME", "OWN_ADDRESS"}
Literal(host) == host = "OTHER_ADDRESS"

\* isObviousLocalHost: silence of the name server proves nothing.
AskHost ==
  /\ question = "HOST"
  /\ \/ /\ OwnByForm(canonical.at)
        /\ Answer("LOCAL_SHARE") /\ UNCHANGED answered
     \/ /\ Literal(canonical.at)
        /\ question' = "PROBE" /\ UNCHANGED <<answered, verdict>>
     \/ /\ ~OwnByForm(canonical.at) /\ ~Literal(canonical.at)
        /\ \/ /\ canonical.at = "OWN_ALIAS"
              /\ Answer("LOCAL_SHARE") /\ UNCHANGED answered
           \/ /\ canonical.at # "OWN_ALIAS"
              /\ question' = "PROBE" /\ UNCHANGED <<answered, verdict>>
           \/ /\ question' = "PROBE" /\ answered' = FALSE /\ UNCHANGED verdict
  /\ UNCHANGED <<site, canonical>>

\* Resolve-PhysicalDisk: exactly one partition, of exactly one disk.
OneDisk(letter) == Cardinality(site.volumes[letter].disks) = 1
DiskOf(letter) == CHOOSE d \in site.volumes[letter].disks: TRUE

\* The inspection script and what verify makes of its answer.
Inspect ==
  /\ question = "DISKS"
  /\ LET there == canonical.at IN
     \/ NoAnswer("NOT_VERIFIED")
     \/ /\ site.volumes[there].type = "NETWORK"
        /\ Answer("MAPPED_NETWORK_DRIVE") /\ UNCHANGED answered
     \/ /\ site.volumes[there].type = "LOCAL" /\ ~OneDisk(there)
        /\ Answer("NOT_VERIFIED") /\ UNCHANGED answered
     \/ /\ site.volumes[there].type = "LOCAL" /\ OneDisk(there)
        /\ CASE DiskOf(there) = DiskOf(site.home) -> Answer("SAME_DISK")
             [] DiskOf(there) # DiskOf(site.home) /\ DiskOf(there) \notin site.usb ->
                  Answer("INTERNAL_DISK")
             [] OTHER -> question' = "PROBE" /\ UNCHANGED verdict
        /\ UNCHANGED answered
  /\ UNCHANGED <<site, canonical>>

\* A file is created, flushed and removed.
Probe ==
  /\ question = "PROBE"
  /\ \/ NoAnswer("NOT_WRITABLE")
     \/ ~site.writable /\ Answer("NOT_WRITABLE") /\ UNCHANGED answered
     \/ /\ site.writable
        /\ Answer(IF canonical.kind = "SHARE" THEN "NETWORK" ELSE "USB")
        /\ UNCHANGED answered
  /\ UNCHANGED <<site, canonical>>

-------------------------------------------------------------------------------

OffDeviceInit ==
  /\ site \in {s \in Site: Possible(s)}
  /\ question = "CANONICAL_PATHS"
  /\ canonical = site.given
  /\ answered = TRUE
  /\ verdict = "NONE"

OffDeviceNext == Canonicalize \/ AskHost \/ Inspect \/ Probe

OffDeviceSpec == OffDeviceInit /\ [][OffDeviceNext]_offDeviceVars

-------------------------------------------------------------------------------
(* Properties.                                                                 *)

Accepted == verdict \in {"NETWORK", "USB"}

\* Where the bytes of the folder are: on another computer, or on one disk that is
\* an external one and does not hold the database.
Elsewhere ==
  \/ site.final.kind = "SHARE" /\ site.final.at \in {"OTHER_NAME", "OTHER_ADDRESS"}
  \/ /\ site.final.kind = "DRIVE"
     /\ \E d \in site.usb: site.volumes[site.final.at].disks = {d}
     /\ site.volumes[site.home].disks # site.volumes[site.final.at].disks

\* A folder is accepted only if its bytes are outside this computer, whatever
\* junction leads there and whichever question stays unanswered, but for a name of
\* this computer that nobody resolves; and where all is answered, whatever is
\* outside and writable is accepted (offDeviceDestination.ts:270).
AcceptedIsElsewhere ==
  /\ Accepted => Elsewhere \/ (site.final.at = "OWN_ALIAS" /\ ~answered)
  /\ question = "DONE" /\ answered => (Accepted <=> Elsewhere /\ site.writable)
===============================================================================
