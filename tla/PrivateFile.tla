---------------------------- MODULE PrivateFile -----------------------------
(***************************************************************************)
(* The private PDFs of one workspace, from the reservation of an upload to *)
(* the verdict of the scanner and the attachment to a version              *)
(* (apps/api/src/postgres/private-files.ts, private-pdf-storage.ts,        *)
(* migration 0023).                                                        *)
(*                                                                         *)
(* A row of file_object and the bytes on the private volume are two things *)
(* that no transaction covers: an upload writes the volume while its       *)
(* transaction holds the locks of the file and of its record, and the host *)
(* may die, or lose its connection and its locks and go on writing, at any *)
(* step.  So requests, uploads and scans are several steps; a command of   *)
(* one transaction that touches nothing else is one.                       *)
(*                                                                         *)
(* Editing and handing in the record (a proposal or a challenge draft) are *)
(* here as far as files are concerned.  What a reader may see is not       *)
(* modelled: reading changes nothing.                                      *)
(***************************************************************************)
EXTENDS Naturals, FiniteSets

CONSTANTS
  Files,       \* reservations the workspace makes in a run
  Records,     \* its proposals and challenges
  Contents,    \* what the bytes of a PDF of the declared size may be
  Infected,    \* those the scanner rejects
  Hosts,       \* API processes serving one command each
  Scanners,    \* API processes whose timer scans
  Quota,       \* how many files a workspace may have
  MaxVersion,  \* bound: the versions of a file
  MaxFaults    \* bound: hosts that die and connections that are lost

Nothing == "nothing"   \* no bytes, no digest, no file
Partial == "partial"   \* a file that is created and not written to its end

ASSUME PrivateFileAssumption ==
  /\ IsFiniteSet(Files) /\ Nothing \notin Files \cup Records
  /\ Infected \subseteq Contents /\ {Nothing, Partial} \cap Contents = {}
  /\ Quota \in Nat /\ MaxVersion \in Nat \ {0} /\ MaxFaults \in Nat

Bytes == Contents \cup {Nothing, Partial}

VARIABLES
  settled, \* how many more files the workspace has, of earlier records, that change no more
  files,   \* file_object, without the rows that are not there
  volume,  \* the bytes under each file's object key
  record,  \* the records: may they be edited, and what their current version attaches
  host,    \* the command of each API process
  scanner, \* the scan of each API process
  faults   \* history: how many faults there were

vars == <<settled, files, volume, record, host, scanner, faults>>

NoRow == [state |-> "none", of |-> Nothing, digest |-> Nothing, version |-> 0, created |-> 0]
Stored == {"quarantined", "pending_scan", "clean", "rejected", "scan_failed"}

Row == [state : {"none", "awaiting_upload"} \cup Stored, of : Records \cup {Nothing},
        digest : Contents \cup {Nothing}, version : 0..(MaxVersion + 1), created : Nat]

\* A command: how far it is, the file and the record it locked, the bytes that were uploaded,
\* whether its connection stands, and how many files it counted.
Job == [at : {"free", "reserving", "counted", "writing", "comparing", "written"},
        file : Files \cup {Nothing}, record : Records \cup {Nothing},
        bytes : Contents \cup {Nothing}, linked : BOOLEAN, counted : Nat]

Free == [at |-> "free", file |-> Nothing, record |-> Nothing, bytes |-> Nothing, linked |-> FALSE,
         counted |-> 0]
Resting == [file |-> Nothing, bytes |-> Nothing, linked |-> FALSE]

Rows == {f \in Files : files[f].state # "none"}

Init ==
  /\ settled \in 0..Quota
  /\ files = [f \in Files |-> NoRow]
  /\ volume = [f \in Files |-> Nothing]
  /\ record = [r \in Records |-> [editable |-> TRUE, attached |-> {}]]
  /\ host = [h \in Hosts |-> Free]
  /\ scanner = [s \in Scanners |-> Resting]
  /\ faults = 0
-----------------------------------------------------------------------------
(* Locks: a transaction has them as long as its connection stands. *)

\* Mutant of HeldRecord: a command looks at the record without locking it.
HeldRecordNever(r) == FALSE

HeldRecord(r) == \E h \in Hosts : host[h].linked /\ host[h].record = r

HeldFile(f) ==
  \/ \E h \in Hosts : host[h].linked /\ host[h].file = f /\ host[h].at # "reserving"
  \/ \E s \in Scanners : scanner[s].linked /\ scanner[s].file = f

\* Mutant of SharedByOthers: a request counts the files under the lock it shares with others.
SharedByOthersNever(h) == FALSE

\* Every command of the workspace is authorized under a shared lock on its row (activeAccess).
SharedByOthers(h) == \E g \in Hosts \ {h} : host[g].linked

\* A request counts and reserves under an exclusive one, which also stops the scanner's audit row.
Exclusive == \E h \in Hosts : host[h].linked /\ host[h].at = "counted"

\* The command is authorized, the record is locked and may be edited.
Editable(r) == ~Exclusive /\ ~HeldRecord(r) /\ record[r].editable

Becomes(f, state, digest) ==
  files' = [files EXCEPT ![f] = [state |-> state, of |-> files[f].of, digest |-> digest,
                                 version |-> files[f].version + 1, created |-> files[f].created]]
-----------------------------------------------------------------------------
(* Reserving an upload: the record, then the workspace and its quota, then the row. *)

Reserve(h, f, r) ==
  /\ host[h] = Free
  /\ files[f] = NoRow /\ \A g \in Hosts : host[g].file # f
  /\ Editable(r)
  /\ host' = [host EXCEPT ![h] = [Free EXCEPT !.at = "reserving", !.file = f, !.record = r,
                                              !.linked = TRUE]]
  /\ UNCHANGED <<settled, files, volume, record, scanner, faults>>

Count(h) ==
  /\ host[h].at = "reserving" /\ host[h].linked
  /\ ~SharedByOthers(h)
  /\ host' = [host EXCEPT ![h].at = "counted", ![h].counted = settled + Cardinality(Rows)]
  /\ UNCHANGED <<settled, files, volume, record, scanner, faults>>

Insert(h) ==
  LET f == host[h].file IN
  /\ host[h].at = "counted" /\ host[h].linked
  /\ IF host[h].counted < Quota
     THEN files' = [files EXCEPT ![f] =
            [state |-> "awaiting_upload", of |-> host[h].record, digest |-> Nothing,
             version |-> 1, created |-> Cardinality(Rows) + 1]]
     ELSE UNCHANGED files
  /\ host' = [host EXCEPT ![h] = Free]
  /\ UNCHANGED <<settled, volume, record, scanner, faults>>
-----------------------------------------------------------------------------
(* Uploading: the row and the record are locked, the volume is written, the row is updated. *)

\* The object key is opened for a new file, or is there already.
Upload(h, f, bytes) ==
  LET r == files[f].of IN
  /\ host[h] = Free
  /\ files[f].state = "awaiting_upload"
  /\ ~HeldFile(f) /\ Editable(r)
  /\ host' = [host EXCEPT ![h] =
       [Free EXCEPT !.at = IF volume[f] = Nothing THEN "writing" ELSE "comparing",
                    !.file = f, !.record = r, !.bytes = bytes, !.linked = TRUE]]
  /\ volume' = IF volume[f] = Nothing THEN [volume EXCEPT ![f] = Partial] ELSE volume
  /\ UNCHANGED <<settled, files, record, scanner, faults>>

Write(h) ==
  /\ host[h].at = "writing"
  /\ volume' = [volume EXCEPT ![host[h].file] = host[h].bytes]
  /\ host' = [host EXCEPT ![h].at = "written"]
  /\ UNCHANGED <<settled, files, record, scanner, faults>>

\* Mutant of SameBytes: bytes that are there are taken for those of this upload.
SameBytesAlways(h) == TRUE

SameBytes(h) == volume[host[h].file] = host[h].bytes

\* "Upload bytes cannot be replaced": a refusal ends the command.
Compare(h) ==
  /\ host[h].at = "comparing"
  /\ host' = [host EXCEPT ![h] = IF SameBytes(h) THEN [@ EXCEPT !.at = "written"] ELSE Free]
  /\ UNCHANGED <<settled, files, volume, record, scanner, faults>>

Quarantine(h) ==
  LET f == host[h].file IN
  /\ host[h].at = "written" /\ host[h].linked
  /\ Becomes(f, "quarantined", host[h].bytes)
  /\ host' = [host EXCEPT ![h] = Free]
  /\ UNCHANGED <<settled, volume, record, scanner, faults>>

\* A command fails at its next statement without its connection, and a request that waits for
\* the workspace may be the one that PostgreSQL aborts: the others may wait for its record.
Fail(h) ==
  /\ \/ host[h].at \in {"counted", "written"} /\ ~host[h].linked
     \/ host[h].at = "reserving"
  /\ host' = [host EXCEPT ![h] = Free]
  /\ UNCHANGED <<settled, files, volume, record, scanner, faults>>
-----------------------------------------------------------------------------
(* Asking for the scan, and scanning. *)

Complete(f) ==
  /\ files[f].state \in {"quarantined", "scan_failed"}
  /\ files[f].version < MaxVersion
  /\ ~HeldFile(f) /\ Editable(files[f].of)
  /\ Becomes(f, "pending_scan", files[f].digest)
  /\ UNCHANGED <<settled, volume, record, host, scanner, faults>>

\* Mutant of Waiting: only files that were never scanned are taken.
WaitingUnscanned == {f \in Files : files[f].state = "pending_scan" /\ files[f].version = 3 /\ ~HeldFile(f)}

Waiting == {f \in Files : files[f].state = "pending_scan" /\ ~HeldFile(f)}

\* The oldest file whose row is not locked; its bytes are read under the row lock.
Take(s) ==
  /\ scanner[s] = Resting
  /\ \E f \in Waiting :
       /\ \A g \in Waiting : files[f].created <= files[g].created
       /\ scanner' = [scanner EXCEPT ![s] = [file |-> f, bytes |-> volume[f], linked |-> TRUE]]
  /\ UNCHANGED <<settled, files, volume, record, host, faults>>

\* Bytes that are not those of the row, an unreachable scanner or an unknown reply: scan_failed.
Verdicts(digest, bytes) ==
  IF bytes # digest THEN {"scan_failed"}
  ELSE {"scan_failed", IF bytes \in Infected THEN "rejected" ELSE "clean"}

Judge(s) ==
  LET f == scanner[s].file IN
  /\ scanner[s].linked /\ ~Exclusive
  /\ \E verdict \in Verdicts(files[f].digest, scanner[s].bytes) :
       Becomes(f, verdict, files[f].digest)
  /\ scanner' = [scanner EXCEPT ![s] = Resting]
  /\ UNCHANGED <<settled, volume, record, host, faults>>

ScanUnlinked(s) ==
  /\ scanner[s] # Resting /\ ~scanner[s].linked
  /\ scanner' = [scanner EXCEPT ![s] = Resting]
  /\ UNCHANGED <<settled, files, volume, record, host, faults>>
-----------------------------------------------------------------------------
(* The records. *)

Attachable(r) == {f \in Files : files[f].state = "clean" /\ files[f].of = r}

\* A save makes a version that attaches clean files of this very record.
Save(r, attachments) ==
  /\ Editable(r)
  /\ attachments \subseteq Attachable(r)
  /\ \A f \in attachments : ~HeldFile(f)
  /\ record' = [record EXCEPT ![r].attached = attachments]
  /\ UNCHANGED <<settled, files, volume, host, scanner, faults>>

\* The proposal is submitted or the challenge published; it cannot be edited any more,
HandIn(r) ==
  /\ Editable(r)
  /\ record' = [record EXCEPT ![r].editable = FALSE]
  /\ UNCHANGED <<settled, files, volume, host, scanner, faults>>

\* until the owner begins the revision that the organization asked for.
Reopen(r) ==
  /\ ~Exclusive /\ ~HeldRecord(r) /\ ~record[r].editable
  /\ record' = [record EXCEPT ![r].editable = TRUE]
  /\ UNCHANGED <<settled, files, volume, host, scanner, faults>>
-----------------------------------------------------------------------------
(* Faults. *)

\* The process dies; what it wrote stays as it is.
Die(h) ==
  /\ faults < MaxFaults
  /\ host[h] # Free
  /\ faults' = faults + 1
  /\ host' = [host EXCEPT ![h] = Free]
  /\ UNCHANGED <<settled, files, volume, record, scanner>>

\* The database ends the transaction and frees its locks; the process goes on.
Disconnect(h) ==
  /\ faults < MaxFaults
  /\ host[h].linked
  /\ faults' = faults + 1
  /\ host' = [host EXCEPT ![h].linked = FALSE]
  /\ UNCHANGED <<settled, files, volume, record, scanner>>

DisconnectScanner(s) ==
  /\ faults < MaxFaults
  /\ scanner[s].linked
  /\ faults' = faults + 1
  /\ scanner' = [scanner EXCEPT ![s].linked = FALSE]
  /\ UNCHANGED <<settled, files, volume, record, host>>

Command(h) ==
  \/ \E f \in Files, r \in Records : Reserve(h, f, r)
  \/ Count(h) \/ Insert(h)
  \/ \E f \in Files, bytes \in Contents : Upload(h, f, bytes)
  \/ Write(h) \/ Compare(h) \/ Quarantine(h) \/ Fail(h)
  \/ Die(h) \/ Disconnect(h)

Scan(s) == Take(s) \/ Judge(s) \/ ScanUnlinked(s)

Next ==
  \/ \E h \in Hosts : Command(h)
  \/ \E f \in Files : Complete(f)
  \/ \E s \in Scanners : Scan(s) \/ DisconnectScanner(s)
  \/ \E r \in Records : HandIn(r) \/ Reopen(r) \/ \E attachments \in SUBSET Files : Save(r, attachments)

\* The timer of each API process calls scanNext every two seconds while none is under way; a
\* request goes on to its end, and a scanner that waits for the workspace has its turn.
Fairness ==
  /\ \A s \in Scanners : WF_vars(Scan(s)) /\ SF_vars(Judge(s))
  /\ \A h \in Hosts : WF_vars(Insert(h))

Spec == Init /\ [][Next]_vars /\ Fairness
-----------------------------------------------------------------------------
(* Properties. *)

\* Every variable has its type.
TypeOK ==
  /\ settled \in 0..Quota
  /\ files \in [Files -> Row]
  /\ \A f \in Files : files[f].digest # Nothing <=> files[f].state \in Stored
  /\ volume \in [Files -> Bytes]
  /\ record \in [Records -> [editable : BOOLEAN, attached : SUBSET Files]]
  /\ host \in [Hosts -> Job]
  /\ scanner \in [Scanners -> [file : Files \cup {Nothing}, bytes : Bytes, linked : BOOLEAN]]
  /\ faults \in 0..MaxFaults

\* The bytes on the volume are those whose digest the row has, from the moment it has one and
\* whatever writer died or was cut off before; so what was found clean, and what a version
\* attaches, is what the scanner read (put's exclusive creation, upload, scanNext).
CleanBytesWereScanned ==
  /\ \A f \in Files : files[f].state \in Stored => volume[f] = files[f].digest
  /\ \A f \in Files : files[f].state = "clean" => volume[f] \notin Infected
  /\ \A r \in Records : record[r].attached \subseteq Attachable(r)

\* However many requests on however many records are under way at once, the workspace has no
\* more files than its quota (request).
QuotaHolds == settled + Cardinality(Rows) <= Quota

\* When a record has been handed in, no file is reserved for it and none of its files changes,
\* but for the verdict on one whose scan was asked for before (editable, owned).
FrozenWithTheRecord ==
  [][\A f \in Files :
       files'[f] # files[f] /\ ~record[files'[f].of].editable
       => files[f].state = "pending_scan"]_vars

\* A file whose scan was asked for gets a verdict, whatever scanners lose their connection, as
\* long as owners ask again only so often for files that failed.
EveryPendingGetsVerdict ==
  \A f \in Files : files[f].state = "pending_scan" ~> files[f].state \in {"clean", "rejected", "scan_failed"}
=============================================================================
