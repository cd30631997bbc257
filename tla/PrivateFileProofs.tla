-------------------------- MODULE PrivateFileProofs --------------------------
(***************************************************************************)
(* Proofs about PrivateFile for any number of files, records, hosts and    *)
(* scanners, any quota and any number of faults.                           *)
(***************************************************************************)
EXTENDS PrivateFile, FiniteSetTheorems, TLAPS

Busy(h) == host[h].at # "free"
Reserving(h) == host[h].at \in {"reserving", "counted"}
Uploading(h) == host[h].at \in {"writing", "comparing", "written"}

\* A row that has a digest has the bytes on the volume; what is clean is not infected.
RowsOK ==
  \A f \in Files :
    /\ files[f].state = "none" => files[f] = NoRow
    /\ files[f].state # "none" => files[f].of \in Records
    /\ files[f].state = "awaiting_upload" => files[f].version = 1
    /\ files[f].state = "pending_scan" => files[f].version <= MaxVersion
    /\ files[f].state \in Stored => volume[f] = files[f].digest
    /\ files[f].state = "clean" => files[f].digest \notin Infected

\* What a command knows of its file and its record stays true while it has its locks; what it
\* knows of the volume stays true also without them.
HostOK(h) ==
  /\ ~Busy(h) => host[h] = Free
  /\ Busy(h) => host[h].file \in Files /\ host[h].record \in Records
  /\ host[h].linked => Busy(h) /\ record[host[h].record].editable
  /\ Reserving(h) => files[host[h].file].state = "none"
  /\ Uploading(h) => host[h].bytes \in Contents /\ volume[host[h].file] # Nothing
  /\ host[h].at = "writing" => volume[host[h].file] = Partial
  /\ host[h].at = "written" => volume[host[h].file] = host[h].bytes
  /\ Uploading(h) /\ host[h].linked =>
       /\ files[host[h].file].state = "awaiting_upload"
       /\ files[host[h].file].of = host[h].record

HostsOK == \A h \in Hosts : HostOK(h)

\* Two commands do not lock one record, reserve one file or write one object.
HostsApart ==
  \A g, h \in Hosts : g # h =>
    /\ host[g].linked /\ host[h].linked => host[g].record # host[h].record
    /\ Reserving(g) /\ Reserving(h) => host[g].file # host[h].file
    /\ host[g].at = "writing" /\ host[h].at = "writing" => host[g].file # host[h].file

\* A scanner holds a file that waits for its verdict, and has read what is on the volume.
ScannersOK ==
  /\ \A s \in Scanners : scanner[s].linked =>
       /\ scanner[s].file \in Files
       /\ files[scanner[s].file].state = "pending_scan"
       /\ scanner[s].bytes = volume[scanner[s].file]
  /\ \A s, t \in Scanners :
       s # t /\ scanner[s].linked /\ scanner[t].linked => scanner[s].file # scanner[t].file

RecordsOK == \A r \in Records : record[r].attached \subseteq Attachable(r)

\* A request that has counted is alone, and what it counted is still so.
Counting ==
  /\ settled + Cardinality(Rows) <= Quota
  /\ \A h \in Hosts : host[h].linked /\ host[h].at = "counted" =>
       /\ host[h].counted = settled + Cardinality(Rows)
       /\ ~SharedByOthers(h)

Inv == TypeOK /\ RowsOK /\ HostsOK /\ HostsApart /\ ScannersOK /\ RecordsOK /\ Counting

LEMMA RowsFinite ==
  ASSUME TypeOK
  PROVE  /\ IsFiniteSet(Rows) /\ Cardinality(Rows) \in Nat
         /\ settled \in Nat /\ settled + Cardinality(Rows) \in Nat
<1>1. IsFiniteSet(Rows)
  BY FS_Subset, PrivateFileAssumption DEF Rows
<1>2. Cardinality(Rows) \in Nat
  BY <1>1, FS_CardinalityType
<1> QED
  BY <1>1, <1>2, PrivateFileAssumption DEF TypeOK

\* A row that takes a state beyond awaiting_upload, with a digest, is a row.
LEMMA RowChanges ==
  ASSUME TypeOK, NEW f \in Files, NEW state \in Stored, NEW digest \in Contents,
         files[f].version <= MaxVersion,
         Becomes(f, state, digest)
  PROVE  /\ files' \in [Files -> Row]
         /\ \A g \in Files : files'[g].digest # Nothing <=> files'[g].state \in Stored
<1> DEFINE new == [state |-> state, of |-> files[f].of, digest |-> digest,
                   version |-> files[f].version + 1, created |-> files[f].created]
<1>1. files[f] \in Row
  BY DEF TypeOK
<1>2. files[f].of \in Records \cup {Nothing} /\ files[f].created \in Nat /\ files[f].version + 1 \in 0..(MaxVersion + 1)
  BY <1>1, PrivateFileAssumption DEF Row
<1>3. new \in Row
  BY <1>2 DEF Row
<1>4. new.digest # Nothing /\ new.state \in Stored
  BY PrivateFileAssumption
<1>5. files' = [files EXCEPT ![f] = new]
  BY DEF Becomes
<1> HIDE DEF new
<1> QED
  BY <1>3, <1>4, <1>5 DEF TypeOK

\* What an upload leaves alone, and what it does to the volume.
LEMMA UploadOpens ==
  ASSUME NEW h, NEW f, NEW bytes, Upload(h, f, bytes)
  PROVE  /\ volume' = (IF volume[f] = Nothing THEN [volume EXCEPT ![f] = Partial] ELSE volume)
         /\ UNCHANGED <<settled, files, record, scanner, faults>>
BY DEF Upload

\* A request that has counted still knows what it knew when it reserved.
LEMMA CountedHost ==
  ASSUME NEW h,
         host'[h].at = "counted", host'[h].file = host[h].file, host'[h].record = host[h].record,
         host[h].file \in Files, host[h].record \in Records,
         files[host[h].file].state = "none", record[host[h].record].editable,
         files' = files, record' = record
  PROVE  HostOK(h)'
BY DEF HostOK, Busy, Reserving, Uploading

LEMMA TypeStep == Inv /\ [Next]_vars => TypeOK'
<1> SUFFICES ASSUME Inv, [Next]_vars PROVE TypeOK'
  OBVIOUS
<1> USE PrivateFileAssumption DEF Inv, TypeOK, RowsOK, HostsOK, HostOK, ScannersOK, Row, Job, Stored, Bytes, Free, Resting
<1>1. ASSUME NEW h \in Hosts, NEW f \in Files, NEW r \in Records, Reserve(h, f, r) PROVE TypeOK'
  BY <1>1 DEF Reserve
<1>2. ASSUME NEW h \in Hosts, Count(h) PROVE TypeOK'
  <2>1. settled + Cardinality(Rows) \in Nat
    BY RowsFinite
  <2>2. host[h] \in Job
    OBVIOUS
  <2>3. [host[h] EXCEPT !.at = "counted", !.counted = settled + Cardinality(Rows)] \in Job
    BY <2>1, <2>2 DEF Job
  <2>4. host' \in [Hosts -> Job]
    BY <1>2, <2>3 DEF Count
  <2> QED
    BY <1>2, <2>4 DEF Count
<1>3. ASSUME NEW h \in Hosts, Insert(h) PROVE TypeOK'
  <2> DEFINE new == [state |-> "awaiting_upload", of |-> host[h].record, digest |-> Nothing,
                     version |-> 1, created |-> Cardinality(Rows) + 1]
  <2>1. host[h].file \in Files /\ host[h].record \in Records
    BY <1>3 DEF Insert, Busy
  <2>2. Cardinality(Rows) + 1 \in Nat
    BY RowsFinite
  <2>3. new \in Row /\ new.digest = Nothing /\ new.state \notin Stored
    <3>1. 1 \in 0..(MaxVersion + 1)
      OBVIOUS
    <3>2. new \in Row
      BY <2>1, <2>2, <3>1
    <3> QED
      BY <3>2
  <2>4. files' = files \/ files' = [files EXCEPT ![host[h].file] = new]
    BY <1>3 DEF Insert
  <2> HIDE DEF new
  <2>5. files' \in [Files -> Row]
    BY <2>1, <2>3, <2>4
  <2>6. \A f \in Files : files'[f].digest # Nothing <=> files'[f].state \in Stored
    BY <2>1, <2>3, <2>4
  <2>7. host' \in [Hosts -> Job]
    BY <1>3 DEF Insert
  <2> QED
    BY <1>3, <2>5, <2>6, <2>7 DEF Insert
<1>4. ASSUME NEW h \in Hosts, NEW f \in Files, NEW bytes \in Contents, Upload(h, f, bytes) PROVE TypeOK'
  <2>1. [at |-> "writing", file |-> f, record |-> files[f].of, bytes |-> bytes, linked |-> TRUE,
         counted |-> 0] \in Job
    BY <1>4 DEF Upload
  <2>2. [at |-> "comparing", file |-> f, record |-> files[f].of, bytes |-> bytes, linked |-> TRUE,
         counted |-> 0] \in Job
    BY <1>4 DEF Upload
  <2>3. host' \in [Hosts -> Job]
    BY <1>4, <2>1, <2>2 DEF Upload
  <2>4. volume' \in [Files -> Bytes]
    BY <1>4 DEF Upload
  <2> HIDE DEF Inv
  <2>5. UNCHANGED <<settled, files, record, scanner, faults>>
    BY <1>4, UploadOpens
  <2> QED
    BY <2>3, <2>4, <2>5 DEF Inv
<1>5. ASSUME NEW h \in Hosts, Write(h) PROVE TypeOK'
  <2>1. host[h].file \in Files /\ host[h].bytes \in Contents
    BY <1>5 DEF Write, Busy, Uploading
  <2>2. volume' \in [Files -> Bytes]
    BY <1>5, <2>1 DEF Write
  <2>3. host' \in [Hosts -> Job]
    BY <1>5 DEF Write
  <2> QED
    BY <1>5, <2>2, <2>3 DEF Write
<1>6. ASSUME NEW h \in Hosts, Compare(h) PROVE TypeOK'
  <2>1. host[h] \in Job
    OBVIOUS
  <2>2. [host[h] EXCEPT !.at = "written"] \in Job
    BY <2>1 DEF Job
  <2>3. host' \in [Hosts -> Job]
    BY <1>6, <2>2 DEF Compare
  <2> QED
    BY <1>6, <2>3 DEF Compare
<1>7. ASSUME NEW h \in Hosts, Quarantine(h) PROVE TypeOK'
  <2>1. host[h].file \in Files /\ files[host[h].file] \in Row
    BY <1>7 DEF Quarantine, Busy
  <2>2. files[host[h].file].version <= MaxVersion /\ host[h].bytes \in Contents /\ "quarantined" \in Stored
    BY <1>7, <2>1 DEF Quarantine, Uploading
  <2>3. Becomes(host[h].file, "quarantined", host[h].bytes)
    BY <1>7 DEF Quarantine
  <2>4. /\ files' \in [Files -> Row]
        /\ \A g \in Files : files'[g].digest # Nothing <=> files'[g].state \in Stored
    BY <2>1, <2>2, <2>3, RowChanges
  <2>5. host' \in [Hosts -> Job]
    BY <1>7 DEF Quarantine
  <2> QED
    BY <1>7, <2>4, <2>5 DEF Quarantine
<1>8. ASSUME NEW h \in Hosts, Fail(h) PROVE TypeOK'
  BY <1>8 DEF Fail
<1>9. ASSUME NEW h \in Hosts, Die(h) PROVE TypeOK'
  BY <1>9 DEF Die
<1>10. ASSUME NEW h \in Hosts, Disconnect(h) PROVE TypeOK'
  <2>1. host[h] \in Job
    OBVIOUS
  <2>2. [host[h] EXCEPT !.linked = FALSE] \in Job
    BY <2>1 DEF Job
  <2>3. host' \in [Hosts -> Job]
    BY <1>10, <2>2 DEF Disconnect
  <2> QED
    BY <1>10, <2>3 DEF Disconnect
<1>11. ASSUME NEW f \in Files, Complete(f) PROVE TypeOK'
  <2>1. f \in Files /\ files[f] \in Row
    BY <1>11 DEF Complete, Busy
  <2>2. files[f].version <= MaxVersion /\ files[f].digest \in Contents /\ "pending_scan" \in Stored
    BY <1>11, <2>1 DEF Complete
  <2>3. Becomes(f, "pending_scan", files[f].digest)
    BY <1>11 DEF Complete
  <2>4. /\ files' \in [Files -> Row]
        /\ \A g \in Files : files'[g].digest # Nothing <=> files'[g].state \in Stored
    BY <2>1, <2>2, <2>3, RowChanges
  <2> QED
    BY <1>11, <2>4 DEF Complete
<1>12. ASSUME NEW s \in Scanners, Take(s) PROVE TypeOK'
  BY <1>12 DEF Take, Waiting
<1>13. ASSUME NEW s \in Scanners, Judge(s) PROVE TypeOK'
  <2> DEFINE f == scanner[s].file
  <2>1. PICK verdict \in Verdicts(files[f].digest, scanner[s].bytes) :
          Becomes(f, verdict, files[f].digest)
    BY <1>13, Zenon DEF Judge
  <2>2. f \in Files /\ files[f] \in Row /\ files[f].state = "pending_scan"
    BY <1>13 DEF Judge
  <2>3. verdict \in Stored
    BY <2>1 DEF Verdicts
  <2>4. files[f].version <= MaxVersion /\ files[f].digest \in Contents
    BY <2>2
  <2>6. /\ files' \in [Files -> Row]
        /\ \A g \in Files : files'[g].digest # Nothing <=> files'[g].state \in Stored
    BY <2>1, <2>2, <2>3, <2>4, RowChanges
  <2>7. scanner' \in [Scanners -> [file : Files \cup {Nothing}, bytes : Bytes, linked : BOOLEAN]]
    BY <1>13 DEF Judge
  <2> HIDE DEF f
  <2> QED
    BY <1>13, <2>6, <2>7 DEF Judge
<1>14. ASSUME NEW s \in Scanners, ScanUnlinked(s) PROVE TypeOK'
  BY <1>14 DEF ScanUnlinked
<1>15. ASSUME NEW s \in Scanners, DisconnectScanner(s) PROVE TypeOK'
  <2>1. scanner[s] \in [file : Files \cup {Nothing}, bytes : Bytes, linked : BOOLEAN]
    OBVIOUS
  <2>2. [scanner[s] EXCEPT !.linked = FALSE] \in [file : Files \cup {Nothing}, bytes : Bytes, linked : BOOLEAN]
    BY <2>1
  <2>3. scanner' \in [Scanners -> [file : Files \cup {Nothing}, bytes : Bytes, linked : BOOLEAN]]
    BY <1>15, <2>2 DEF DisconnectScanner
  <2> QED
    BY <1>15, <2>3 DEF DisconnectScanner
<1>16. ASSUME NEW r \in Records, NEW attachments \in SUBSET Files, Save(r, attachments) PROVE TypeOK'
  BY <1>16 DEF Save
<1>17. ASSUME NEW r \in Records, HandIn(r) PROVE TypeOK'
  <2>1. record[r] \in [editable : BOOLEAN, attached : SUBSET Files]
    OBVIOUS
  <2>2. [record[r] EXCEPT !.editable = FALSE] \in [editable : BOOLEAN, attached : SUBSET Files]
    BY <2>1
  <2>3. record' \in [Records -> [editable : BOOLEAN, attached : SUBSET Files]]
    BY <1>17, <2>2 DEF HandIn
  <2> QED
    BY <1>17, <2>3 DEF HandIn
<1>18. ASSUME NEW r \in Records, Reopen(r) PROVE TypeOK'
  <2>1. record[r] \in [editable : BOOLEAN, attached : SUBSET Files]
    OBVIOUS
  <2>2. [record[r] EXCEPT !.editable = TRUE] \in [editable : BOOLEAN, attached : SUBSET Files]
    BY <2>1
  <2>3. record' \in [Records -> [editable : BOOLEAN, attached : SUBSET Files]]
    BY <1>18, <2>2 DEF Reopen
  <2> QED
    BY <1>18, <2>3 DEF Reopen
<1>19. CASE UNCHANGED vars
  BY <1>19 DEF vars
<1> QED
  BY <1>1, <1>2, <1>3, <1>4, <1>5, <1>6, <1>7, <1>8, <1>9, <1>10, <1>11, <1>12, <1>13, <1>14, <1>15, <1>16, <1>17, <1>18, <1>19 DEF Next, Command, Scan

LEMMA RowsStep == Inv /\ [Next]_vars => RowsOK'
<1> SUFFICES ASSUME Inv, [Next]_vars PROVE RowsOK'
  OBVIOUS
<1> USE PrivateFileAssumption DEF Inv, TypeOK, RowsOK, HostsOK, HostOK, ScannersOK, Row, Job, Stored, Bytes, Free, NoRow, Becomes
<1>1. ASSUME NEW h \in Hosts, NEW f \in Files, NEW r \in Records, Reserve(h, f, r) PROVE RowsOK'
  BY <1>1 DEF Reserve
<1>2. ASSUME NEW h \in Hosts, Count(h) PROVE RowsOK'
  BY <1>2 DEF Count
<1>3. ASSUME NEW h \in Hosts, Insert(h) PROVE RowsOK'
  BY <1>3 DEF Insert
<1>4. ASSUME NEW h \in Hosts, NEW f \in Files, NEW bytes \in Contents, Upload(h, f, bytes) PROVE RowsOK'
  BY <1>4 DEF Upload
<1>5. ASSUME NEW h \in Hosts, Write(h) PROVE RowsOK'
  BY <1>5 DEF Write
<1>6. ASSUME NEW h \in Hosts, Compare(h) PROVE RowsOK'
  BY <1>6 DEF Compare
<1>7. ASSUME NEW h \in Hosts, Quarantine(h) PROVE RowsOK'
  <2> DEFINE f == host[h].file
  <2>1. f \in Files /\ files[f].state = "awaiting_upload" /\ volume[f] = host[h].bytes /\ host[h].bytes \in Contents
    BY <1>7 DEF Quarantine, HostOK, Busy, Uploading
  <2>2. files'[f] = [state |-> "quarantined", of |-> files[f].of, digest |-> host[h].bytes,
                     version |-> files[f].version + 1, created |-> files[f].created]
    BY <1>7, <2>1 DEF Quarantine
  <2>3. \A g \in Files : g # f => files'[g] = files[g]
    BY <1>7, <2>1 DEF Quarantine
  <2>4. volume' = volume
    BY <1>7 DEF Quarantine
  <2> QED
    BY <2>1, <2>2, <2>3, <2>4
<1>8. ASSUME NEW h \in Hosts, Fail(h) PROVE RowsOK'
  BY <1>8 DEF Fail
<1>9. ASSUME NEW h \in Hosts, Die(h) PROVE RowsOK'
  BY <1>9 DEF Die
<1>10. ASSUME NEW h \in Hosts, Disconnect(h) PROVE RowsOK'
  BY <1>10 DEF Disconnect
<1>11. ASSUME NEW f \in Files, Complete(f) PROVE RowsOK'
  BY <1>11 DEF Complete
<1>12. ASSUME NEW s \in Scanners, Take(s) PROVE RowsOK'
  BY <1>12 DEF Take, Waiting
<1>13. ASSUME NEW s \in Scanners, Judge(s) PROVE RowsOK'
  BY <1>13 DEF Judge, Verdicts
<1>14. ASSUME NEW s \in Scanners, ScanUnlinked(s) PROVE RowsOK'
  BY <1>14 DEF ScanUnlinked
<1>15. ASSUME NEW s \in Scanners, DisconnectScanner(s) PROVE RowsOK'
  BY <1>15 DEF DisconnectScanner
<1>16. ASSUME NEW r \in Records, NEW attachments \in SUBSET Files, Save(r, attachments) PROVE RowsOK'
  BY <1>16 DEF Save
<1>17. ASSUME NEW r \in Records, HandIn(r) PROVE RowsOK'
  BY <1>17 DEF HandIn
<1>18. ASSUME NEW r \in Records, Reopen(r) PROVE RowsOK'
  BY <1>18 DEF Reopen
<1>19. CASE UNCHANGED vars
  BY <1>19 DEF vars
<1> QED
  BY <1>1, <1>2, <1>3, <1>4, <1>5, <1>6, <1>7, <1>8, <1>9, <1>10, <1>11, <1>12, <1>13, <1>14, <1>15, <1>16, <1>17, <1>18, <1>19 DEF Next, Command, Scan

LEMMA HostsStep == Inv /\ [Next]_vars => HostsOK'
<1> SUFFICES ASSUME Inv, [Next]_vars PROVE HostsOK'
  OBVIOUS
<1> USE PrivateFileAssumption DEF Inv, TypeOK, RowsOK, HostsOK, HostOK, HostsApart, ScannersOK, Row, Job, Stored, Bytes, Free, NoRow, Becomes, Busy, Uploading, Reserving
<1>1. ASSUME NEW h \in Hosts, NEW f \in Files, NEW r \in Records, Reserve(h, f, r) PROVE HostsOK'
  BY <1>1 DEF Reserve, Editable, HeldRecord
<1>2. ASSUME NEW h \in Hosts, Count(h) PROVE HostsOK'
  <2>1. /\ host'[h].at = "counted" /\ host'[h].linked
        /\ host'[h].file = host[h].file /\ host'[h].record = host[h].record
    BY <1>2 DEF Count
  <2>2. \A g \in Hosts : g # h => host'[g] = host[g]
    BY <1>2 DEF Count
  <2>3. /\ host[h].file \in Files /\ host[h].record \in Records
        /\ files[host[h].file].state = "none" /\ record[host[h].record].editable
    BY <1>2 DEF Count
  <2>4. files' = files /\ record' = record /\ volume' = volume
    BY <1>2 DEF Count
  <2> HIDE DEF Inv, HostOK, HostsOK
  <2>5. HostOK(h)'
    BY <2>1, <2>3, <2>4, CountedHost
  <2>6. ASSUME NEW g \in Hosts, g # h PROVE HostOK(g)'
    <3>1. HostOK(g) /\ host'[g] = host[g]
      BY <2>2, <2>6 DEF Inv, HostsOK
    <3> QED
      BY <3>1, <2>4 DEF HostOK
  <2> QED
    BY <2>5, <2>6 DEF HostsOK
<1>3. ASSUME NEW h \in Hosts, Insert(h) PROVE HostsOK'
  <2>1. host'[h] = Free
    BY <1>3 DEF Insert
  <2>2. \A g \in Hosts : g # h => host'[g] = host[g]
    BY <1>3 DEF Insert
  <2>3. HostOK(h)'
    BY <1>3, <2>1 DEF Insert
  <2>4. ASSUME NEW g \in Hosts, g # h PROVE HostOK(g)'
    BY <1>3, <2>2, <2>4 DEF Insert
  <2> QED
    BY <2>3, <2>4
<1>4. ASSUME NEW h \in Hosts, NEW f \in Files, NEW bytes \in Contents, Upload(h, f, bytes) PROVE HostsOK'
  <2>1. /\ host'[h].at \in {"writing", "comparing"} /\ host'[h].linked /\ host'[h].bytes = bytes
        /\ host'[h].file = f /\ host'[h].record = files[f].of
        /\ host'[h].at = "writing" <=> volume[f] = Nothing
    BY <1>4 DEF Upload
  <2>2. \A g \in Hosts : g # h => host'[g] = host[g]
    BY <1>4 DEF Upload
  <2>3. files[f].state = "awaiting_upload" /\ files[f].of \in Records /\ record[files[f].of].editable
    BY <1>4 DEF Upload, Editable
  <2>5. Partial # Nothing /\ DOMAIN volume = Files
    BY DEF Partial, Nothing
  <2> HIDE DEF Inv, HostOK, HostsOK
  <2>4. volume' = (IF volume[f] = Nothing THEN [volume EXCEPT ![f] = Partial] ELSE volume)
    BY <1>4, UploadOpens
  <2>6. volume'[f] = (IF volume[f] = Nothing THEN Partial ELSE volume[f])
    BY ONLY <2>4, <2>5, f \in Files
  <2>7. \A e \in Files : volume[e] # Nothing => volume'[e] = volume[e]
    BY ONLY <2>4, <2>5, f \in Files
  <2>8. files' = files /\ record' = record
    BY <1>4, UploadOpens
  <2>9. HostOK(h)'
    BY ONLY <2>1, <2>3, <2>5, <2>6, <2>8, f \in Files, bytes \in Contents DEF HostOK, Busy, Reserving, Uploading
  <2>10. ASSUME NEW g \in Hosts, g # h PROVE HostOK(g)'
    <3>1. HostOK(g) /\ host'[g] = host[g]
      BY <2>2, <2>10 DEF Inv, HostsOK
    <3>2. host[g].at \in {"free", "reserving", "counted", "writing", "comparing", "written"}
      BY DEF Inv
    <3>3. host[g].bytes \in Contents => host[g].bytes # Nothing
      BY DEF Inv
    <3> QED
      BY ONLY <3>1, <3>2, <3>3, <2>5, <2>7, <2>8 DEF HostOK, Busy, Reserving, Uploading
  <2> QED
    BY <2>9, <2>10 DEF HostsOK
<1>5. ASSUME NEW h \in Hosts, Write(h) PROVE HostsOK'
  BY <1>5 DEF Write
<1>6. ASSUME NEW h \in Hosts, Compare(h) PROVE HostsOK'
  <2>1. \/ host'[h] = Free
        \/ /\ host'[h].at = "written" /\ SameBytes(h) /\ host'[h].bytes = host[h].bytes
           /\ host'[h].linked = host[h].linked
           /\ host'[h].file = host[h].file /\ host'[h].record = host[h].record
    <3>1. CASE SameBytes(h)
      <4>1. host' = [host EXCEPT ![h] = [host[h] EXCEPT !.at = "written"]]
        BY <1>6, <3>1 DEF Compare
      <4> QED
        BY ONLY <4>1, <3>1, h \in Hosts, host \in [Hosts -> Job] DEF Job
    <3>2. CASE ~SameBytes(h)
      BY <1>6, <3>2 DEF Compare
    <3> QED
      BY <3>1, <3>2
  <2>2. \A g \in Hosts : g # h => host'[g] = host[g]
    BY <1>6 DEF Compare
  <2>3. HostOK(h)'
    BY <1>6, <2>1 DEF Compare, SameBytes
  <2>4. ASSUME NEW g \in Hosts, g # h PROVE HostOK(g)'
    BY <1>6, <2>2, <2>4 DEF Compare
  <2> QED
    BY <2>3, <2>4
<1>7. ASSUME NEW h \in Hosts, Quarantine(h) PROVE HostsOK'
  BY <1>7 DEF Quarantine
<1>8. ASSUME NEW h \in Hosts, Fail(h) PROVE HostsOK'
  BY <1>8 DEF Fail
<1>9. ASSUME NEW h \in Hosts, Die(h) PROVE HostsOK'
  BY <1>9 DEF Die
<1>10. ASSUME NEW h \in Hosts, Disconnect(h) PROVE HostsOK'
  <2>1. /\ host'[h].at = host[h].at /\ ~host'[h].linked /\ host'[h].bytes = host[h].bytes
        /\ host'[h].file = host[h].file /\ host'[h].record = host[h].record
    BY <1>10 DEF Disconnect
  <2>2. \A g \in Hosts : g # h => host'[g] = host[g]
    BY <1>10 DEF Disconnect
  <2>3. HostOK(h)'
    BY <1>10, <2>1 DEF Disconnect
  <2>4. ASSUME NEW g \in Hosts, g # h PROVE HostOK(g)'
    BY <1>10, <2>2, <2>4 DEF Disconnect
  <2> QED
    BY <2>3, <2>4
<1>11. ASSUME NEW f \in Files, Complete(f) PROVE HostsOK'
  BY <1>11 DEF Complete
<1>12. ASSUME NEW s \in Scanners, Take(s) PROVE HostsOK'
  BY <1>12 DEF Take
<1>13. ASSUME NEW s \in Scanners, Judge(s) PROVE HostsOK'
  BY <1>13 DEF Judge
<1>14. ASSUME NEW s \in Scanners, ScanUnlinked(s) PROVE HostsOK'
  BY <1>14 DEF ScanUnlinked
<1>15. ASSUME NEW s \in Scanners, DisconnectScanner(s) PROVE HostsOK'
  BY <1>15 DEF DisconnectScanner
<1>16. ASSUME NEW r \in Records, NEW attachments \in SUBSET Files, Save(r, attachments) PROVE HostsOK'
  BY <1>16 DEF Save
<1>17. ASSUME NEW r \in Records, HandIn(r) PROVE HostsOK'
  BY <1>17 DEF HandIn, Editable, HeldRecord
<1>18. ASSUME NEW r \in Records, Reopen(r) PROVE HostsOK'
  BY <1>18 DEF Reopen
<1>19. CASE UNCHANGED vars
  BY <1>19 DEF vars
<1> HIDE DEF HostsOK, Inv, Busy, Uploading, Reserving
<1> QED
  BY <1>1, <1>2, <1>3, <1>4, <1>5, <1>6, <1>7, <1>8, <1>9, <1>10, <1>11, <1>12, <1>13, <1>14, <1>15, <1>16, <1>17, <1>18, <1>19 DEF Next, Command, Scan

LEMMA ApartStep == Inv /\ [Next]_vars => HostsApart'
<1> SUFFICES ASSUME Inv, [Next]_vars PROVE HostsApart'
  OBVIOUS
<1> USE PrivateFileAssumption DEF Inv, TypeOK, RowsOK, HostsOK, HostOK, HostsApart, Row, Job, Bytes, Free, Busy, Uploading, Reserving
<1>1. ASSUME NEW h \in Hosts, NEW f \in Files, NEW r \in Records, Reserve(h, f, r) PROVE HostsApart'
  BY <1>1 DEF Reserve, Editable, HeldRecord
<1>2. ASSUME NEW h \in Hosts, Count(h) PROVE HostsApart'
  BY <1>2 DEF Count
<1>3. ASSUME NEW h \in Hosts, Insert(h) PROVE HostsApart'
  BY <1>3 DEF Insert
<1>4. ASSUME NEW h \in Hosts, NEW f \in Files, NEW bytes \in Contents, Upload(h, f, bytes) PROVE HostsApart'
  BY <1>4 DEF Upload, Editable, HeldRecord, HeldFile
<1>5. ASSUME NEW h \in Hosts, Write(h) PROVE HostsApart'
  BY <1>5 DEF Write
<1>6. ASSUME NEW h \in Hosts, Compare(h) PROVE HostsApart'
  BY <1>6 DEF Compare
<1>7. ASSUME NEW h \in Hosts, Quarantine(h) PROVE HostsApart'
  BY <1>7 DEF Quarantine
<1>8. ASSUME NEW h \in Hosts, Fail(h) PROVE HostsApart'
  BY <1>8 DEF Fail
<1>9. ASSUME NEW h \in Hosts, Die(h) PROVE HostsApart'
  BY <1>9 DEF Die
<1>10. ASSUME NEW h \in Hosts, Disconnect(h) PROVE HostsApart'
  BY <1>10 DEF Disconnect
<1>11. ASSUME NEW f \in Files, Complete(f) PROVE HostsApart'
  BY <1>11 DEF Complete
<1>12. ASSUME NEW s \in Scanners, Take(s) PROVE HostsApart'
  BY <1>12 DEF Take
<1>13. ASSUME NEW s \in Scanners, Judge(s) PROVE HostsApart'
  BY <1>13 DEF Judge
<1>14. ASSUME NEW s \in Scanners, ScanUnlinked(s) PROVE HostsApart'
  BY <1>14 DEF ScanUnlinked
<1>15. ASSUME NEW s \in Scanners, DisconnectScanner(s) PROVE HostsApart'
  BY <1>15 DEF DisconnectScanner
<1>16. ASSUME NEW r \in Records, NEW attachments \in SUBSET Files, Save(r, attachments) PROVE HostsApart'
  BY <1>16 DEF Save
<1>17. ASSUME NEW r \in Records, HandIn(r) PROVE HostsApart'
  BY <1>17 DEF HandIn
<1>18. ASSUME NEW r \in Records, Reopen(r) PROVE HostsApart'
  BY <1>18 DEF Reopen
<1>19. CASE UNCHANGED vars
  BY <1>19 DEF vars
<1> QED
  BY <1>1, <1>2, <1>3, <1>4, <1>5, <1>6, <1>7, <1>8, <1>9, <1>10, <1>11, <1>12, <1>13, <1>14, <1>15, <1>16, <1>17, <1>18, <1>19 DEF Next, Command, Scan

LEMMA ScannersStep == Inv /\ [Next]_vars => ScannersOK'
<1> SUFFICES ASSUME Inv, [Next]_vars PROVE ScannersOK'
  OBVIOUS
<1> USE PrivateFileAssumption DEF Inv, TypeOK, RowsOK, HostsOK, HostOK, ScannersOK, Row, Job, Stored, Bytes, Resting, Becomes, Uploading, Reserving
<1>1. ASSUME NEW h \in Hosts, NEW f \in Files, NEW r \in Records, Reserve(h, f, r) PROVE ScannersOK'
  BY <1>1 DEF Reserve
<1>2. ASSUME NEW h \in Hosts, Count(h) PROVE ScannersOK'
  BY <1>2 DEF Count
<1>3. ASSUME NEW h \in Hosts, Insert(h) PROVE ScannersOK'
  BY <1>3 DEF Insert
<1>4. ASSUME NEW h \in Hosts, NEW f \in Files, NEW bytes \in Contents, Upload(h, f, bytes) PROVE ScannersOK'
  BY <1>4 DEF Upload
<1>5. ASSUME NEW h \in Hosts, Write(h) PROVE ScannersOK'
  BY <1>5 DEF Write
<1>6. ASSUME NEW h \in Hosts, Compare(h) PROVE ScannersOK'
  BY <1>6 DEF Compare
<1>7. ASSUME NEW h \in Hosts, Quarantine(h) PROVE ScannersOK'
  BY <1>7 DEF Quarantine
<1>8. ASSUME NEW h \in Hosts, Fail(h) PROVE ScannersOK'
  BY <1>8 DEF Fail
<1>9. ASSUME NEW h \in Hosts, Die(h) PROVE ScannersOK'
  BY <1>9 DEF Die
<1>10. ASSUME NEW h \in Hosts, Disconnect(h) PROVE ScannersOK'
  BY <1>10 DEF Disconnect
<1>11. ASSUME NEW f \in Files, Complete(f) PROVE ScannersOK'
  BY <1>11 DEF Complete, HeldFile
<1>12. ASSUME NEW s \in Scanners, Take(s) PROVE ScannersOK'
  BY <1>12 DEF Take, Waiting, HeldFile
<1>13. ASSUME NEW s \in Scanners, Judge(s) PROVE ScannersOK'
  BY <1>13 DEF Judge
<1>14. ASSUME NEW s \in Scanners, ScanUnlinked(s) PROVE ScannersOK'
  BY <1>14 DEF ScanUnlinked
<1>15. ASSUME NEW s \in Scanners, DisconnectScanner(s) PROVE ScannersOK'
  BY <1>15 DEF DisconnectScanner
<1>16. ASSUME NEW r \in Records, NEW attachments \in SUBSET Files, Save(r, attachments) PROVE ScannersOK'
  BY <1>16 DEF Save
<1>17. ASSUME NEW r \in Records, HandIn(r) PROVE ScannersOK'
  BY <1>17 DEF HandIn
<1>18. ASSUME NEW r \in Records, Reopen(r) PROVE ScannersOK'
  BY <1>18 DEF Reopen
<1>19. CASE UNCHANGED vars
  BY <1>19 DEF vars
<1> QED
  BY <1>1, <1>2, <1>3, <1>4, <1>5, <1>6, <1>7, <1>8, <1>9, <1>10, <1>11, <1>12, <1>13, <1>14, <1>15, <1>16, <1>17, <1>18, <1>19 DEF Next, Command, Scan

LEMMA RecordsStep == Inv /\ [Next]_vars => RecordsOK'
<1> SUFFICES ASSUME Inv, [Next]_vars PROVE RecordsOK'
  OBVIOUS
<1> USE PrivateFileAssumption DEF Inv, TypeOK, RowsOK, HostsOK, HostOK, ScannersOK, RecordsOK, Row, Job, Stored, Becomes, Attachable, Uploading, Reserving
<1>1. ASSUME NEW h \in Hosts, NEW f \in Files, NEW r \in Records, Reserve(h, f, r) PROVE RecordsOK'
  BY <1>1 DEF Reserve
<1>2. ASSUME NEW h \in Hosts, Count(h) PROVE RecordsOK'
  BY <1>2 DEF Count
<1>3. ASSUME NEW h \in Hosts, Insert(h) PROVE RecordsOK'
  BY <1>3 DEF Insert
<1>4. ASSUME NEW h \in Hosts, NEW f \in Files, NEW bytes \in Contents, Upload(h, f, bytes) PROVE RecordsOK'
  BY <1>4 DEF Upload
<1>5. ASSUME NEW h \in Hosts, Write(h) PROVE RecordsOK'
  BY <1>5 DEF Write
<1>6. ASSUME NEW h \in Hosts, Compare(h) PROVE RecordsOK'
  BY <1>6 DEF Compare
<1>7. ASSUME NEW h \in Hosts, Quarantine(h) PROVE RecordsOK'
  BY <1>7 DEF Quarantine
<1>8. ASSUME NEW h \in Hosts, Fail(h) PROVE RecordsOK'
  BY <1>8 DEF Fail
<1>9. ASSUME NEW h \in Hosts, Die(h) PROVE RecordsOK'
  BY <1>9 DEF Die
<1>10. ASSUME NEW h \in Hosts, Disconnect(h) PROVE RecordsOK'
  BY <1>10 DEF Disconnect
<1>11. ASSUME NEW f \in Files, Complete(f) PROVE RecordsOK'
  BY <1>11 DEF Complete
<1>12. ASSUME NEW s \in Scanners, Take(s) PROVE RecordsOK'
  BY <1>12 DEF Take
<1>13. ASSUME NEW s \in Scanners, Judge(s) PROVE RecordsOK'
  BY <1>13 DEF Judge
<1>14. ASSUME NEW s \in Scanners, ScanUnlinked(s) PROVE RecordsOK'
  BY <1>14 DEF ScanUnlinked
<1>15. ASSUME NEW s \in Scanners, DisconnectScanner(s) PROVE RecordsOK'
  BY <1>15 DEF DisconnectScanner
<1>16. ASSUME NEW r \in Records, NEW attachments \in SUBSET Files, Save(r, attachments) PROVE RecordsOK'
  BY <1>16 DEF Save
<1>17. ASSUME NEW r \in Records, HandIn(r) PROVE RecordsOK'
  BY <1>17 DEF HandIn
<1>18. ASSUME NEW r \in Records, Reopen(r) PROVE RecordsOK'
  BY <1>18 DEF Reopen
<1>19. CASE UNCHANGED vars
  BY <1>19 DEF vars
<1> QED
  BY <1>1, <1>2, <1>3, <1>4, <1>5, <1>6, <1>7, <1>8, <1>9, <1>10, <1>11, <1>12, <1>13, <1>14, <1>15, <1>16, <1>17, <1>18, <1>19 DEF Next, Command, Scan

\* While the rows stay and nobody else comes to hold the workspace, what was counted still holds.
LEMMA CountingKept ==
  ASSUME Counting, settled' = settled, files' = files \/ Rows' = Rows,
         \A g \in Hosts : host'[g].linked =>
            host[g].linked /\ (host'[g].at = "counted" => host'[g] = host[g])
  PROVE  Counting'
<1>1. Rows' = Rows
  BY DEF Rows
<1>2. ASSUME NEW h \in Hosts, host'[h].linked, host'[h].at = "counted"
      PROVE  host'[h].counted = settled + Cardinality(Rows) /\ ~SharedByOthers(h)'
  BY <1>2 DEF Counting, SharedByOthers
<1> QED
  BY <1>1, <1>2 DEF Counting

\* A command that begins under the shared lock finds nobody counting.
LEMMA NobodyCounts ==
  ASSUME Counting, ~Exclusive, UNCHANGED <<settled, files>>,
         \A g \in Hosts : host'[g].linked /\ host'[g].at = "counted" => host'[g] = host[g]
  PROVE  Counting'
<1>1. Rows' = Rows
  BY DEF Rows
<1>2. \A g \in Hosts : ~(host'[g].linked /\ host'[g].at = "counted")
  BY DEF Exclusive
<1> QED
  BY <1>1, <1>2 DEF Counting

LEMMA QuotaStep == Inv /\ [Next]_vars => Counting'
<1> SUFFICES ASSUME Inv, [Next]_vars PROVE Counting'
  OBVIOUS
<1> USE DEF Inv, TypeOK, Job
<1>1. ASSUME NEW h \in Hosts, NEW f \in Files, NEW r \in Records, Reserve(h, f, r) PROVE Counting'
  <2>1. ~Exclusive /\ UNCHANGED <<settled, files>>
    BY <1>1 DEF Reserve, Editable
  <2>2. \A g \in Hosts : host'[g].linked /\ host'[g].at = "counted" => host'[g] = host[g]
    BY <1>1 DEF Reserve
  <2> QED
    BY <2>1, <2>2, NobodyCounts
<1>2. ASSUME NEW h \in Hosts, Count(h) PROVE Counting'
  <2>1. ~SharedByOthers(h) /\ UNCHANGED <<settled, files>>
    BY <1>2 DEF Count
  <2>2. \A g \in Hosts : g # h => host'[g] = host[g]
    BY <1>2 DEF Count
  <2>3. host'[h].counted = settled + Cardinality(Rows)
    BY <1>2, RowsFinite DEF Count
  <2>4. Rows' = Rows
    BY <2>1 DEF Rows
  <2>5. \A g \in Hosts \ {h} : ~host'[g].linked
    BY <2>1, <2>2 DEF SharedByOthers
  <2> QED
    BY <2>1, <2>3, <2>4, <2>5 DEF Counting, SharedByOthers
<1>3. ASSUME NEW h \in Hosts, Insert(h) PROVE Counting'
  <2> DEFINE f == host[h].file
  <2>1. f \in Files /\ files[f].state = "none" /\ f \notin Rows
    BY <1>3 DEF Insert, HostsOK, HostOK, Busy, Reserving, Rows
  <2>2. host[h].counted = settled + Cardinality(Rows) /\ ~SharedByOthers(h)
    BY <1>3 DEF Insert, Counting
  <2>3. \A g \in Hosts : ~(host'[g].linked /\ host'[g].at = "counted")
    BY <1>3, <2>2 DEF Insert, SharedByOthers, Free
  <2>4. settled' = settled
    BY <1>3 DEF Insert
  <2>5. settled + Cardinality(Rows') <= Quota
    <3>1. CASE host[h].counted < Quota
      <4>1. files'[f].state = "awaiting_upload" /\ \A g \in Files \ {f} : files'[g] = files[g]
        BY <1>3, <2>1, <3>1 DEF Insert
      <4>2. Rows' = Rows \cup {f}
        BY <2>1, <4>1 DEF Rows
      <4>3. Cardinality(Rows') = Cardinality(Rows) + 1
        BY <2>1, <4>2, RowsFinite, FS_AddElement
      <4> QED
        BY <2>2, <3>1, <4>3, RowsFinite, PrivateFileAssumption
    <3>2. CASE ~(host[h].counted < Quota)
      <4>1. Rows' = Rows
        BY <1>3, <3>2 DEF Insert, Rows
      <4> QED
        BY <4>1 DEF Counting
    <3> QED
      BY <3>1, <3>2
  <2> QED
    BY <2>3, <2>4, <2>5 DEF Counting
<1>4. ASSUME NEW h \in Hosts, NEW f \in Files, NEW bytes \in Contents, Upload(h, f, bytes) PROVE Counting'
  <2>1. ~Exclusive /\ UNCHANGED <<settled, files>>
    BY <1>4 DEF Upload, Editable
  <2>2. \A g \in Hosts : host'[g].linked /\ host'[g].at = "counted" => host'[g] = host[g]
    BY <1>4 DEF Upload
  <2> QED
    BY <2>1, <2>2, NobodyCounts
<1>5. ASSUME NEW h \in Hosts, Write(h) PROVE Counting'
  <2>1. UNCHANGED <<settled, files>>
    BY <1>5 DEF Write
  <2>2. \A g \in Hosts : host'[g].linked => host[g].linked /\ (host'[g].at = "counted" => host'[g] = host[g])
    BY <1>5 DEF Write, Free
  <2> QED
    BY <2>1, <2>2, CountingKept
<1>6. ASSUME NEW h \in Hosts, Compare(h) PROVE Counting'
  <2>1. UNCHANGED <<settled, files>>
    BY <1>6 DEF Compare
  <2>2. \A g \in Hosts : host'[g].linked => host[g].linked /\ (host'[g].at = "counted" => host'[g] = host[g])
    BY <1>6 DEF Compare, Free
  <2> QED
    BY <2>1, <2>2, CountingKept
<1>7. ASSUME NEW h \in Hosts, Quarantine(h) PROVE Counting'
  <2>1. host[h].file \in Files /\ files[host[h].file].state # "none" /\ files'[host[h].file].state # "none"
    BY <1>7 DEF Quarantine, Becomes, HostsOK, HostOK, Busy, Uploading
  <2>2. settled' = settled /\ \A g \in Files \ {host[h].file} : files'[g] = files[g]
    BY <1>7, <2>1 DEF Quarantine, Becomes
  <2>3. Rows' = Rows
    BY <2>1, <2>2 DEF Rows
  <2>4. \A g \in Hosts : host'[g].linked => host[g].linked /\ (host'[g].at = "counted" => host'[g] = host[g])
    BY <1>7 DEF Quarantine, Free
  <2> QED
    BY <2>2, <2>3, <2>4, CountingKept
<1>8. ASSUME NEW h \in Hosts, Fail(h) PROVE Counting'
  <2>1. UNCHANGED <<settled, files>>
    BY <1>8 DEF Fail
  <2>2. \A g \in Hosts : host'[g].linked => host[g].linked /\ (host'[g].at = "counted" => host'[g] = host[g])
    BY <1>8 DEF Fail, Free
  <2> QED
    BY <2>1, <2>2, CountingKept
<1>9. ASSUME NEW h \in Hosts, Die(h) PROVE Counting'
  <2>1. UNCHANGED <<settled, files>>
    BY <1>9 DEF Die
  <2>2. \A g \in Hosts : host'[g].linked => host[g].linked /\ (host'[g].at = "counted" => host'[g] = host[g])
    BY <1>9 DEF Die, Free
  <2> QED
    BY <2>1, <2>2, CountingKept
<1>10. ASSUME NEW h \in Hosts, Disconnect(h) PROVE Counting'
  <2>1. UNCHANGED <<settled, files>>
    BY <1>10 DEF Disconnect
  <2>2. \A g \in Hosts : host'[g].linked => host[g].linked /\ (host'[g].at = "counted" => host'[g] = host[g])
    BY <1>10 DEF Disconnect, Free
  <2> QED
    BY <2>1, <2>2, CountingKept
<1>11. ASSUME NEW f \in Files, Complete(f) PROVE Counting'
  <2>1. f \in Files /\ files[f].state # "none" /\ files'[f].state # "none"
    BY <1>11 DEF Complete, Becomes
  <2>2. settled' = settled /\ \A g \in Files \ {f} : files'[g] = files[g]
    BY <1>11, <2>1 DEF Complete, Becomes
  <2>3. Rows' = Rows
    BY <2>1, <2>2 DEF Rows
  <2>4. \A g \in Hosts : host'[g].linked => host[g].linked /\ (host'[g].at = "counted" => host'[g] = host[g])
    BY <1>11 DEF Complete, Free
  <2> QED
    BY <2>2, <2>3, <2>4, CountingKept
<1>12. ASSUME NEW s \in Scanners, Take(s) PROVE Counting'
  <2>1. UNCHANGED <<settled, files>>
    BY <1>12 DEF Take
  <2>2. \A g \in Hosts : host'[g].linked => host[g].linked /\ (host'[g].at = "counted" => host'[g] = host[g])
    BY <1>12 DEF Take, Free
  <2> QED
    BY <2>1, <2>2, CountingKept
<1>13. ASSUME NEW s \in Scanners, Judge(s) PROVE Counting'
  <2> DEFINE f == scanner[s].file
  <2>1. PICK verdict \in Verdicts(files[f].digest, scanner[s].bytes) :
          Becomes(f, verdict, files[f].digest)
    BY <1>13, Zenon DEF Judge
  <2>2. f \in Files /\ files[f].state # "none" /\ verdict # "none"
    BY <1>13, <2>1 DEF Judge, ScannersOK, Verdicts
  <2>3. files'[f].state # "none" /\ \A g \in Files \ {f} : files'[g] = files[g]
    BY <2>1, <2>2 DEF Becomes
  <2>4. Rows' = Rows
    BY <2>2, <2>3 DEF Rows
  <2>5. settled' = settled /\ host' = host
    BY <1>13 DEF Judge
  <2> QED
    BY <2>4, <2>5, CountingKept
<1>14. ASSUME NEW s \in Scanners, ScanUnlinked(s) PROVE Counting'
  <2>1. UNCHANGED <<settled, files>>
    BY <1>14 DEF ScanUnlinked
  <2>2. \A g \in Hosts : host'[g].linked => host[g].linked /\ (host'[g].at = "counted" => host'[g] = host[g])
    BY <1>14 DEF ScanUnlinked, Free
  <2> QED
    BY <2>1, <2>2, CountingKept
<1>15. ASSUME NEW s \in Scanners, DisconnectScanner(s) PROVE Counting'
  <2>1. UNCHANGED <<settled, files>>
    BY <1>15 DEF DisconnectScanner
  <2>2. \A g \in Hosts : host'[g].linked => host[g].linked /\ (host'[g].at = "counted" => host'[g] = host[g])
    BY <1>15 DEF DisconnectScanner, Free
  <2> QED
    BY <2>1, <2>2, CountingKept
<1>16. ASSUME NEW r \in Records, NEW attachments \in SUBSET Files, Save(r, attachments) PROVE Counting'
  <2>1. UNCHANGED <<settled, files>>
    BY <1>16 DEF Save
  <2>2. \A g \in Hosts : host'[g].linked => host[g].linked /\ (host'[g].at = "counted" => host'[g] = host[g])
    BY <1>16 DEF Save, Free
  <2> QED
    BY <2>1, <2>2, CountingKept
<1>17. ASSUME NEW r \in Records, HandIn(r) PROVE Counting'
  <2>1. UNCHANGED <<settled, files>>
    BY <1>17 DEF HandIn
  <2>2. \A g \in Hosts : host'[g].linked => host[g].linked /\ (host'[g].at = "counted" => host'[g] = host[g])
    BY <1>17 DEF HandIn, Free
  <2> QED
    BY <2>1, <2>2, CountingKept
<1>18. ASSUME NEW r \in Records, Reopen(r) PROVE Counting'
  <2>1. UNCHANGED <<settled, files>>
    BY <1>18 DEF Reopen
  <2>2. \A g \in Hosts : host'[g].linked => host[g].linked /\ (host'[g].at = "counted" => host'[g] = host[g])
    BY <1>18 DEF Reopen, Free
  <2> QED
    BY <2>1, <2>2, CountingKept
<1>19. CASE UNCHANGED vars
  BY <1>19, CountingKept DEF vars
<1> HIDE DEF Inv
<1> QED
  BY <1>1, <1>2, <1>3, <1>4, <1>5, <1>6, <1>7, <1>8, <1>9, <1>10, <1>11, <1>12, <1>13, <1>14, <1>15, <1>16, <1>17, <1>18, <1>19 DEF Next, Command, Scan

LEMMA InvInit == Init => Inv
<1> SUFFICES ASSUME Init PROVE Inv
  OBVIOUS
<1> USE PrivateFileAssumption DEF Init
<1>1. TypeOK
  BY DEF TypeOK, Row, Job, Bytes, NoRow, Free, Resting, Stored
<1>2. RowsOK /\ RecordsOK
  BY DEF RowsOK, RecordsOK, NoRow, Stored
<1>3. HostsOK /\ HostsApart
  BY DEF HostsOK, HostOK, HostsApart, Busy, Reserving, Uploading, Free
<1>4. ScannersOK
  BY DEF ScannersOK, Resting
<1>5. Counting
  <2>1. Rows = {}
    BY DEF Rows, NoRow
  <2>2. Cardinality(Rows) = 0
    BY <2>1, FS_EmptySet
  <2> QED
    BY <2>2 DEF Counting, Free
<1> QED
  BY <1>1, <1>2, <1>3, <1>4, <1>5 DEF Inv

LEMMA InvStep == Inv /\ [Next]_vars => Inv'
BY TypeStep, RowsStep, HostsStep, ApartStep, ScannersStep, RecordsStep, QuotaStep DEF Inv

LEMMA InvHolds == Spec => []Inv
BY InvInit, InvStep, PTL DEF Spec

\* Every variable has its type, and a row has a digest exactly from its upload on.
THEOREM TypeCorrect == Spec => []TypeOK
<1>1. Inv => TypeOK
  BY DEF Inv
<1> QED
  BY <1>1, InvHolds, PTL

\* What is found clean, and what a version attaches, is what the scanner read: the bytes on the
\* volume are those of the row's digest, whatever writer died or was cut off in between.
THEOREM CleanIsScanned == Spec => []CleanBytesWereScanned
<1>1. Inv => CleanBytesWereScanned
  <2> SUFFICES ASSUME Inv PROVE CleanBytesWereScanned
    OBVIOUS
  <2>1. \A f \in Files : files[f].state \in Stored => volume[f] = files[f].digest
    BY DEF Inv, RowsOK
  <2>2. \A f \in Files : files[f].state = "clean" => volume[f] \notin Infected
    BY DEF Inv, RowsOK, Stored
  <2> QED
    BY <2>1, <2>2 DEF CleanBytesWereScanned, Inv, RecordsOK
<1> QED
  BY <1>1, InvHolds, PTL

\* The workspace has no more files than its quota, however many requests are under way at once:
\* one that has counted holds the workspace alone.
THEOREM QuotaIsKept == Spec => []QuotaHolds
<1>1. Inv => QuotaHolds
  BY DEF Inv, Counting, QuotaHolds
<1> QED
  BY <1>1, InvHolds, PTL

\* A row that changes is of a record that may be edited, or waits for its verdict.
LEMMA RowChangesWithItsRecord ==
  ASSUME Inv, [Next]_vars, NEW e \in Files, files'[e] # files[e]
  PROVE  record[files'[e].of].editable \/ files[e].state = "pending_scan"
<1> USE DEF Inv, TypeOK
<1>1. ASSUME NEW h \in Hosts, Insert(h) PROVE record[files'[e].of].editable
  <2>1. host[h].file \in Files /\ record[host[h].record].editable
    BY <1>1 DEF Insert, HostsOK, HostOK, Busy
  <2>2. e = host[h].file /\ files'[e].of = host[h].record
    BY <1>1, <2>1 DEF Insert
  <2> QED
    BY <2>1, <2>2
<1>2. ASSUME NEW h \in Hosts, Quarantine(h) PROVE record[files'[e].of].editable
  <2>1. /\ host[h].file \in Files /\ record[host[h].record].editable
        /\ files[host[h].file].of = host[h].record
    BY <1>2 DEF Quarantine, HostsOK, HostOK, Busy, Uploading
  <2>2. e = host[h].file /\ files'[e].of = files[e].of
    BY <1>2, <2>1 DEF Quarantine, Becomes
  <2> QED
    BY <2>1, <2>2
<1>3. ASSUME NEW f \in Files, Complete(f) PROVE record[files'[e].of].editable
  <2>1. record[files[f].of].editable
    BY <1>3 DEF Complete, Editable
  <2>2. e = f /\ files'[e].of = files[e].of
    BY <1>3 DEF Complete, Becomes
  <2> QED
    BY <2>1, <2>2
<1>4. ASSUME NEW s \in Scanners, Judge(s) PROVE files[e].state = "pending_scan"
  <2>1. scanner[s].file \in Files /\ files[scanner[s].file].state = "pending_scan"
    BY <1>4 DEF Judge, ScannersOK
  <2>2. PICK verdict : Becomes(scanner[s].file, verdict, files[scanner[s].file].digest)
    BY <1>4, Zenon DEF Judge
  <2>3. e = scanner[s].file
    BY <2>1, <2>2 DEF Becomes
  <2> QED
    BY <2>1, <2>3
<1>5. CASE UNCHANGED files
  BY <1>5
<1> HIDE DEF Inv
<1>6. ASSUME NEW h \in Hosts, Command(h) PROVE Insert(h) \/ Quarantine(h) \/ UNCHANGED files
  <2>1. ASSUME NEW f \in Files, NEW r \in Records, Reserve(h, f, r) PROVE UNCHANGED files
    BY <2>1 DEF Reserve
  <2>2. ASSUME NEW f \in Files, NEW bytes \in Contents, Upload(h, f, bytes) PROVE UNCHANGED files
    BY <2>2 DEF Upload
  <2>3. CASE Count(h) \/ Write(h)
    BY <2>3 DEF Count, Write
  <2>4. CASE Compare(h)
    BY <2>4 DEF Compare
  <2>5. CASE Fail(h) \/ Die(h) \/ Disconnect(h)
    BY <2>5 DEF Fail, Die, Disconnect
  <2> QED
    BY <1>6, <2>1, <2>2, <2>3, <2>4, <2>5 DEF Command
<1>7. ASSUME NEW s \in Scanners, Scan(s) \/ DisconnectScanner(s) PROVE Judge(s) \/ UNCHANGED files
  BY <1>7 DEF Scan, Take, ScanUnlinked, DisconnectScanner
<1>8. ASSUME NEW r \in Records, \/ HandIn(r) \/ Reopen(r)
                                \/ \E attachments \in SUBSET Files : Save(r, attachments)
      PROVE  UNCHANGED files
  BY <1>8 DEF HandIn, Reopen, Save
<1> QED
  BY <1>1, <1>2, <1>3, <1>4, <1>5, <1>6, <1>7, <1>8 DEF Next, vars

\* Once a record is handed in nothing is reserved for it and no file of it changes, but for the
\* verdict on a scan that was asked for before.
THEOREM FilesFreezeWithTheRecord == Spec => FrozenWithTheRecord
<1>1. Inv /\ [Next]_vars =>
        [\A f \in Files :
           files'[f] # files[f] /\ ~record[files'[f].of].editable
           => files[f].state = "pending_scan"]_vars
  BY RowChangesWithItsRecord
<1> QED
  BY <1>1, InvHolds, PTL DEF Spec, FrozenWithTheRecord
=============================================================================
