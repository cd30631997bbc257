--------------------------- MODULE RowLocksProofs ---------------------------
(***************************************************************************)
(* One winner, for any number of commands and members: why a whole command *)
(* may be taken as one step.                                               *)
(***************************************************************************)
EXTENDS RowLocks, SequenceTheorems, TLAPS

-----------------------------------------------------------------------------
(***************************************************************************)
(* The inductive invariant.                                                *)
(***************************************************************************)

\* What running transactions hold does not conflict.
LocksExclude ==
  \A c, d \in Commands :
    c # d /\ Running(c) /\ Running(d) =>
      \A i \in 1..done[c], j \in 1..done[d] : ~ Conflict(Locks(c)[i], Locks(d)[j])

\* What a running command has read of its record is still so, since it holds the row.
ReadIsCurrent ==
  \A c \in Commands :
    Running(c) /\ read[c] # Idle =>
      /\ read[c] = version[Record(c)]
      /\ \E i \in 1..done[c] : Locks(c)[i].row = Record(c)

\* A record that a command was committed on has moved on.
CommitsCount ==
  \A c \in Commands :
    outcome[c] = "committed" /\ kind[c] # "upload" => version[Record(c)] >= 1

Inv == TypeOK /\ LocksExclude /\ ReadIsCurrent /\ CommitsCount /\ OneWinner

-----------------------------------------------------------------------------
(***************************************************************************)
(* What the programs of locks hold.                                        *)
(***************************************************************************)

Lock == [row : Rows, mode : {"share", "update"} \cup Advisory, joined : BOOLEAN]

Has(locks, row) ==
  \E i \in 1..Len(locks) : locks[i].row = row /\ locks[i].mode = "update"

LEMMA LockTypes ==
  \A r \in Rows : /\ Share(r) \in Lock /\ Update(r) \in Lock
                  /\ Joined(Share(r)) \in Lock /\ Joined(Update(r)) \in Lock
                  /\ Update(r).row = r /\ Update(r).mode = "update"
                  /\ Joined(Update(r)).row = r /\ Joined(Update(r)).mode = "update"
  BY DEF Share, Update, Joined, Lock

\* The lock on its idempotency key, by the name the adapter of its kind gives it.
KeyLock(c) == IF kind[c] \in {"challenge", "proposal"} THEN Prefixed(c) ELSE Separated(c)

LEMMA KeyLockTypes ==
  ASSUME NEW c \in Commands
  PROVE  /\ Prefixed(c) \in Lock /\ Separated(c) \in Lock
         /\ KeyLock(c).row = Key[c] /\ KeyLock(c).mode \in Advisory
  BY DEF Prefixed, Separated, KeyLock, Lock, Advisory, Rows, Keys

\* Of two sequences of locks, one after the other.
LEMMA Concat ==
  ASSUME NEW s \in Seq(Lock), NEW t \in Seq(Lock)
  PROVE  /\ s \o t \in Seq(Lock) /\ Len(s) \in Nat /\ Len(t) \in Nat
         /\ Len(s \o t) = Len(s) + Len(t)
         /\ \A i \in 1..Len(s) : i \in 1..Len(s \o t) /\ (s \o t)[i] = s[i]
         /\ \A i \in 1..Len(t) : Len(s) + i \in 1..Len(s \o t) /\ (s \o t)[Len(s) + i] = t[i]
<1>1. Len(s) \in Nat /\ Len(t) \in Nat
  BY LenProperties
<1>2. QED
  BY <1>1, ConcatProperties

\* A lock is kept when others are put before or after it.
LEMMA HasInEither ==
  ASSUME NEW s \in Seq(Lock), NEW t \in Seq(Lock), NEW row, Has(s, row) \/ Has(t, row)
  PROVE  Has(s \o t, row)
<1>1. /\ \A i \in 1..Len(s) : i \in 1..Len(s \o t) /\ (s \o t)[i] = s[i]
      /\ \A i \in 1..Len(t) : Len(s) + i \in 1..Len(s \o t) /\ (s \o t)[Len(s) + i] = t[i]
  BY Concat
<1>2. CASE Has(s, row)
  BY <1>1, <1>2 DEF Has
<1>3. CASE Has(t, row)
  <2>1. PICK i \in 1..Len(t) : t[i].row = row /\ t[i].mode = "update"
    BY <1>3 DEF Has
  <2>2. QED
    BY <1>1, <2>1 DEF Has
<1>4. QED
  BY <1>2, <1>3

\* A lock that is asked for last stands at the end, and the others where they stood.
LEMMA WithLast ==
  ASSUME NEW s \in Seq(Lock), NEW last \in Lock
  PROVE  /\ s \o <<last>> \in Seq(Lock)
         /\ Len(s) \in Nat /\ Len(s \o <<last>>) = Len(s) + 1
         /\ (s \o <<last>>)[Len(s) + 1] = last
         /\ \A i \in 1..Len(s) : (s \o <<last>>)[i] = s[i]
<1>1. <<last>> \in Seq(Lock) /\ Len(<<last>>) = 1 /\ <<last>>[1] = last
  OBVIOUS
<1>2. Len(s) \in Nat
  BY LenProperties
<1>3. QED
  BY <1>1, <1>2, ConcatProperties

LEMMA HasWithLast ==
  ASSUME NEW s \in Seq(Lock), NEW last \in Lock
  PROVE  /\ \A row : Has(s, row) => Has(s \o <<last>>, row)
         /\ last.mode = "update" => Has(s \o <<last>>, last.row)
<1>1. /\ Len(s) \in Nat /\ Len(s \o <<last>>) = Len(s) + 1
      /\ (s \o <<last>>)[Len(s) + 1] = last
      /\ \A i \in 1..Len(s) : (s \o <<last>>)[i] = s[i]
  BY WithLast
<1>2. Len(s) + 1 \in 1..Len(s \o <<last>>) /\ 1..Len(s) \subseteq 1..Len(s \o <<last>>)
  BY <1>1
<1>3. QED
  BY <1>1, <1>2 DEF Has

LEMMA Parts ==
  ASSUME NEW c \in Commands
  PROVE  /\ SolverAccess(c) \in Seq(Lock)
         /\ ReadTeam \in Seq(Lock) /\ \E i \in 1..Len(ReadTeam) : ReadTeam[i].row = "team"
         /\ SolverAccess(c) \o ReadTeam \o TeamCommand \in Seq(Lock)
         /\ Has(SolverAccess(c) \o ReadTeam \o TeamCommand, "team")
<1>1. Actor[c] \in Rows /\ {"workspace", "team"} \subseteq Rows
  BY RowLocksAssumption DEF Rows
<1>2. SolverAccess(c) \in Seq(Lock) /\ TeamCommand \in Seq(Lock)
  BY <1>1, LockTypes DEF SolverAccess, TeamCommand
<1>3. [i \in DOMAIN Roster |-> Share(Roster[i])] \in Seq(Lock)
  <2>1. Roster \in Seq(Members)
    BY RowLocksAssumption
  <2>2. DOMAIN Roster = 1..Len(Roster) /\ Len(Roster) \in Nat
        /\ \A i \in 1..Len(Roster) : Roster[i] \in Rows
    BY <2>1, LenProperties, ElementOfSeq DEF Rows
  <2>3. \A i \in 1..Len(Roster) : Share(Roster[i]) \in Lock
    BY <2>2, LockTypes
  <2>4. QED
    BY <2>2, <2>3, SeqDef
<1>4. <<Share("team"), Share("workspace")>> \in Seq(Lock)
  BY <1>1, LockTypes
<1>5. ReadTeam \in Seq(Lock) /\ 1 \in 1..Len(ReadTeam) /\ ReadTeam[1].row = "team"
  <2>1. /\ 1 \in 1..Len(<<Share("team"), Share("workspace")>>)
        /\ <<Share("team"), Share("workspace")>>[1].row = "team"
    BY DEF Share
  <2>2. QED
    BY <1>3, <1>4, <2>1, Concat DEF ReadTeam
<1>6. Has(TeamCommand, "team")
  <2>1. TeamCommand[1] = Update("team") /\ Len(TeamCommand) = 2
    BY DEF TeamCommand
  <2>2. QED
    BY <2>1, <1>1, LockTypes DEF Has
<1>7. SolverAccess(c) \o ReadTeam \in Seq(Lock)
  BY <1>2, <1>5, ConcatProperties
<1>8. SolverAccess(c) \o ReadTeam \o TeamCommand \in Seq(Lock)
  BY <1>2, <1>7, ConcatProperties
<1>9. Has(SolverAccess(c) \o ReadTeam \o TeamCommand, "team")
  BY <1>2, <1>6, <1>7, HasInEither
<1>10. QED
  BY <1>2, <1>5, <1>8, <1>9

\* The lock on the key is held when a response is looked up, the record when versions are compared.
InOrder(c) ==
  /\ Recalls(c) \in Nat /\ Compares(c) \in Nat
  /\ Recalls(c) <= Compares(c) /\ Compares(c) <= Len(Locks(c))
  /\ \E i \in 1..Recalls(c) : Locks(c)[i] = KeyLock(c)
  /\ \E i \in 1..Compares(c) : Locks(c)[i].row = Record(c)

\* Whatever a command writes it has locked for update.
WritesLocked(c) == \A written \in Writes(c) : \A row \in written : Has(Locks(c), row)

Coherent(c) == Locks(c) \in Seq(Lock) /\ InOrder(c) /\ WritesLocked(c)

LEMMA RowsOfCommand ==
  ASSUME NEW c \in Commands
  PROVE  {"organization", "challenge", "workspace", "team", "proposal", "verification", "request", Target[c]}
           \subseteq Rows
  BY RowLocksAssumption DEF Rows

LEMMA OfChallenge ==
  ASSUME NEW c \in Commands, kind[c] = "challenge" PROVE Coherent(c)
<1>1. Locks(c) = ChallengeLocks(c)
  BY DEF Locks, Program, AllKinds
<1>2. /\ Len(ChallengeLocks(c)) = 4
      /\ ChallengeLocks(c)[3] = Prefixed(c) /\ ChallengeLocks(c)[4] = Joined(Update("challenge"))
      /\ ChallengeLocks(c) \in Seq(Lock)
  <2>1. /\ Share("organization") \in Lock /\ Joined(Share("challenge")) \in Lock
        /\ Prefixed(c) \in Lock /\ Joined(Update("challenge")) \in Lock
    BY RowsOfCommand, LockTypes, KeyLockTypes
  <2>2. QED
    BY <2>1 DEF ChallengeLocks
<1>3. Record(c) = "challenge" /\ KeyLock(c) = Prefixed(c) /\ Writes(c) = {{"challenge"}}
  BY DEF Record, KeyLock, Writes
<1>4. Recalls(c) = 3 /\ Compares(c) = 4
  BY <1>1, <1>2 DEF Recalls, Compares
<1>5. Joined(Update("challenge")).row = "challenge" /\ Joined(Update("challenge")).mode = "update"
  BY RowsOfCommand, LockTypes
<1>6. InOrder(c)
  BY <1>1, <1>2, <1>3, <1>4, <1>5 DEF InOrder
<1>7. WritesLocked(c)
  BY <1>1, <1>2, <1>3, <1>5 DEF WritesLocked, Has
<1>8. QED
  BY <1>1, <1>2, <1>6, <1>7 DEF Coherent

\* Commands that look at the team in the middle of their locks.
SeesTeam(c) == \E i \in 1..Len(Locks(c)) : Locks(c)[i].row = "team"

LEMMA OfProposal ==
  ASSUME NEW c \in Commands, kind[c] = "proposal" PROVE Coherent(c) /\ SeesTeam(c)
<1> DEFINE s == SolverAccess(c)
           p == <<Prefixed(c), Update("proposal")>>
           t == s \o p
           u == t \o ReadTeam
<1>1. Locks(c) = u
  BY DEF Locks, Program, AllKinds, ProposalLocks
<1>2. s \in Seq(Lock) /\ ReadTeam \in Seq(Lock)
  BY Parts
<1>3. /\ p \in Seq(Lock) /\ Len(p) = 2 /\ p[1] = Prefixed(c) /\ p[2] = Update("proposal")
      /\ Update("proposal").row = "proposal" /\ Update("proposal").mode = "update"
  BY KeyLockTypes, RowsOfCommand, LockTypes
<1> HIDE DEF s, p
<1>4. /\ t \in Seq(Lock) /\ Len(s) + 1 \in 1..Len(t) /\ t[Len(s) + 1] = Prefixed(c)
      /\ Len(s) + 2 \in 1..Len(t) /\ t[Len(s) + 2] = Update("proposal")
  <2>1. /\ t \in Seq(Lock)
        /\ \A i \in 1..Len(p) : Len(s) + i \in 1..Len(t) /\ t[Len(s) + i] = p[i]
    BY <1>2, <1>3, Concat
  <2>2. 1 \in 1..Len(p) /\ 2 \in 1..Len(p)
    BY <1>3
  <2>3. /\ Len(s) + 1 \in 1..Len(t) /\ t[Len(s) + 1] = p[1]
        /\ Len(s) + 2 \in 1..Len(t) /\ t[Len(s) + 2] = p[2]
    <3> HIDE DEF t
    <3>1. QED
      BY <2>1, <2>2
  <2>4. QED
    BY <1>3, <2>1, <2>3
<1> HIDE DEF t
<1>5. /\ u \in Seq(Lock) /\ Len(u) \in Nat /\ Len(s) + 1 \in 1..Len(u) /\ u[Len(s) + 1] = Prefixed(c)
      /\ Len(s) + 2 \in 1..Len(u) /\ u[Len(s) + 2] = Update("proposal")
      /\ \E i \in 1..Len(u) : u[i].row = "team"
  <2>1. /\ u \in Seq(Lock) /\ \A i \in 1..Len(t) : i \in 1..Len(u) /\ u[i] = t[i]
        /\ \A i \in 1..Len(ReadTeam) : Len(t) + i \in 1..Len(u) /\ u[Len(t) + i] = ReadTeam[i]
    BY <1>2, <1>4, Concat
  <2>2. Len(u) \in Nat
    BY <2>1, LenProperties
  <2>3. QED
    BY <1>4, <2>1, <2>2, Parts
<1> HIDE DEF u
<1>6. Record(c) = "proposal" /\ KeyLock(c) = Prefixed(c) /\ Writes(c) = {{"proposal"}}
  BY DEF Record, KeyLock, Writes
<1>7. Recalls(c) = Len(u) /\ Compares(c) = Len(u)
  BY <1>1 DEF Recalls, Compares
<1>8. InOrder(c)
  BY <1>1, <1>3, <1>5, <1>6, <1>7 DEF InOrder
<1>9. WritesLocked(c)
  BY <1>1, <1>3, <1>5, <1>6 DEF WritesLocked, Has
<1>10. QED
  BY <1>1, <1>5, <1>8, <1>9 DEF Coherent, SeesTeam

LEMMA OfUpload ==
  ASSUME NEW c \in Commands, kind[c] = "upload" PROVE Coherent(c) /\ SeesTeam(c)
<1> DEFINE s == SolverAccess(c)
           t == s \o <<Update("proposal")>>
           r == t \o ReadTeam
           u == r \o <<Separated(c)>>
           v == u \o <<Update("workspace")>>
<1>1. Locks(c) = v
  BY DEF Locks, Program, AllKinds, UploadLocks
<1>2. /\ s \in Seq(Lock) /\ ReadTeam \in Seq(Lock) /\ Separated(c) \in Lock
      /\ Update("proposal") \in Lock /\ Update("workspace") \in Lock
  BY Parts, KeyLockTypes, RowsOfCommand, LockTypes
<1> HIDE DEF s
<1>3. t \in Seq(Lock) /\ Len(t) \in 1..Len(t) /\ t[Len(t)] = Update("proposal")
  BY <1>2, WithLast
<1> HIDE DEF t
<1>4. /\ r \in Seq(Lock) /\ Len(t) \in 1..Len(r) /\ r[Len(t)] = Update("proposal")
      /\ \E i \in 1..Len(r) : r[i].row = "team"
  <2>1. /\ r \in Seq(Lock) /\ \A i \in 1..Len(t) : i \in 1..Len(r) /\ r[i] = t[i]
        /\ \A i \in 1..Len(ReadTeam) : Len(t) + i \in 1..Len(r) /\ r[Len(t) + i] = ReadTeam[i]
    BY <1>2, <1>3, Concat
  <2>2. QED
    BY <1>3, <2>1, Parts
<1> HIDE DEF r
<1>5. /\ u \in Seq(Lock) /\ Len(u) \in 1..Len(u) /\ u[Len(u)] = Separated(c)
      /\ Len(t) \in 1..Len(u) /\ u[Len(t)] = Update("proposal")
      /\ \E i \in 1..Len(u) : u[i].row = "team"
  <2>1. /\ u \in Seq(Lock) /\ Len(r) \in Nat /\ Len(u) = Len(r) + 1 /\ u[Len(r) + 1] = Separated(c)
        /\ \A i \in 1..Len(r) : u[i] = r[i]
    BY <1>2, <1>4, WithLast
  <2>2. QED
    BY <1>4, <2>1
<1> HIDE DEF u
<1>6. /\ v \in Seq(Lock) /\ Len(v) = Len(u) + 1 /\ Len(u) \in Nat
      /\ \A i \in 1..Len(u) : v[i] = u[i]
  BY <1>2, <1>5, WithLast
<1> HIDE DEF v
<1>7. Record(c) = "proposal" /\ KeyLock(c) = Separated(c) /\ Writes(c) = {{}}
  BY DEF Record, KeyLock, Writes
<1>8. Recalls(c) = Len(u) /\ Compares(c) = Len(u)
  BY <1>1, <1>6 DEF Recalls, Compares
<1>9. Update("proposal").row = "proposal"
  BY DEF Update
<1>10. InOrder(c)
  BY <1>1, <1>5, <1>6, <1>7, <1>8, <1>9 DEF InOrder
<1>11. SeesTeam(c)
  BY <1>1, <1>5, <1>6 DEF SeesTeam
<1>12. QED
  BY <1>1, <1>6, <1>7, <1>10, <1>11 DEF Coherent, WritesLocked

LEMMA OfVerify ==
  ASSUME NEW c \in Commands, kind[c] = "verify" PROVE Coherent(c)
<1> DEFINE s == SolverAccess(c)
           t == s \o <<Separated(c)>>
           u == t \o <<Update("verification")>>
<1>1. Locks(c) = u
  BY DEF Locks, Program, AllKinds, VerifyLocks
<1>2. /\ s \in Seq(Lock) /\ Separated(c) \in Lock /\ Update("verification") \in Lock
      /\ Update("verification").row = "verification" /\ Update("verification").mode = "update"
  BY Parts, KeyLockTypes, RowsOfCommand, LockTypes
<1> HIDE DEF s
<1>3. t \in Seq(Lock) /\ Len(t) \in 1..Len(t) /\ t[Len(t)] = Separated(c)
  BY <1>2, WithLast
<1> HIDE DEF t
<1>4. /\ u \in Seq(Lock) /\ Len(t) \in Nat /\ Len(u) = Len(t) + 1 /\ u[Len(u)] = Update("verification")
      /\ u[Len(t)] = Separated(c)
  BY <1>2, <1>3, WithLast
<1> HIDE DEF u
<1>5. Record(c) = "verification" /\ KeyLock(c) = Separated(c) /\ Writes(c) = {{"verification"}}
  BY DEF Record, KeyLock, Writes
<1>6. Recalls(c) = Len(t) /\ Compares(c) = Len(u)
  BY <1>1, <1>4 DEF Recalls, Compares
<1>7. InOrder(c)
  BY <1>1, <1>2, <1>3, <1>4, <1>5, <1>6 DEF InOrder
<1>8. WritesLocked(c)
  BY <1>1, <1>2, <1>4, <1>5 DEF WritesLocked, Has
<1>9. QED
  BY <1>1, <1>4, <1>7, <1>8 DEF Coherent

\* The locks of the commands on a team, up to the key.
LEMMA OfTeam ==
  ASSUME NEW c \in Commands
  PROVE  /\ TeamLocks(c) \in Seq(Lock) /\ Has(TeamLocks(c), "team")
         /\ Len(TeamLocks(c)) \in Nat \ {0} /\ TeamLocks(c)[Len(TeamLocks(c))] = Separated(c)
<1> DEFINE s == SolverAccess(c) \o ReadTeam \o TeamCommand
<1>1. TeamLocks(c) = s \o <<Separated(c)>>
  BY DEF TeamLocks
<1>2. s \in Seq(Lock) /\ Has(s, "team") /\ Separated(c) \in Lock
  BY Parts, KeyLockTypes
<1> HIDE DEF s
<1>3. QED
  BY <1>1, <1>2, WithLast, HasWithLast

LEMMA OfPolicy ==
  ASSUME NEW c \in Commands, kind[c] \in {"policy", "archive"} PROVE Coherent(c)
<1>1. Locks(c) = TeamLocks(c)
  BY DEF Locks, Program, AllKinds
<1>2. Record(c) = "team" /\ KeyLock(c) = Separated(c) /\ Writes(c) = {{"team"}}
  BY DEF Record, KeyLock, Writes
<1>3. Recalls(c) = Len(TeamLocks(c)) /\ Compares(c) = Len(TeamLocks(c))
  BY <1>1 DEF Recalls, Compares
<1>4. PICK i \in 1..Len(TeamLocks(c)) : TeamLocks(c)[i].row = "team"
  BY OfTeam DEF Has
<1>5. InOrder(c)
  BY <1>1, <1>2, <1>3, <1>4, OfTeam DEF InOrder
<1>6. QED
  BY <1>1, <1>2, <1>5, OfTeam DEF Coherent, WritesLocked

\* A member or a request is locked when the response has been looked up.
LEMMA OfTeamAndRow ==
  ASSUME NEW c \in Commands, kind[c] \in {"role", "decide"},
         Locks(c) = TeamLocks(c) \o <<Update(Record(c))>>, Record(c) \in Rows
  PROVE  Locks(c) \in Seq(Lock) /\ InOrder(c) /\ Has(Locks(c), "team") /\ Has(Locks(c), Record(c))
<1> DEFINE t == TeamLocks(c)
           u == t \o <<Update(Record(c))>>
<1>1. /\ t \in Seq(Lock) /\ Has(t, "team") /\ Len(t) \in Nat \ {0} /\ t[Len(t)] = Separated(c)
      /\ Update(Record(c)) \in Lock /\ Update(Record(c)).row = Record(c)
      /\ Update(Record(c)).mode = "update"
  BY OfTeam, LockTypes
<1>2. /\ u \in Seq(Lock) /\ Len(u) = Len(t) + 1 /\ u[Len(t) + 1] = Update(Record(c))
      /\ \A i \in 1..Len(t) : u[i] = t[i]
  <2> HIDE DEF t
  <2>1. QED
    BY <1>1, WithLast
<1>3. Has(u, "team") /\ Has(u, Record(c))
  <2> HIDE DEF t
  <2>1. QED
    BY <1>1, HasWithLast
<1>4. Recalls(c) = Len(u) - 1 /\ Compares(c) = Len(u) /\ KeyLock(c) = Separated(c)
  BY DEF Recalls, Compares, KeyLock
<1>5. InOrder(c)
  <2>1. Locks(c) = u
    OBVIOUS
  <2> HIDE DEF t, u
  <2>2. Len(t) \in 1..(Len(u) - 1) /\ u[Len(t)] = Separated(c)
    BY <1>1, <1>2
  <2>3. Len(u) \in 1..Len(u) /\ u[Len(u)].row = Record(c) /\ Len(u) \in Nat /\ Len(u) - 1 \in Nat
    BY <1>1, <1>2
  <2>4. /\ Recalls(c) \in Nat /\ Compares(c) \in Nat
        /\ Recalls(c) <= Compares(c) /\ Compares(c) <= Len(Locks(c))
    BY <1>4, <2>1, <2>3
  <2>5. \E i \in 1..Recalls(c) : Locks(c)[i] = KeyLock(c)
    BY <1>4, <2>1, <2>2
  <2>6. \E i \in 1..Compares(c) : Locks(c)[i].row = Record(c)
    BY <1>4, <2>1, <2>3
  <2>7. QED
    BY <2>4, <2>5, <2>6 DEF InOrder
<1>6. QED
  BY <1>2, <1>3, <1>5

LEMMA OfRole ==
  ASSUME NEW c \in Commands, kind[c] = "role" PROVE Coherent(c)
<1>1. Record(c) = Target[c] /\ Writes(c) = {{Target[c], "team"}} /\ Record(c) \in Rows
  BY RowsOfCommand DEF Record, Writes
<1>2. Locks(c) = TeamLocks(c) \o <<Update(Record(c))>>
  BY <1>1 DEF Locks, Program, AllKinds
<1>3. QED
  BY <1>1, <1>2, OfTeamAndRow DEF Coherent, WritesLocked

LEMMA OfDecide ==
  ASSUME NEW c \in Commands, kind[c] = "decide" PROVE Coherent(c)
<1>1. Record(c) = "request" /\ Writes(c) = {{"request"}, {"request", "team"}} /\ Record(c) \in Rows
  BY RowsOfCommand DEF Record, Writes
<1>2. Locks(c) = TeamLocks(c) \o <<Update(Record(c))>>
  BY <1>1 DEF Locks, Program, AllKinds
<1>3. Locks(c) \in Seq(Lock) /\ InOrder(c) /\ Has(Locks(c), "team") /\ Has(Locks(c), "request")
  BY <1>1, <1>2, OfTeamAndRow
<1>4. QED
  BY <1>1, <1>3 DEF Coherent, WritesLocked

LEMMA OfWithdraw ==
  ASSUME NEW c \in Commands, kind[c] = "withdraw" PROVE Coherent(c)
<1> DEFINE t == <<Update("request"), Update("team"), Separated(c)>>
<1>1. Locks(c) = t
  BY DEF Locks, Program, AllKinds
<1>2. Update("request") \in Lock /\ Update("team") \in Lock /\ Separated(c) \in Lock
  BY RowsOfCommand, LockTypes, KeyLockTypes
<1>3. t \in Seq(Lock) /\ Len(t) = 3 /\ t[1] = Update("request") /\ t[3] = Separated(c)
  BY <1>2
<1>4. Record(c) = "request" /\ KeyLock(c) = Separated(c) /\ Writes(c) = {{"request"}}
  BY DEF Record, KeyLock, Writes
<1>5. Recalls(c) = 3 /\ Compares(c) = 3
  BY <1>1, <1>3 DEF Recalls, Compares
<1>6. Update("request").row = "request" /\ Update("request").mode = "update"
  BY DEF Update
<1> HIDE DEF t
<1>7. InOrder(c)
  BY <1>1, <1>3, <1>4, <1>5, <1>6 DEF InOrder
<1>8. WritesLocked(c)
  BY <1>1, <1>3, <1>4, <1>6 DEF WritesLocked, Has
<1>9. QED
  BY <1>1, <1>3, <1>7, <1>8 DEF Coherent

LEMMA Programs == ASSUME NEW c \in Commands, kind[c] \in Kinds PROVE Coherent(c)
<1>1. kind[c] \in AllKinds
  BY RowLocksAssumption
<1>2. QED
  BY <1>1, OfChallenge, OfProposal, OfUpload, OfVerify, OfPolicy, OfRole, OfDecide, OfWithdraw DEF AllKinds

LEMMA WritesAreLocked ==
  ASSUME NEW c \in Commands, kind[c] \in Kinds
  PROVE  /\ Locks(c) \in Seq(Lock)
         /\ \A written \in Writes(c) : \A row \in written : Has(Locks(c), row)
  BY Programs DEF Coherent, WritesLocked

\* Every command but an upload moves its record on, and compares when it has all its locks.
LEMMA RecordIsWritten ==
  ASSUME NEW c \in Commands, kind[c] \in Kinds
  PROVE  /\ Record(c) \in Rows
         /\ kind[c] # "upload" =>
              /\ \A written \in Writes(c) : Record(c) \in written
              /\ Compares(c) = Len(Locks(c))
<1>1. kind[c] \in AllKinds /\ Target[c] \in Members
  BY RowLocksAssumption
<1>2. QED
  BY <1>1 DEF AllKinds, Rows, Record, Writes, Compares

LEMMA RecordsStay ==
  ASSUME UNCHANGED kind, NEW c \in Commands
  PROVE  Record(c)' = Record(c) /\ Locks(c)' = Locks(c)
  BY DEF Record, Locks

-----------------------------------------------------------------------------
(***************************************************************************)
(* The steps.                                                              *)
(***************************************************************************)

LEMMA InitInv == ASSUME Init PROVE Inv
<1>1. \A c \in Commands : Len(Locks(c)) \in Nat
  <2>1. \A c \in Commands : kind[c] \in Kinds
    BY DEF Init
  <2>2. QED
    BY <2>1, WritesAreLocked, LenProperties
<1>2. TypeOK
  BY <1>1 DEF Init, TypeOK, Outcomes, Idle
<1>3. LocksExclude
  BY DEF Init, LocksExclude
<1>4. ReadIsCurrent /\ CommitsCount /\ OneWinner
  BY DEF Init, ReadIsCurrent, CommitsCount, OneWinner, Idle
<1>5. QED
  BY <1>2, <1>3, <1>4 DEF Inv

\* The row a command asks for next.
LEMMA WantedRow ==
  ASSUME TypeOK, NEW c \in Commands, Wants(c)
  PROVE  /\ Locks(c) \in Seq(Lock) /\ done[c] + 1 \in 1..Len(Locks(c))
         /\ Wanted(c).row \in Rows
<1>1. Locks(c) \in Seq(Lock) /\ Len(Locks(c)) \in Nat
  BY WritesAreLocked, LenProperties DEF TypeOK
<1>2. done[c] + 1 \in 1..Len(Locks(c))
  BY <1>1 DEF TypeOK, Wants
<1>3. Wanted(c) \in Lock
  BY <1>1, <1>2, ElementOfSeq DEF Wanted
<1>4. QED
  BY <1>1, <1>2, <1>3 DEF Lock

LEMMA WaitInv == ASSUME Inv, NEW c \in Commands, Wait(c) PROVE Inv'
<1>1. UNCHANGED <<kind, done, read, outcome, version>>
  BY DEF Wait
<1>2. \A d \in Commands : Record(d)' = Record(d) /\ Locks(d)' = Locks(d)
  BY <1>1, RecordsStay
<1>3. version[Wanted(c).row] \in Nat
  BY WantedRow DEF Inv, Wait, TypeOK
<1>4. TypeOK'
  BY <1>1, <1>2, <1>3 DEF Inv, Wait, TypeOK
<1>5. LocksExclude'
  BY <1>1, <1>2 DEF Inv, LocksExclude, Running
<1>6. ReadIsCurrent' /\ CommitsCount' /\ OneWinner'
  BY <1>1, <1>2 DEF Inv, ReadIsCurrent, CommitsCount, OneWinner, Running
<1>7. QED
  BY <1>4, <1>5, <1>6 DEF Inv

\* Whoever is turned away holds nothing any more, and nothing else changes.
LEMMA AnsweredInv ==
  ASSUME Inv, NEW c \in Commands, NEW what \in Outcomes \ {"none", "committed"},
         Answer(c, what), UNCHANGED <<kind, done, seen, read, version>>
  PROVE  Inv'
<1>1. \A d \in Commands : Record(d)' = Record(d) /\ Locks(d)' = Locks(d)
  BY RecordsStay
<1>2. outcome' = [outcome EXCEPT ![c] = what] /\ outcome \in [Commands -> Outcomes]
  BY DEF Answer, Inv, TypeOK
<1>3. \A d \in Commands : /\ outcome'[d] = "none" => outcome[d] = "none"
                          /\ outcome'[d] = "committed" => outcome[d] = "committed"
  BY <1>2
<1>4. TypeOK'
  BY <1>1, <1>2 DEF Inv, TypeOK, Outcomes
<1>5. LocksExclude'
  BY <1>1, <1>3 DEF Inv, LocksExclude, Running
<1>6. ReadIsCurrent' /\ CommitsCount' /\ OneWinner'
  BY <1>1, <1>3 DEF Inv, ReadIsCurrent, CommitsCount, OneWinner, Running
<1>7. QED
  BY <1>4, <1>5, <1>6 DEF Inv

LEMMA GrantInv == ASSUME Inv, NEW c \in Commands, Grant(c) PROVE Inv'
<1>1. /\ UNCHANGED <<kind, outcome, version>>
      /\ done' = [done EXCEPT ![c] = done[c] + 1]
      /\ \E what \in {version[Wanted(c).row], Idle} : seen' = [seen EXCEPT ![c] = what]
      /\ read' = [read EXCEPT ![c] = Reads(c)]
      /\ Wants(c)
  BY DEF Grant, Free
<1>2. \A d \in Commands : Record(d)' = Record(d) /\ Locks(d)' = Locks(d)
  BY <1>1, RecordsStay
<1>3. /\ done \in [Commands -> Nat] /\ read \in [Commands -> Nat \cup {Idle}]
      /\ done[c] + 1 \in 1..Len(Locks(c))
  BY <1>1, WantedRow DEF Inv, TypeOK
<1>4. TypeOK'
  <2>1. version[Record(c)] \in Nat
    BY RecordIsWritten DEF Inv, TypeOK
  <2>2. Reads(c) \in Nat \cup {Idle}
    BY <1>3, <2>1 DEF Reads
  <2>3. \A d \in Commands : done'[d] <= Len(Locks(d))'
    <3>1. Len(Locks(c)) \in Nat
      BY WritesAreLocked, LenProperties DEF Inv, TypeOK
    <3>2. QED
      BY <1>1, <1>2, <1>3, <3>1 DEF Inv, TypeOK
  <2>4. version[Wanted(c).row] \in Nat
    BY <1>1, WantedRow DEF Inv, TypeOK
  <2>5. QED
    BY <1>1, <2>2, <2>3, <2>4 DEF Inv, TypeOK
<1>5. LocksExclude'
  <2>1. \A d \in Commands : c # d /\ Running(d) =>
          \A j \in 1..done[d] : ~ Conflict(Locks(c)[done[c] + 1], Locks(d)[j])
    BY DEF Grant, Free, Blocks, Wanted
  <2>2. \A d \in Commands : \A i : i \in 1..done'[d] =>
          i \in 1..done[d] \/ (d = c /\ i = done[c] + 1)
    BY <1>1, <1>3
  <2>3. \A l, m : Conflict(l, m) => Conflict(m, l)
    BY DEF Conflict
  <2>4. SUFFICES ASSUME NEW d \in Commands, NEW e \in Commands, d # e, Running(d)', Running(e)',
                        NEW i \in 1..done'[d], NEW j \in 1..done'[e]
                 PROVE  ~ Conflict(Locks(d)[i], Locks(e)[j])
    BY <1>2 DEF LocksExclude
  <2>5. Running(d) /\ Running(e)
    BY <1>1, <2>4 DEF Running
  <2>6. CASE i \in 1..done[d] /\ j \in 1..done[e]
    BY <2>4, <2>5, <2>6 DEF Inv, LocksExclude
  <2>7. CASE d = c /\ i = done[c] + 1
    <3>1. j \in 1..done[e]
      BY <2>2, <2>4, <2>7
    <3>2. QED
      BY <2>1, <2>4, <2>5, <2>7, <3>1
  <2>8. CASE e = c /\ j = done[c] + 1
    <3>1. i \in 1..done[d]
      BY <2>2, <2>4, <2>8
    <3>2. QED
      BY <2>1, <2>3, <2>4, <2>5, <2>8, <3>1
  <2>9. QED
    BY <2>2, <2>6, <2>7, <2>8
<1>6. ReadIsCurrent'
  <2>1. SUFFICES ASSUME NEW d \in Commands, Running(d), read'[d] # Idle
                 PROVE  /\ read'[d] = version[Record(d)]
                        /\ \E i \in 1..done'[d] : Locks(d)[i].row = Record(d)
    BY <1>1, <1>2 DEF ReadIsCurrent, Running
  <2>2. CASE d = c /\ Wanted(c).row = Record(c)
    <3>1. read'[d] = version[Record(d)]
      BY <1>1, <1>3, <2>2 DEF Reads
    <3>2. done[c] + 1 \in 1..done'[d] /\ Locks(d)[done[c] + 1].row = Record(d)
      BY <1>1, <1>3, <2>2 DEF Wanted
    <3>3. QED
      BY <3>1, <3>2
  <2>3. CASE ~ (d = c /\ Wanted(c).row = Record(c))
    <3>1. read'[d] = read[d]
      BY <1>1, <1>3, <2>3 DEF Reads
    <3>2. PICK i \in 1..done[d] : Locks(d)[i].row = Record(d)
      BY <2>1, <3>1 DEF Inv, ReadIsCurrent
    <3>3. i \in 1..done'[d]
      BY <1>1, <1>3, <3>2
    <3>4. QED
      BY <2>1, <3>1, <3>2, <3>3 DEF Inv, ReadIsCurrent
  <2>4. QED
    BY <2>2, <2>3
<1>7. CommitsCount' /\ OneWinner'
  BY <1>1, <1>2 DEF Inv, CommitsCount, OneWinner
<1>8. QED
  BY <1>4, <1>5, <1>6, <1>7 DEF Inv

\* What is committed was locked against every other command, so nobody's reading goes stale by it.
LEMMA CommitInv == ASSUME Inv, NEW c \in Commands, Commit(c) PROVE Inv'
<1>1. /\ UNCHANGED <<kind, done, seen, read>>
      /\ outcome' = [outcome EXCEPT ![c] = "committed"]
      /\ Running(c) /\ done[c] = Len(Locks(c)) /\ ~ Stale(c)
  BY DEF Commit, Finished, Answer
<1>2. PICK written \in Writes(c) :
        version' = [r \in Rows |-> IF r \in written THEN version[r] + 1 ELSE version[r]]
  BY DEF Commit
<1>3. \A d \in Commands : Record(d)' = Record(d) /\ Locks(d)' = Locks(d)
  BY <1>1, RecordsStay
<1>4. /\ version \in [Rows -> Nat] /\ outcome \in [Commands -> Outcomes]
      /\ \A d \in Commands : kind[d] \in Kinds
  BY DEF Inv, TypeOK
<1>5. \A d \in Commands : /\ outcome'[d] = "none" => outcome[d] = "none" /\ d # c
                          /\ outcome'[d] = "committed" => d = c \/ outcome[d] = "committed"
  BY <1>1, <1>4
<1>6. TypeOK'
  <2>1. version' \in [Rows -> Nat]
    BY <1>2, <1>4
  <2>2. QED
    BY <1>1, <1>3, <2>1 DEF Inv, TypeOK, Outcomes
<1>7. LocksExclude'
  BY <1>1, <1>3, <1>5 DEF Inv, LocksExclude, Running
<1>8. ReadIsCurrent'
  <2>1. SUFFICES ASSUME NEW d \in Commands, outcome[d] = "none", d # c, read[d] # Idle
                 PROVE  /\ read[d] = version'[Record(d)]
                        /\ \E i \in 1..done[d] : Locks(d)[i].row = Record(d)
    BY <1>1, <1>3, <1>5 DEF ReadIsCurrent, Running
  <2>2. PICK i \in 1..done[d] : Locks(d)[i].row = Record(d)
    BY <2>1 DEF Inv, ReadIsCurrent, Running
  <2>3. Record(d) \notin written
    <3>1. SUFFICES ASSUME Record(d) \in written PROVE FALSE
      OBVIOUS
    <3>2. PICK j \in 1..Len(Locks(c)) : Locks(c)[j].row = Record(d) /\ Locks(c)[j].mode = "update"
      BY <1>4, <3>1, WritesAreLocked DEF Has
    <3>3. Conflict(Locks(c)[j], Locks(d)[i])
      BY <2>2, <3>2 DEF Conflict
    <3>4. QED
      BY <1>1, <2>1, <3>3 DEF Inv, LocksExclude, Running
  <2>4. version'[Record(d)] = version[Record(d)]
    BY <1>2, <1>4, <2>3, RecordIsWritten
  <2>5. QED
    BY <2>1, <2>2, <2>4 DEF Inv, ReadIsCurrent, Running
<1>9. \A r \in Rows : version'[r] >= version[r]
  BY <1>2, <1>4
<1>10. CommitsCount'
  <2>1. SUFFICES ASSUME NEW d \in Commands, outcome'[d] = "committed", kind[d] # "upload"
                 PROVE  version'[Record(d)] >= 1
    BY <1>1, <1>3 DEF CommitsCount
  <2>2. CASE d = c
    BY <1>2, <1>4, <2>1, <2>2, RecordIsWritten
  <2>3. CASE outcome[d] = "committed"
    <3>1. version[Record(d)] >= 1 /\ Record(d) \in Rows
      BY <1>4, <2>1, <2>3, RecordIsWritten DEF Inv, CommitsCount
    <3>2. QED
      BY <1>4, <1>6, <1>9, <3>1 DEF TypeOK
  <2>4. QED
    BY <1>5, <2>1, <2>2, <2>3
<1>11. OneWinner'
  <2>1. ASSUME kind[c] # "upload" PROVE version[Record(c)] = 0
    <3>1. read[c] = 0
      BY <1>1, <1>4, <2>1, RecordIsWritten, WritesAreLocked, LenProperties DEF Stale
    <3>2. QED
      BY <1>1, <3>1 DEF Inv, ReadIsCurrent, Idle
  <2>2. \A d \in Commands : outcome[d] = "committed" /\ kind[d] # "upload" => version[Record(d)] # 0
    <3>1. \A d \in Commands : Record(d) \in Rows
      BY <1>4, RecordIsWritten
    <3>2. QED
      BY <1>4, <3>1 DEF Inv, CommitsCount
  <2>3. QED
    BY <1>1, <1>3, <1>5, <2>1, <2>2 DEF Inv, OneWinner
<1>12. QED
  BY <1>6, <1>7, <1>8, <1>10, <1>11 DEF Inv

-----------------------------------------------------------------------------
(***************************************************************************)
(* The theorems.                                                           *)
(***************************************************************************)

(***************************************************************************)
(* The inductive invariant holds throughout.                               *)
(***************************************************************************)
THEOREM Invariance == Spec => []Inv
<1>1. Init => Inv
  BY InitInv
<1>2. Inv /\ [Next]_vars => Inv'
  <2>1. ASSUME Inv, NEW c \in Commands, Step(c) PROVE Inv'
    <3>1. CASE Wait(c)
      BY <2>1, <3>1, WaitInv
    <3>2. CASE Grant(c)
      BY <2>1, <3>2, GrantInv
    <3>3. CASE Miss(c)
      BY <2>1, <3>3, AnsweredInv DEF Miss, Outcomes
    <3>4. CASE Commit(c)
      BY <2>1, <3>4, CommitInv
    <3>5. CASE Refuse(c)
      BY <2>1, <3>5, AnsweredInv DEF Refuse, Outcomes
    <3>6. CASE Abort(c)
      BY <2>1, <3>6, AnsweredInv DEF Abort, Outcomes
    <3>7. CASE Recall(c)
      BY <2>1, <3>7, AnsweredInv DEF Recall, Outcomes
    <3>8. CASE Collide(c)
      BY <2>1, <3>8, AnsweredInv DEF Collide, Outcomes
    <3>9. CASE Deny(c)
      BY <2>1, <3>9, AnsweredInv DEF Deny, Outcomes
    <3>10. QED
      BY <2>1, <3>1, <3>2, <3>3, <3>4, <3>5, <3>6, <3>7, <3>8, <3>9 DEF Step
  <2>2. ASSUME Inv, UNCHANGED vars PROVE Inv'
    <3>1. \A d \in Commands : Record(d)' = Record(d) /\ Locks(d)' = Locks(d)
      BY <2>2, RecordsStay DEF vars
    <3>2. TypeOK' /\ LocksExclude'
      BY <2>2, <3>1 DEF vars, Inv, TypeOK, LocksExclude, Running
    <3>3. ReadIsCurrent' /\ CommitsCount' /\ OneWinner'
      BY <2>2, <3>1 DEF vars, Inv, ReadIsCurrent, CommitsCount, OneWinner, Running
    <3>4. QED
      BY <3>2, <3>3 DEF Inv
  <2>3. QED
    BY <2>1, <2>2 DEF Next
<1>3. QED
  BY <1>1, <1>2, PTL DEF Spec

(***************************************************************************)
(* Every variable keeps its type, however many commands are in flight.     *)
(***************************************************************************)
THEOREM TypeCorrect == Spec => []TypeOK
<1>1. Inv => TypeOK
  BY DEF Inv
<1>2. QED
  BY <1>1, Invariance, PTL

(***************************************************************************)
(* Of the commands that were sent with one version of a record at most one *)
(* is committed: lock_version, compared under the locks that app.ts and    *)
(* the adapters take, is a compare-and-set.                                *)
(***************************************************************************)
THEOREM OneCommandWins == Spec => []OneWinner
<1>1. Inv => OneWinner
  BY DEF Inv
<1>2. QED
  BY <1>1, Invariance, PTL

-----------------------------------------------------------------------------
(***************************************************************************)
(* Requests that are sent again.                                           *)
(***************************************************************************)

\* Who holds the lock on its record has read it.
RecordIsRead ==
  \A c \in Commands :
    Running(c) /\ (\E i \in 1..done[c] : Locks(c)[i].row = Record(c)) => read[c] # Idle

\* Who has looked for a stored response in vain keeps others from storing one by the same name.
KeyIsFree ==
  \A c, d \in Commands :
    /\ Running(c) /\ done[c] >= Recalls(c)
    /\ outcome[d] = "committed" /\ KeyLock(d) = KeyLock(c)
    => FALSE

\* A command is refused only when its record has moved on.
StaleMovedOn == \A c \in Commands : outcome[c] = "stale" => version[Record(c)] >= 1

KeyInv == RecordIsRead /\ KeyIsFree /\ StaleMovedOn /\ SentAgainIsHarmless

LEMMA ResentAreAlike ==
  ASSUME NEW c \in Commands, NEW d \in Commands, kind[c] \in AllKinds, Resent(c, d)
  PROVE  KeyLock(c) = KeyLock(d) /\ Record(c) = Record(d)
<1>1. KeyLock(c) = KeyLock(d)
  BY DEF Resent, KeyLock, Prefixed, Separated
<1>2. Record(c) = Record(d)
  BY DEF Resent, Record, AllKinds
<1>3. QED
  BY <1>1, <1>2

\* What the steps of a command have in common: nothing but its own progress and answer changes.
LEMMA Steps ==
  ASSUME Inv, NEW c \in Commands, Step(c)
  PROVE  /\ UNCHANGED kind /\ Running(c)
         /\ \A d \in Commands : d # c => /\ outcome'[d] = outcome[d] /\ done'[d] = done[d]
                                         /\ read'[d] = read[d]
         /\ \A r \in Rows : version'[r] \in Nat /\ version'[r] >= version[r]
         /\ \/ UNCHANGED <<done, read, outcome>>
            \/ Grant(c)
            \/ outcome'[c] \in Outcomes \ {"none", "committed", "stale"}
            \/ Refuse(c)
            \/ Commit(c)
<1>1. /\ version \in [Rows -> Nat] /\ outcome \in [Commands -> Outcomes]
      /\ done \in [Commands -> Nat] /\ read \in [Commands -> Nat \cup {Idle}]
  BY DEF Inv, TypeOK
<1>2. CASE Wait(c)
  BY <1>1, <1>2 DEF Wait, Wants
<1>3. CASE Grant(c)
  BY <1>1, <1>3 DEF Grant, Free, Wants
<1>4. CASE Miss(c)
  BY <1>1, <1>4 DEF Miss, Free, Wants, Answer, Outcomes
<1>5. CASE Recall(c)
  BY <1>1, <1>5 DEF Recall, Free, Wants, Answer, Outcomes
<1>6. CASE Commit(c)
  <2>1. /\ UNCHANGED <<kind, done, read>> /\ Running(c)
        /\ outcome' = [outcome EXCEPT ![c] = "committed"]
    BY <1>6 DEF Commit, Finished, Answer
  <2>2. PICK written \in Writes(c) :
          version' = [r \in Rows |-> IF r \in written THEN version[r] + 1 ELSE version[r]]
    BY <1>6 DEF Commit
  <2>3. \A r \in Rows : version'[r] \in Nat /\ version'[r] >= version[r]
    BY <1>1, <2>2
  <2>4. QED
    BY <1>1, <1>6, <2>1, <2>3
<1>7. CASE Collide(c)
  BY <1>1, <1>7 DEF Collide, Finished, Answer, Outcomes
<1>8. CASE Refuse(c)
  BY <1>1, <1>8 DEF Refuse, Answer
<1>9. CASE Abort(c)
  <2>1. Running(c)
    <3>1. PICK S \in SUBSET Commands :
            c \in S /\ Circle(S, {w \in Commands \X Commands : WaitsFor(w[1], w[2])})
      BY <1>9 DEF Abort, Deadlocked
    <3>2. PICK d \in S : <<c, d>> \in {w \in Commands \X Commands : WaitsFor(w[1], w[2])}
      BY <3>1 DEF Circle
    <3>3. WaitsFor(c, d)
      BY <3>2
    <3>4. QED
      BY <3>3 DEF WaitsFor
  <2>2. QED
    BY <1>1, <1>9, <2>1 DEF Abort, Answer, Outcomes
<1>10. CASE Deny(c)
  BY <1>1, <1>10 DEF Deny, Wants, Answer, Outcomes
<1>11. QED
  BY <1>2, <1>3, <1>4, <1>5, <1>6, <1>7, <1>8, <1>9, <1>10 DEF Step

\* Two commands never both hold a key by one name.
LEMMA OneHolder ==
  ASSUME Inv, NEW c \in Commands, NEW d \in Commands, c # d, Running(c), Running(d),
         done[c] >= Recalls(c), done[d] >= Recalls(d), KeyLock(c) = KeyLock(d)
  PROVE  FALSE
<1>1. /\ Recalls(c) \in Nat /\ Recalls(d) \in Nat /\ done[c] \in Nat /\ done[d] \in Nat
      /\ \E i \in 1..Recalls(c) : Locks(c)[i] = KeyLock(c)
      /\ \E j \in 1..Recalls(d) : Locks(d)[j] = KeyLock(d)
  BY Programs DEF Inv, TypeOK, Coherent, InOrder
<1>2. PICK i \in 1..Recalls(c) : Locks(c)[i] = KeyLock(c)
  BY <1>1
<1>3. PICK j \in 1..Recalls(d) : Locks(d)[j] = KeyLock(d)
  BY <1>1
<1>4. Conflict(Locks(c)[i], Locks(d)[j])
  BY <1>2, <1>3, KeyLockTypes DEF Conflict
<1>5. i \in 1..done[c] /\ j \in 1..done[d]
  BY <1>1, <1>2, <1>3
<1>6. QED
  BY <1>4, <1>5 DEF Inv, LocksExclude

LEMMA KeyStep ==
  ASSUME Inv, KeyInv, NEW c \in Commands, Step(c)
  PROVE  KeyInv'
<1>1. /\ UNCHANGED kind /\ Running(c)
      /\ \A d \in Commands : d # c => /\ outcome'[d] = outcome[d] /\ done'[d] = done[d]
                                      /\ read'[d] = read[d]
      /\ \A r \in Rows : version'[r] \in Nat /\ version'[r] >= version[r]
      /\ \/ UNCHANGED <<done, read, outcome>>
         \/ Grant(c)
         \/ outcome'[c] \in Outcomes \ {"none", "committed", "stale"}
         \/ Refuse(c)
         \/ Commit(c)
  BY Steps
<1>2. \A d \in Commands : /\ Record(d)' = Record(d) /\ Locks(d)' = Locks(d)
                          /\ Recalls(d)' = Recalls(d) /\ KeyLock(d)' = KeyLock(d)
  BY <1>1, RecordsStay DEF Recalls, KeyLock
<1>3. \A d, e \in Commands : Resent(d, e)' <=> Resent(d, e)
  BY <1>1 DEF Resent
<1>4. /\ done \in [Commands -> Nat] /\ outcome \in [Commands -> Outcomes]
      /\ read \in [Commands -> Nat \cup {Idle}] /\ version \in [Rows -> Nat]
      /\ \A d \in Commands : /\ Record(d) \in Rows /\ kind[d] \in AllKinds
                             /\ Recalls(d) \in Nat /\ Compares(d) \in Nat
                             /\ Recalls(d) <= Compares(d) /\ Compares(d) <= Len(Locks(d))
                             /\ \E i \in 1..Compares(d) : Locks(d)[i].row = Record(d)
  BY RowLocksAssumption, Programs, RecordIsWritten DEF Inv, TypeOK, Coherent, InOrder
<1>5. ASSUME Grant(c)
      PROVE  /\ UNCHANGED outcome /\ done'[c] = done[c] + 1 /\ read'[c] = Reads(c)
             /\ done'[c] = Recalls(c) => ~ Stored(c)
  BY <1>4, <1>5 DEF Grant, Recalled
<1>6. ASSUME Refuse(c)
      PROVE  /\ outcome'[c] = "stale" /\ done[c] >= Compares(c) /\ read[c] # 0
  BY <1>4, <1>6 DEF Refuse, Stale, Answer
<1>7. ASSUME Commit(c)
      PROVE  /\ outcome'[c] = "committed" /\ done[c] = Len(Locks(c)) /\ ~ Stored(c) /\ ~ Stale(c)
  BY <1>4, <1>7 DEF Commit, Finished, Answer
<1>8. \A d \in Commands : done[d] >= Compares(d) => \E i \in 1..done[d] : Locks(d)[i].row = Record(d)
  <2>1. SUFFICES ASSUME NEW d \in Commands, done[d] >= Compares(d)
                 PROVE  \E i \in 1..done[d] : Locks(d)[i].row = Record(d)
    OBVIOUS
  <2>2. PICK i \in 1..Compares(d) : Locks(d)[i].row = Record(d)
    BY <1>4
  <2>3. i \in 1..done[d]
    BY <1>4, <2>1
  <2>4. QED
    BY <2>2, <2>3
<1>9. RecordIsRead'
  <2>1. SUFFICES ASSUME NEW d \in Commands, Running(d)',
                        NEW i \in 1..done'[d], Locks(d)[i].row = Record(d)
                 PROVE  read'[d] # Idle
    BY <1>2 DEF RecordIsRead
  <2>2. CASE d # c
    BY <1>1, <2>1, <2>2 DEF KeyInv, RecordIsRead, Running
  <2>3. CASE d = c /\ UNCHANGED <<done, read, outcome>>
    BY <1>1, <2>1, <2>3 DEF KeyInv, RecordIsRead, Running
  <2>4. CASE d = c /\ Grant(c)
    <3>1. CASE Wanted(c).row = Record(c)
      <4>1. read'[c] = version[Record(c)]
        BY <1>5, <2>4, <3>1 DEF Reads
      <4>2. QED
        BY <1>4, <2>4, <4>1 DEF Idle
    <3>2. CASE Wanted(c).row # Record(c)
      <4>1. i \in 1..done[c]
        BY <1>4, <1>5, <2>1, <2>4, <3>2 DEF Wanted
      <4>2. read'[c] = read[c]
        BY <1>5, <2>4, <3>2 DEF Reads
      <4>3. QED
        BY <1>1, <2>1, <2>4, <4>1, <4>2 DEF KeyInv, RecordIsRead
    <3>3. QED
      BY <3>1, <3>2
  <2>5. CASE d = c /\ ~ UNCHANGED <<done, read, outcome>> /\ ~ Grant(c)
    BY <1>1, <1>6, <1>7, <2>1, <2>5 DEF Running
  <2>6. QED
    BY <2>2, <2>3, <2>4, <2>5
<1>10. KeyIsFree'
  <2>1. SUFFICES ASSUME NEW d \in Commands, NEW e \in Commands,
                        outcome'[d] = "none", done'[d] >= Recalls(d),
                        outcome'[e] = "committed", KeyLock(e) = KeyLock(d)
                 PROVE  FALSE
    BY <1>2 DEF KeyIsFree, Running
  <2>2. d # e
    BY <2>1
  <2>3. Running(d)
    BY <1>1, <2>1 DEF Running
  <2>4. CASE outcome[e] = "committed"
    <3>1. ~ (done[d] >= Recalls(d))
      BY <2>1, <2>3, <2>4 DEF KeyInv, KeyIsFree
    <3>2. d = c /\ Grant(c)
      <4>1. done'[d] # done[d]
        BY <2>1, <3>1
      <4>2. ~ UNCHANGED done
        BY <4>1
      <4>3. d = c
        BY <1>1, <4>1
      <4>4. outcome'[c] = "none"
        BY <2>1, <4>3
      <4>5. QED
        BY <1>1, <1>6, <1>7, <4>2, <4>3, <4>4
    <3>3. done'[d] = Recalls(d)
      BY <1>4, <1>5, <2>1, <3>1, <3>2
    <3>4. Key[e] = Key[d]
      BY <2>1, KeyLockTypes
    <3>5. QED
      BY <1>5, <2>4, <3>2, <3>3, <3>4 DEF Stored
  <2>5. CASE outcome[e] # "committed"
    <3>1. e = c /\ Commit(c)
      BY <1>1, <1>5, <1>6, <2>1, <2>5
    <3>2. done[e] >= Recalls(e) /\ done[d] >= Recalls(d)
      BY <1>1, <1>4, <1>7, <2>1, <2>2, <3>1
    <3>3. QED
      BY <1>1, <2>1, <2>2, <2>3, <3>1, <3>2, OneHolder
  <2>6. QED
    BY <2>4, <2>5
<1>11. StaleMovedOn'
  <2>1. SUFFICES ASSUME NEW d \in Commands, outcome'[d] = "stale"
                 PROVE  version'[Record(d)] >= 1
    BY <1>2 DEF StaleMovedOn
  <2>2. version[Record(d)] >= 1
    <3>1. CASE outcome[d] = "stale"
      BY <3>1 DEF KeyInv, StaleMovedOn
    <3>2. CASE outcome[d] # "stale"
      <4>1. d = c /\ Refuse(c)
        BY <1>1, <1>5, <1>7, <2>1, <3>2
      <4>2. read[c] # Idle
        BY <1>1, <1>6, <1>8, <4>1 DEF KeyInv, RecordIsRead
      <4>3. read[c] = version[Record(c)] /\ read[c] # 0
        BY <1>1, <1>6, <4>1, <4>2 DEF Inv, ReadIsCurrent
      <4>4. QED
        BY <1>4, <4>1, <4>3
    <3>3. QED
      BY <3>1, <3>2
  <2>3. version'[Record(d)] \in Nat
    BY <1>1, <1>4
  <2>4. QED
    BY <1>1, <1>4, <2>2, <2>3
<1>12. SentAgainIsHarmless'
  <2>1. SUFFICES ASSUME NEW d \in Commands, NEW e \in Commands, d # e,
                        Key[d] = Key[e], outcome'[e] = "committed"
                 PROVE  /\ outcome'[d] # "committed"
                        /\ Resent(d, e) => outcome'[d] # "stale"
    BY <1>3 DEF SentAgainIsHarmless
  <2>2. outcome[e] = "committed" \/ (e = c /\ Commit(c))
    BY <1>1, <1>5, <1>6, <2>1
  <2>3. outcome'[d] # "committed"
    <3>1. SUFFICES ASSUME outcome'[d] = "committed" PROVE FALSE
      OBVIOUS
    <3>2. outcome[d] = "committed" \/ (d = c /\ Commit(c))
      BY <1>1, <1>5, <1>6, <3>1
    <3>3. QED
      BY <1>7, <2>1, <2>2, <3>2 DEF KeyInv, SentAgainIsHarmless, Stored
  <2>4. ASSUME Resent(d, e), outcome'[d] = "stale" PROVE FALSE
    <3>1. KeyLock(d) = KeyLock(e) /\ Record(d) = Record(e)
      BY <1>4, <2>4, ResentAreAlike
    <3>2. CASE outcome[d] = "stale"
      <4>1. e = c /\ Commit(c)
        BY <2>1, <2>2, <2>4, <3>2 DEF KeyInv, SentAgainIsHarmless
      <4>2. read[c] = 0
        BY <1>4, <1>7, <4>1 DEF Stale
      <4>3. version[Record(c)] = 0
        BY <1>1, <4>2 DEF Inv, ReadIsCurrent, Idle
      <4>4. QED
        BY <1>4, <3>1, <3>2, <4>1, <4>3 DEF KeyInv, StaleMovedOn
    <3>3. CASE outcome[d] # "stale"
      <4>1. d = c /\ Refuse(c)
        BY <1>1, <1>5, <1>7, <2>4, <3>3
      <4>2. outcome[e] = "committed"
        BY <2>1, <2>2, <4>1
      <4>3. done[d] >= Recalls(d)
        BY <1>4, <1>6, <4>1
      <4>4. QED
        BY <1>1, <3>1, <4>1, <4>2, <4>3 DEF KeyInv, KeyIsFree
    <3>4. QED
      BY <3>2, <3>3
  <2>5. QED
    BY <2>3, <2>4
<1>13. QED
  BY <1>9, <1>10, <1>11, <1>12 DEF KeyInv

LEMMA KeyInvariance == Spec => []KeyInv
<1>1. Init => KeyInv
  BY DEF Init, KeyInv, RecordIsRead, KeyIsFree, StaleMovedOn, SentAgainIsHarmless
<1>2. Inv /\ KeyInv /\ [Next]_vars => KeyInv'
  <2>1. ASSUME Inv, KeyInv, NEW c \in Commands, Step(c) PROVE KeyInv'
    BY <2>1, KeyStep
  <2>2. ASSUME KeyInv, UNCHANGED vars PROVE KeyInv'
    <3>1. \A d \in Commands : /\ Record(d)' = Record(d) /\ Locks(d)' = Locks(d)
                              /\ Recalls(d)' = Recalls(d) /\ KeyLock(d)' = KeyLock(d)
      BY <2>2, RecordsStay DEF vars, Recalls, KeyLock
    <3>2. RecordIsRead' /\ KeyIsFree'
      BY <2>2, <3>1 DEF vars, KeyInv, RecordIsRead, KeyIsFree, Running
    <3>3. StaleMovedOn' /\ SentAgainIsHarmless'
      BY <2>2, <3>1 DEF vars, KeyInv, StaleMovedOn, SentAgainIsHarmless, Resent
    <3>4. QED
      BY <3>2, <3>3 DEF KeyInv
  <2>3. QED
    BY <2>1, <2>2 DEF Next
<1>3. QED
  BY <1>1, <1>2, Invariance, PTL DEF Spec

(***************************************************************************)
(* A request may be sent again with its key, however many commands are in  *)
(* flight and whoever shares keys: it is carried out once, and its         *)
(* repetition is not told that it lost to itself.                          *)
(***************************************************************************)
THEOREM ResendIsSafe == Spec => []SentAgainIsHarmless
<1>1. KeyInv => SentAgainIsHarmless
  BY DEF KeyInv
<1>2. QED
  BY <1>1, KeyInvariance, PTL

-----------------------------------------------------------------------------
(***************************************************************************)
(* A race has a winner.                                                    *)
(***************************************************************************)

NobodyWon == \A c \in Commands : outcome[c] # "committed"

\* As long as nobody has won everybody sees what was there at the start, and somebody is at work.
StillOpen ==
  NobodyWon =>
    /\ \A r \in Rows : version[r] = 0
    /\ \A c \in Commands : seen[c] \in {Idle, 0}
    /\ \E c \in Commands : Running(c)

\* Whoever is aborted leaves somebody of its circle at work.
LEMMA AbortLeavesOne ==
  ASSUME NEW c \in Commands, Abort(c)
  PROVE  \E d \in Commands : d # c /\ Running(d)
<1>1. PICK S \in SUBSET Commands :
        c \in S /\ Circle(S, {w \in Commands \X Commands : WaitsFor(w[1], w[2])})
  BY DEF Abort, Deadlocked
<1>2. PICK d \in S : <<c, d>> \in {w \in Commands \X Commands : WaitsFor(w[1], w[2])}
  BY <1>1 DEF Circle
<1>3. WaitsFor(c, d)
  BY <1>2
<1>4. QED
  BY <1>2, <1>3 DEF WaitsFor, Blocks

\* Before anybody has won nobody is refused, turned away, lost in a join or given a stored answer.
LEMMA NobodyTurnedAway ==
  ASSUME Inv, KeyInv, StillOpen, NobodyWon, NEW c \in Commands
  PROVE  ~ Miss(c) /\ ~ Deny(c) /\ ~ Recall(c) /\ ~ Collide(c) /\ ~ Refuse(c)
<1>1. ~ Stored(c) /\ ~ Archived
  BY DEF NobodyWon, Stored, Archived
<1>2. ~ Deny(c) /\ ~ Recall(c) /\ ~ Collide(c)
  BY <1>1 DEF Deny, CutOff, Recall, Recalled, Collide
<1>3. ~ Miss(c)
  <2>1. SUFFICES ASSUME Wants(c), LostInJoin(c) PROVE FALSE
    BY DEF Miss, Free
  <2>2. Wanted(c).row \in Rows
    BY <2>1, WantedRow DEF Inv
  <2>3. QED
    BY <2>1, <2>2 DEF LostInJoin, StillOpen
<1>4. ~ Refuse(c)
  <2>1. SUFFICES ASSUME Running(c), Stale(c) PROVE FALSE
    BY DEF Refuse
  <2>2. /\ Compares(c) \in Nat /\ done[c] \in Nat /\ Record(c) \in Rows
        /\ \E i \in 1..Compares(c) : Locks(c)[i].row = Record(c)
    BY Programs, RecordIsWritten DEF Inv, TypeOK, Coherent, InOrder
  <2>3. \E i \in 1..done[c] : Locks(c)[i].row = Record(c)
    BY <2>1, <2>2 DEF Stale
  <2>4. read[c] # Idle
    BY <2>1, <2>3 DEF KeyInv, RecordIsRead
  <2>5. read[c] = 0
    BY <2>1, <2>2, <2>4 DEF Inv, ReadIsCurrent, StillOpen
  <2>6. QED
    BY <2>1, <2>5 DEF Stale
<1>5. QED
  BY <1>2, <1>3, <1>4

LEMMA StillOpenStep ==
  ASSUME Inv, KeyInv, StillOpen, NEW c \in Commands, Step(c)
  PROVE  StillOpen'
<1>1. /\ outcome \in [Commands -> Outcomes] /\ seen \in [Commands -> Nat \cup {Idle}]
      /\ Running(c) /\ \A d \in Commands : d # c => outcome'[d] = outcome[d]
  BY Steps DEF Inv, TypeOK
<1>2. SUFFICES ASSUME NobodyWon'
               PROVE  /\ \A r \in Rows : version'[r] = 0
                      /\ \A d \in Commands : seen'[d] \in {Idle, 0}
                      /\ \E d \in Commands : outcome'[d] = "none"
  BY DEF StillOpen, Running
<1>3. NobodyWon
  BY <1>1, <1>2 DEF NobodyWon, Running
<1>4. /\ \A r \in Rows : version[r] = 0
      /\ \A d \in Commands : seen[d] \in {Idle, 0}
      /\ \E d \in Commands : Running(d)
  BY <1>3 DEF StillOpen
<1>5. ~ Miss(c) /\ ~ Deny(c) /\ ~ Recall(c) /\ ~ Collide(c) /\ ~ Refuse(c)
  BY <1>3, NobodyTurnedAway
<1>6. ~ Commit(c)
  BY <1>1, <1>2 DEF Commit, Answer, NobodyWon
<1>7. CASE Wait(c)
  <2>1. version[Wanted(c).row] = 0
    BY <1>4, <1>7, WantedRow DEF Inv, Wait
  <2>2. QED
    BY <1>1, <1>4, <1>7, <2>1 DEF Wait, Running
<1>8. CASE Grant(c)
  <2>1. version[Wanted(c).row] = 0
    BY <1>4, <1>8, WantedRow DEF Inv, Grant, Free
  <2>2. QED
    BY <1>1, <1>4, <1>8, <2>1 DEF Grant, Running
<1>9. CASE Abort(c)
  <2>1. \E d \in Commands : d # c /\ Running(d)
    BY <1>9, AbortLeavesOne
  <2>2. UNCHANGED <<version, seen>>
    BY <1>9 DEF Abort
  <2>3. QED
    BY <1>1, <1>4, <2>1, <2>2 DEF Running
<1>10. QED
  BY <1>5, <1>6, <1>7, <1>8, <1>9 DEF Step

(***************************************************************************)
(* When all commands are answered one of them was committed, whatever      *)
(* circles of waiting were broken and whoever was refused: a request is    *)
(* turned away only because of one that was carried out, and who is        *)
(* aborted leaves somebody at work.                                        *)
(***************************************************************************)
THEOREM RacesHaveAWinner == Spec => []SomeoneWins
<1>1. Init => StillOpen
  BY RowLocksAssumption DEF Init, StillOpen, Running
<1>2. Inv /\ KeyInv /\ StillOpen /\ [Next]_vars => StillOpen'
  <2>1. ASSUME Inv, KeyInv, StillOpen, NEW c \in Commands, Step(c) PROVE StillOpen'
    BY <2>1, StillOpenStep
  <2>2. ASSUME StillOpen, UNCHANGED vars PROVE StillOpen'
    BY <2>2 DEF vars, StillOpen, NobodyWon, Running
  <2>3. QED
    BY <2>1, <2>2 DEF Next
<1>3. StillOpen => SomeoneWins
  BY DEF StillOpen, SomeoneWins, NobodyWon
<1>4. QED
  BY <1>1, <1>2, <1>3, Invariance, KeyInvariance, PTL DEF Spec

-----------------------------------------------------------------------------
(***************************************************************************)
(* What a loser is told.                                                   *)
(***************************************************************************)

PlainLock == {l \in Lock : ~ l.joined}

\* Only commands on challenges join the current version in a statement that locks.
LEMMA OnlyChallengesJoin ==
  ASSUME NEW c \in Commands, kind[c] \in Kinds, kind[c] # "challenge"
  PROVE  Locks(c) \in Seq(PlainLock)
<1>1. \A r \in Rows : Share(r) \in PlainLock /\ Update(r) \in PlainLock
  BY DEF Share, Update, PlainLock, Lock
<1>2. Prefixed(c) \in PlainLock /\ Separated(c) \in PlainLock
  BY DEF Prefixed, Separated, PlainLock, Lock, Advisory, Rows, Keys
<1>3. Actor[c] \in Rows
  BY RowLocksAssumption DEF Rows
<1>4. SolverAccess(c) \in Seq(PlainLock) /\ TeamCommand \in Seq(PlainLock)
  BY <1>1, <1>3, RowsOfCommand DEF SolverAccess, TeamCommand
<1>5. ReadTeam \in Seq(PlainLock)
  <2>1. [i \in DOMAIN Roster |-> Share(Roster[i])] \in Seq(PlainLock)
    <3>1. Roster \in Seq(Members)
      BY RowLocksAssumption
    <3>2. /\ DOMAIN Roster = 1..Len(Roster) /\ Len(Roster) \in Nat
          /\ \A i \in 1..Len(Roster) : Roster[i] \in Rows
      BY <3>1, LenProperties, ElementOfSeq DEF Rows
    <3>3. QED
      BY <1>1, <3>2, SeqDef
  <2>2. <<Share("team"), Share("workspace")>> \in Seq(PlainLock)
    BY <1>1, RowsOfCommand
  <2>3. QED
    BY <2>1, <2>2, ConcatProperties DEF ReadTeam
<1>6. /\ <<Separated(c)>> \in Seq(PlainLock)
      /\ \A r \in Rows : <<Update(r)>> \in Seq(PlainLock) /\ <<Prefixed(c), Update(r)>> \in Seq(PlainLock)
      /\ <<Update("request"), Update("team"), Separated(c)>> \in Seq(PlainLock)
  BY <1>1, <1>2, RowsOfCommand
<1>7. TeamLocks(c) \in Seq(PlainLock)
  BY <1>4, <1>5, <1>6, ConcatProperties DEF TeamLocks
<1>8. ProposalLocks(c) \in Seq(PlainLock) /\ UploadLocks(c) \in Seq(PlainLock) /\ VerifyLocks(c) \in Seq(PlainLock)
  BY <1>4, <1>5, <1>6, RowsOfCommand, ConcatProperties DEF ProposalLocks, UploadLocks, VerifyLocks
<1>9. /\ TeamLocks(c) \o <<Update(Target[c])>> \in Seq(PlainLock)
      /\ TeamLocks(c) \o <<Update("request")>> \in Seq(PlainLock)
  BY <1>6, <1>7, RowsOfCommand, ConcatProperties
<1>10. kind[c] \in AllKinds
  BY RowLocksAssumption
<1>11. QED
  BY <1>6, <1>7, <1>8, <1>9, <1>10 DEF Locks, Program, AllKinds

\* What a command on a challenge saw when it began to wait is not newer than what is there.
SeenIsPast ==
  \A c \in Commands :
    kind[c] = "challenge" /\ done[c] < Len(Locks(c)) =>
      seen[c] = Idle \/ seen[c] <= version[Wanted(c).row]

\* It has no team, and all it joins is the challenge.
LEMMA ChallengeRows ==
  ASSUME TypeOK, NEW c \in Commands, kind[c] = "challenge", Wants(c)
  PROVE  /\ ~ CutOff(c) /\ ~ Authorizing(c)
         /\ Wanted(c).joined => Wanted(c).row = "challenge"
<1>1. Locks(c) = ChallengeLocks(c)
  BY DEF Locks, Program, AllKinds
<1>2. /\ Len(ChallengeLocks(c)) = 4
      /\ ChallengeLocks(c)[1] = Share("organization")
      /\ ChallengeLocks(c)[2] = Joined(Share("challenge"))
      /\ ChallengeLocks(c)[3] = Prefixed(c)
      /\ ChallengeLocks(c)[4] = Joined(Update("challenge"))
  BY DEF ChallengeLocks
<1>3. done[c] + 1 \in 1..4
  BY <1>1, <1>2, WantedRow
<1>4. Wanted(c) \in {Share("organization"), Joined(Share("challenge")), Prefixed(c),
                    Joined(Update("challenge"))}
  <2>1. done[c] + 1 = 1 \/ done[c] + 1 = 2 \/ done[c] + 1 = 3 \/ done[c] + 1 = 4
    BY <1>3
  <2>2. QED
    BY <1>1, <1>2, <2>1 DEF Wanted
<1>5. Key[c] # "team"
  BY RowsAreApart DEF Keys
<1>6. ~ Authorizing(c)
  BY DEF Authorizing
<1>7. QED
  BY <1>4, <1>5, <1>6 DEF CutOff, Share, Joined, Update, Prefixed

LEMMA SeenIsPastStep ==
  ASSUME Inv, SeenIsPast, NEW c \in Commands, Step(c)
  PROVE  SeenIsPast'
<1>1. /\ TypeOK /\ UNCHANGED kind /\ \A d \in Commands : Locks(d)' = Locks(d)
      /\ \A r \in Rows : version[r] \in Nat /\ version'[r] \in Nat /\ version'[r] >= version[r]
  BY Steps, RecordsStay DEF Inv, TypeOK
<1>2. ASSUME NEW d \in Commands, kind[d] = "challenge", done'[d] < Len(Locks(d))
      PROVE  seen'[d] = Idle \/ seen'[d] <= version'[Wanted(d)'.row]
  <2>1. CASE d = c /\ Grant(c)
    <3>1. ~ GoesOn(c)
      BY <1>1, <1>2, <2>1, ChallengeRows DEF Grant, Free, GoesOn
    <3>2. QED
      BY <1>1, <2>1, <3>1 DEF Grant, TypeOK
  <2>2. CASE ~ (d = c /\ Grant(c))
    <3>1. done'[d] = done[d]
      BY <1>1, <2>2, Steps
         DEF Step, Wait, Miss, Deny, Recall, Commit, Collide, Refuse, Abort
    <3>2. Wanted(d)' = Wanted(d) /\ Wanted(d).row \in Rows
      <4>1. Locks(d) \in Seq(Lock) /\ done[d] + 1 \in 1..Len(Locks(d))
        BY <1>1, <1>2, <3>1, WritesAreLocked, LenProperties DEF TypeOK
      <4>2. Wanted(d) \in Lock
        BY <4>1, ElementOfSeq DEF Wanted
      <4>3. QED
        BY <1>1, <3>1, <4>2 DEF Wanted, Lock
    <3>3. seen[d] = Idle \/ seen[d] <= version[Wanted(d).row]
      BY <1>2, <3>1 DEF SeenIsPast
    <3>4. CASE d = c /\ Wait(c)
      BY <1>1, <3>2, <3>4 DEF Wait, TypeOK
    <3>5. CASE ~ (d = c /\ Wait(c))
      <4>1. seen'[d] = seen[d]
        BY <1>1, <2>2, <3>5
           DEF Step, Wait, Grant, Miss, Deny, Recall, Commit, Collide, Refuse, Abort, TypeOK
      <4>2. seen[d] \in Nat \cup {Idle}
        BY <1>1 DEF TypeOK
      <4>3. QED
        BY <1>1, <3>2, <3>3, <4>1, <4>2 DEF Idle
    <3>6. QED
      BY <3>4, <3>5
  <2>3. QED
    BY <2>1, <2>2
<1>3. QED
  BY <1>1, <1>2 DEF SeenIsPast

\* A row is lost in a join only to who moved the challenge on, and hidden only by the archive.
LEMMA ToldTheTruth ==
  ASSUME Inv, SeenIsPast, NEW c \in Commands, Step(c), outcome'[c] = "notFound"
  PROVE  IF kind[c] = "challenge" THEN version["challenge"] > 0 ELSE Archived
<1>1. TypeOK /\ kind[c] \in Kinds
  BY DEF Inv, TypeOK
<1>2. Miss(c) \/ Deny(c)
  <2>1. outcome[c] # "notFound"
    BY Steps DEF Running
  <2>2. QED
    BY <1>1, <2>1
       DEF Step, Wait, Grant, Recall, Commit, Collide, Refuse, Abort, Answer, TypeOK
<1>3. CASE Deny(c)
  <2>1. kind[c] # "challenge"
    BY <1>1, <1>3, ChallengeRows DEF Deny
  <2>2. QED
    BY <1>3, <2>1 DEF Deny, CutOff
<1>4. CASE Miss(c)
  <2>1. Wants(c) /\ LostInJoin(c) /\ Wanted(c).joined
    BY <1>4 DEF Miss, Free, LostInJoin
  <2>2. done[c] + 1 \in 1..Len(Locks(c)) /\ done[c] < Len(Locks(c))
    BY <1>1, <2>1, WantedRow DEF Wants
  <2>3. kind[c] = "challenge"
    <3>1. SUFFICES ASSUME kind[c] # "challenge" PROVE FALSE
      OBVIOUS
    <3>2. Wanted(c) \in PlainLock
      BY <1>1, <2>2, <3>1, OnlyChallengesJoin, ElementOfSeq DEF Wanted
    <3>3. QED
      BY <2>1, <3>2 DEF PlainLock
  <2>4. Wanted(c).row = "challenge"
    BY <1>1, <2>1, <2>3, ChallengeRows
  <2>5. seen[c] \notin {Idle, version["challenge"]} /\ seen[c] <= version["challenge"]
    BY <2>1, <2>2, <2>3, <2>4 DEF LostInJoin, SeenIsPast
  <2>6. seen[c] \in Nat \cup {Idle} /\ version["challenge"] \in Nat
    BY <1>1 DEF TypeOK, Rows
  <2>7. QED
    BY <2>3, <2>5, <2>6
<1>5. QED
  BY <1>2, <1>3, <1>4

(***************************************************************************)
(* Whoever is told that there is no such record has lost to an archive, or *)
(* is about a challenge that another has moved on; whoever waits for the   *)
(* row of a proposal, a file's record or a verification and loses to a     *)
(* save is refused: the row is locked by a statement of its own before its *)
(* current version is read (proposals.ts:583-590).                         *)
(***************************************************************************)
THEOREM LosersAreToldTheTruth == Spec => LoserIsToldTheTruth
<1>1. Init => SeenIsPast
  BY DEF Init, SeenIsPast
<1>2. ASSUME Inv, SeenIsPast, [Next]_vars
      PROVE  /\ SeenIsPast'
             /\ [\A c \in Commands :
                   outcome[c] # "notFound" /\ outcome'[c] = "notFound" =>
                     IF kind[c] = "challenge" THEN version["challenge"] > 0 ELSE Archived]_vars
  <2>1. CASE UNCHANGED vars
    <3>1. \A d \in Commands : Locks(d)' = Locks(d)
      BY <2>1, RecordsStay DEF vars
    <3>2. SeenIsPast'
      BY <1>2, <2>1, <3>1 DEF vars, SeenIsPast, Wanted
    <3>3. QED
      BY <2>1, <3>2
  <2>2. CASE Next
    <3>1. PICK c \in Commands : Step(c)
      BY <2>2 DEF Next
    <3>2. SeenIsPast'
      BY <1>2, <3>1, SeenIsPastStep
    <3>3. /\ outcome'[c] = "notFound" =>
               IF kind[c] = "challenge" THEN version["challenge"] > 0 ELSE Archived
          /\ \A d \in Commands : d # c => outcome'[d] = outcome[d]
      BY <1>2, <3>1, ToldTheTruth, Steps
    <3>4. QED
      BY <3>2, <3>3
  <2>3. QED
    BY <1>2, <2>1, <2>2
<1>3. QED
  BY <1>1, <1>2, Invariance, PTL DEF Spec, LoserIsToldTheTruth

-----------------------------------------------------------------------------
(***************************************************************************)
(* An archived team.                                                       *)
(***************************************************************************)

\* The commands that lock the team, to change it or to see what it allows.
TeamKinds == {"proposal", "upload", "policy", "archive", "role", "decide", "withdraw"}

\* Nobody who is still at work holds the row of an archived team.
RowIsFree ==
  Archived =>
    \A c \in Commands :
      Running(c) => \A i \in 1..done[c] : Locks(c)[i].row # "team"

\* Whoever changes a team has its row for itself.
LEMMA ChangesLockTheTeam ==
  ASSUME NEW c \in Commands, kind[c] \in {"policy", "archive", "role", "decide", "withdraw"}
  PROVE  Has(Locks(c), "team")
<1>1. CASE kind[c] \in {"policy", "archive"}
  <2>1. Locks(c) = TeamLocks(c)
    BY <1>1 DEF Locks, Program, AllKinds
  <2>2. QED
    BY <2>1, OfTeam
<1>2. CASE kind[c] \in {"role", "decide"}
  <2>1. Record(c) \in Rows /\ Locks(c) = TeamLocks(c) \o <<Update(Record(c))>>
    BY <1>2, RowsOfCommand DEF Locks, Program, AllKinds, Record
  <2>2. QED
    BY <1>2, <2>1, OfTeamAndRow
<1>3. CASE kind[c] = "withdraw"
  <2>1. Locks(c) = <<Update("request"), Update("team"), Separated(c)>>
    BY <1>3 DEF Locks, Program, AllKinds
  <2>2. QED
    BY <2>1 DEF Has, Update
<1>4. QED
  BY <1>1, <1>2, <1>3

\* Who has all its locks has the one on the team among them.
LEMMA FinishedHoldsTeam ==
  ASSUME NEW c \in Commands, kind[c] \in TeamKinds, Finished(c)
  PROVE  \E i \in 1..done[c] : /\ Locks(c)[i].row = "team"
                               /\ kind[c] = "archive" => Locks(c)[i].mode = "update"
<1>1. done[c] = Len(Locks(c))
  BY DEF Finished
<1>2. CASE kind[c] = "proposal"
  BY <1>1, <1>2, OfProposal DEF SeesTeam
<1>3. CASE kind[c] = "upload"
  BY <1>1, <1>3, OfUpload DEF SeesTeam
<1>4. CASE kind[c] \notin {"proposal", "upload"}
  BY <1>1, <1>4, ChangesLockTheTeam DEF TeamKinds, Has
<1>5. QED
  BY <1>2, <1>3, <1>4

LEMMA ArchiveStep ==
  ASSUME Inv, RowIsFree, NEW c \in Commands, Step(c)
  PROVE  /\ RowIsFree'
         /\ Archived /\ outcome'[c] = "committed" => kind[c] \notin TeamKinds
<1>1. /\ UNCHANGED kind /\ Running(c)
      /\ \A d \in Commands : d # c => outcome'[d] = outcome[d] /\ done'[d] = done[d]
      /\ \/ UNCHANGED <<done, read, outcome>>
         \/ Grant(c)
         \/ outcome'[c] \in Outcomes \ {"none", "committed", "stale"}
         \/ Refuse(c)
         \/ Commit(c)
  BY Steps
<1>2. \A d \in Commands : Locks(d)' = Locks(d)
  BY <1>1, RecordsStay
<1>3. /\ done \in [Commands -> Nat] /\ outcome \in [Commands -> Outcomes]
  BY DEF Inv, TypeOK
<1>4. Refuse(c) => outcome'[c] = "stale"
  BY <1>3 DEF Refuse, Answer
<1>5. Commit(c) => Finished(c) /\ outcome'[c] = "committed"
  BY <1>3 DEF Commit, Answer
<1>6. Grant(c) => /\ UNCHANGED outcome /\ done' = [done EXCEPT ![c] = done[c] + 1]
                  /\ Archived => Locks(c)[done[c] + 1].row # "team"
  BY DEF Grant, CutOff, Wanted
<1>7. outcome'[c] = "committed" => Commit(c)
  BY <1>1, <1>4, <1>6 DEF Running
<1>8. ASSUME Archived, Commit(c) PROVE kind[c] \notin TeamKinds
  <2>1. SUFFICES ASSUME kind[c] \in TeamKinds PROVE FALSE
    OBVIOUS
  <2>2. PICK i \in 1..done[c] : /\ Locks(c)[i].row = "team"
                                /\ kind[c] = "archive" => Locks(c)[i].mode = "update"
    <3>1. Finished(c)
      BY <1>5, <1>8
    <3>2. QED
      BY <2>1, <3>1, FinishedHoldsTeam
  <2>3. QED
    <3>1. Locks(c)[i].row = "team" /\ Running(c)
      BY <1>1, <2>2
    <3>2. QED
      BY <1>8, <3>1 DEF RowIsFree
<1>9. RowIsFree'
  <2>1. SUFFICES ASSUME Archived', NEW d \in Commands, outcome'[d] = "none",
                        NEW i \in 1..done'[d]
                 PROVE  Locks(d)[i].row # "team"
    BY <1>2 DEF RowIsFree, Running
  <2>2. Running(d)
    BY <1>1, <2>1 DEF Running
  <2>3. CASE Archived
    <3>1. CASE i \in 1..done[d]
      BY <2>2, <2>3, <3>1 DEF RowIsFree
    <3>2. CASE i \notin 1..done[d]
      <4>1. d = c /\ Grant(c)
        BY <1>1, <1>4, <1>5, <2>1, <3>2
      <4>2. i = done[c] + 1
        BY <1>3, <1>6, <2>1, <3>2, <4>1
      <4>3. QED
        BY <1>6, <2>3, <4>1, <4>2
    <3>3. QED
      BY <3>1, <3>2
  <2>4. CASE ~ Archived
    <3>1. PICK e \in Commands : kind[e] = "archive" /\ outcome'[e] = "committed"
      BY <1>1, <2>1 DEF Archived
    <3>2. e = c /\ Commit(c)
      BY <1>1, <1>7, <2>4, <3>1 DEF Archived
    <3>3. PICK j \in 1..done[c] : /\ Locks(c)[j].row = "team"
                                  /\ kind[c] = "archive" => Locks(c)[j].mode = "update"
      <4>1. Finished(c) /\ kind[c] \in TeamKinds
        BY <1>5, <3>1, <3>2 DEF TeamKinds
      <4>2. QED
        BY <4>1, FinishedHoldsTeam
    <3>4. d # c /\ i \in 1..done[d]
      BY <1>1, <1>5, <2>1, <3>2
    <3>5. ~ Conflict(Locks(d)[i], Locks(c)[j])
      BY <1>1, <2>2, <3>3, <3>4 DEF Inv, LocksExclude
    <3>6. QED
      <4>1. Locks(c)[j].row = "team" /\ Locks(c)[j].mode = "update"
        BY <3>1, <3>2, <3>3
      <4>2. QED
        BY <3>5, <4>1 DEF Conflict
  <2>5. QED
    BY <2>3, <2>4
<1>10. QED
  BY <1>7, <1>8, <1>9

(***************************************************************************)
(* No command on a team, its proposals or their files is committed once    *)
(* the team has been archived, however long ago it was authorized or began *)
(* to wait: findTeam and withdrawMembershipRequest ask for the status in   *)
(* the statement that locks the row, and a lock keeps the archive out.     *)
(***************************************************************************)
THEOREM ArchiveIsFinal ==
  Spec => [][\A c \in Commands :
               Archived /\ outcome[c] # "committed" /\ outcome'[c] = "committed"
                 => kind[c] \notin TeamKinds]_vars
<1>1. Init => RowIsFree
  BY DEF Init, RowIsFree, Archived
<1>2. ASSUME Inv, RowIsFree, [Next]_vars
      PROVE  /\ RowIsFree'
             /\ [\A c \in Commands :
                   Archived /\ outcome[c] # "committed" /\ outcome'[c] = "committed"
                     => kind[c] \notin TeamKinds]_vars
  <2>1. CASE UNCHANGED vars
    <3>1. \A d \in Commands : Locks(d)' = Locks(d)
      BY <2>1, RecordsStay DEF vars
    <3>2. RowIsFree'
      BY <1>2, <2>1, <3>1 DEF vars, RowIsFree, Archived, Running
    <3>3. QED
      BY <2>1, <3>2
  <2>2. CASE Next
    <3>1. PICK c \in Commands : Step(c)
      BY <2>2 DEF Next
    <3>2. /\ RowIsFree'
          /\ Archived /\ outcome'[c] = "committed" => kind[c] \notin TeamKinds
      BY <1>2, <3>1, ArchiveStep
    <3>3. \A d \in Commands : d # c => outcome'[d] = outcome[d]
      BY <1>2, <3>1, Steps
    <3>4. QED
      BY <3>2, <3>3
  <2>3. QED
    BY <1>2, <2>1, <2>2
<1>3. QED
  BY <1>1, <1>2, Invariance, PTL DEF Spec

-----------------------------------------------------------------------------
(***************************************************************************)
(* Who can be in a circle of waiting.                                      *)
(***************************************************************************)

\* A row is asked for in share mode first and for update later.
Upgraded(locks) ==
  \E i, j \in 1..Len(locks) :
    /\ i < j /\ locks[i].row = locks[j].row
    /\ locks[i].mode = "share" /\ locks[j].mode = "update"

Upgrades(c) == Upgraded(Locks(c))

Waits == {w \in Commands \X Commands : WaitsFor(w[1], w[2])}

CirclesUpgrade ==
  \A S \in SUBSET Commands : S # {} /\ Circle(S, Waits) => \E c \in S : Upgrades(c)

\* An upgrade stays one when locks are added, and may lie between two parts.
LEMMA UpgradeInParts ==
  ASSUME NEW s \in Seq(Lock), NEW t \in Seq(Lock),
         \/ Upgraded(s)
         \/ \E i \in 1..Len(s), j \in 1..Len(t) :
              s[i].row = t[j].row /\ s[i].mode = "share" /\ t[j].mode = "update"
  PROVE  Upgraded(s \o t)
<1>1. /\ Len(s) \in Nat /\ Len(t) \in Nat
      /\ \A i \in 1..Len(s) : i \in 1..Len(s \o t) /\ (s \o t)[i] = s[i]
      /\ \A i \in 1..Len(t) : Len(s) + i \in 1..Len(s \o t) /\ (s \o t)[Len(s) + i] = t[i]
  BY Concat
<1>2. CASE Upgraded(s)
  <2>1. PICK i, j \in 1..Len(s) : /\ i < j /\ s[i].row = s[j].row
                                  /\ s[i].mode = "share" /\ s[j].mode = "update"
    BY <1>2 DEF Upgraded
  <2>2. i \in 1..Len(s \o t) /\ j \in 1..Len(s \o t) /\ (s \o t)[i] = s[i] /\ (s \o t)[j] = s[j]
    BY <1>1
  <2>3. QED
    BY <2>1, <2>2 DEF Upgraded
<1>3. CASE \E i \in 1..Len(s), j \in 1..Len(t) :
             s[i].row = t[j].row /\ s[i].mode = "share" /\ t[j].mode = "update"
  <2>1. PICK i \in 1..Len(s), j \in 1..Len(t) :
          s[i].row = t[j].row /\ s[i].mode = "share" /\ t[j].mode = "update"
    BY <1>3
  <2>2. /\ i \in 1..Len(s \o t) /\ (s \o t)[i] = s[i]
        /\ Len(s) + j \in 1..Len(s \o t) /\ (s \o t)[Len(s) + j] = t[j]
        /\ i < Len(s) + j
    BY <1>1
  <2>3. QED
    BY <2>1, <2>2 DEF Upgraded
<1>4. QED
  BY <1>2, <1>3

LEMMA ShapeOfAccess ==
  ASSUME NEW c \in Commands
  PROVE  /\ SolverAccess(c) \in Seq(Lock) /\ Len(SolverAccess(c)) = 2
         /\ SolverAccess(c)[1] = Share(Actor[c]) /\ SolverAccess(c)[2] = Share("workspace")
  BY Parts DEF SolverAccess

LEMMA ShapeOfReadTeam ==
  /\ ReadTeam \in Seq(Lock) /\ Len(ReadTeam) \in Nat /\ 1 \in 1..Len(ReadTeam)
  /\ ReadTeam[1] = Share("team")
  /\ \A i \in 1..Len(ReadTeam) :
       i # 1 => ReadTeam[i].mode = "share" /\ ReadTeam[i].row \in {"workspace"} \cup Members
<1> DEFINE two == <<Share("team"), Share("workspace")>>
           all == [i \in DOMAIN Roster |-> Share(Roster[i])]
<1>1. /\ DOMAIN Roster = 1..Len(Roster) /\ Len(Roster) \in Nat
      /\ \A i \in 1..Len(Roster) : Roster[i] \in Members
  BY RowLocksAssumption, LenProperties, ElementOfSeq
<1>2. \A i \in 1..Len(Roster) : Share(Roster[i]) \in Lock
  BY <1>1, LockTypes DEF Rows
<1>3. all \in Seq(Lock) /\ Len(all) = Len(Roster) /\ \A i \in 1..Len(Roster) : all[i] = Share(Roster[i])
  BY <1>1, <1>2, SeqDef
<1>4. /\ two \in Seq(Lock) /\ Len(two) = 2 /\ two[1] = Share("team") /\ two[2] = Share("workspace")
  <2>1. {"team", "workspace"} \subseteq Rows
    BY DEF Rows
  <2>2. QED
    BY <2>1, LockTypes
<1>5. ReadTeam = two \o all
  BY DEF ReadTeam
<1> HIDE DEF two, all
<1>6. /\ two \o all \in Seq(Lock) /\ Len(two \o all) = 2 + Len(Roster)
      /\ (two \o all)[1] = Share("team") /\ (two \o all)[2] = Share("workspace")
      /\ \A i \in 1..Len(Roster) : (two \o all)[2 + i] = Share(Roster[i])
  <2>1. /\ two \o all \in Seq(Lock) /\ Len(two \o all) = Len(two) + Len(all)
        /\ \A i \in 1..Len(two) : (two \o all)[i] = two[i]
        /\ \A i \in 1..Len(all) : (two \o all)[Len(two) + i] = all[i]
    BY <1>3, <1>4, Concat
  <2>2. 1 \in 1..Len(two) /\ 2 \in 1..Len(two)
    BY <1>4
  <2>3. QED
    BY <1>3, <1>4, <2>1, <2>2
<1>7. \A i \in 1..Len(two \o all) : i # 1 /\ i # 2 => i - 2 \in 1..Len(Roster) /\ i = 2 + (i - 2)
  BY <1>1, <1>6
<1>8. ASSUME NEW i \in 1..Len(two \o all), i # 1
      PROVE  (two \o all)[i].mode = "share" /\ (two \o all)[i].row \in {"workspace"} \cup Members
  <2>1. CASE i = 2
    BY <1>6, <2>1 DEF Share
  <2>2. CASE i # 2
    <3>1. (two \o all)[i] = Share(Roster[i - 2])
      BY <1>6, <1>7, <1>8, <2>2
    <3>2. QED
      BY <1>1, <1>7, <1>8, <2>2, <3>1 DEF Share
  <2>3. QED
    BY <2>1, <2>2
<1>9. Len(two \o all) \in Nat /\ 1 \in 1..Len(two \o all)
  BY <1>1, <1>6
<1>10. QED
  BY <1>5, <1>6, <1>8, <1>9

\* Commands on a team share it to read it, and update it then.
LEMMA TeamLocksUpgrade ==
  ASSUME NEW c \in Commands PROVE TeamLocks(c) \in Seq(Lock) /\ Upgraded(TeamLocks(c))
<1> DEFINE r == SolverAccess(c) \o ReadTeam
           s == r \o TeamCommand
<1>1. /\ SolverAccess(c) \in Seq(Lock) /\ Len(SolverAccess(c)) = 2
      /\ ReadTeam \in Seq(Lock) /\ 1 \in 1..Len(ReadTeam) /\ ReadTeam[1] = Share("team")
  BY ShapeOfAccess, ShapeOfReadTeam
<1>2. /\ TeamCommand \in Seq(Lock) /\ 1 \in 1..Len(TeamCommand) /\ TeamCommand[1] = Update("team")
      /\ <<Separated(c)>> \in Seq(Lock)
  <2>1. {"team", "workspace"} \subseteq Rows
    BY DEF Rows
  <2>2. QED
    BY <2>1, LockTypes, KeyLockTypes DEF TeamCommand
<1>3. r \in Seq(Lock) /\ 2 + 1 \in 1..Len(r) /\ r[2 + 1] = Share("team")
  <2> DEFINE access == SolverAccess(c)
  <2>1. r = access \o ReadTeam /\ access \in Seq(Lock) /\ Len(access) = 2
    BY <1>1
  <2> HIDE DEF access, r
  <2>2. /\ access \o ReadTeam \in Seq(Lock)
        /\ \A i \in 1..Len(ReadTeam) : /\ Len(access) + i \in 1..Len(access \o ReadTeam)
                                       /\ (access \o ReadTeam)[Len(access) + i] = ReadTeam[i]
    BY <1>1, <2>1, Concat
  <2>3. QED
    BY <1>1, <2>1, <2>2
<1>4. TeamLocks(c) = s \o <<Separated(c)>>
  BY DEF TeamLocks
<1> HIDE DEF r
<1>5. s \in Seq(Lock) /\ Upgraded(s)
  <2>1. /\ r[2 + 1].row = TeamCommand[1].row /\ r[2 + 1].mode = "share"
        /\ TeamCommand[1].mode = "update"
    BY <1>2, <1>3 DEF Share, Update
  <2>2. QED
    BY <1>2, <1>3, <2>1, UpgradeInParts, ConcatProperties
<1> HIDE DEF s
<1>6. QED
  BY <1>2, <1>4, <1>5, UpgradeInParts, ConcatProperties

\* Uploads share the workspace to be authorized, and update it to count.
LEMMA UploadLocksUpgrade ==
  ASSUME NEW c \in Commands PROVE Upgraded(UploadLocks(c))
<1> DEFINE s == SolverAccess(c) \o <<Update("proposal")>>
           t == s \o ReadTeam
           u == t \o <<Separated(c)>>
<1>1. /\ <<Update("proposal")>> \in Seq(Lock) /\ <<Separated(c)>> \in Seq(Lock)
      /\ <<Update("workspace")>> \in Seq(Lock) /\ 1 \in 1..Len(<<Update("workspace")>>)
      /\ <<Update("workspace")>>[1] = Update("workspace")
  BY RowsOfCommand, LockTypes, KeyLockTypes
<1>2. s \in Seq(Lock) /\ 2 \in 1..Len(s) /\ s[2] = Share("workspace")
  BY <1>1, ShapeOfAccess, Concat
<1>3. UploadLocks(c) = u \o <<Update("workspace")>>
  BY DEF UploadLocks
<1> HIDE DEF s
<1>4. t \in Seq(Lock) /\ 2 \in 1..Len(t) /\ t[2] = Share("workspace")
  BY <1>2, ShapeOfReadTeam, Concat
<1> HIDE DEF t
<1>5. u \in Seq(Lock) /\ 2 \in 1..Len(u) /\ u[2] = Share("workspace")
  BY <1>1, <1>4, Concat
<1> HIDE DEF u
<1>6. u[2].row = <<Update("workspace")>>[1].row /\ u[2].mode = "share" /\ <<Update("workspace")>>[1].mode = "update"
  BY <1>1, <1>5 DEF Share, Update
<1>7. QED
  BY <1>1, <1>5, <1>3, <1>6, UpgradeInParts

\* Only saving and handing in a proposal, a step of the verification and the
\* withdrawal of a request ask for each row in one mode.
LEMMA WhoUpgrades ==
  ASSUME NEW c \in Commands, kind[c] \in Kinds, ~ Upgrades(c)
  PROVE  kind[c] \in {"proposal", "verify", "withdraw"}
<1>1. kind[c] \in AllKinds
  BY RowLocksAssumption
<1>2. ASSUME kind[c] = "challenge" PROVE FALSE
  <2>1. Locks(c) = ChallengeLocks(c)
    BY <1>2 DEF Locks, Program, AllKinds
  <2>2. /\ Len(ChallengeLocks(c)) = 4
        /\ ChallengeLocks(c)[2] = Joined(Share("challenge")) /\ ChallengeLocks(c)[4] = Joined(Update("challenge"))
    BY DEF ChallengeLocks
  <2>3. QED
    BY <2>1, <2>2 DEF Upgrades, Upgraded, Joined, Share, Update
<1>3. ASSUME kind[c] = "upload" PROVE FALSE
  <2>1. Locks(c) = UploadLocks(c)
    BY <1>3 DEF Locks, Program, AllKinds
  <2>2. QED
    BY <2>1, UploadLocksUpgrade DEF Upgrades
<1>4. ASSUME kind[c] \in {"policy", "archive"} PROVE FALSE
  <2>1. Locks(c) = TeamLocks(c)
    BY <1>4 DEF Locks, Program, AllKinds
  <2>2. QED
    BY <2>1, TeamLocksUpgrade DEF Upgrades
<1>5. ASSUME kind[c] \in {"role", "decide"} PROVE FALSE
  <2>1. PICK row \in Rows : Locks(c) = TeamLocks(c) \o <<Update(row)>>
    BY <1>5, RowsOfCommand DEF Locks, Program, AllKinds
  <2>2. <<Update(row)>> \in Seq(Lock)
    BY LockTypes
  <2>3. QED
    BY <2>1, <2>2, TeamLocksUpgrade, UpgradeInParts DEF Upgrades
<1>6. QED
  BY <1>1, <1>2, <1>3, <1>4, <1>5 DEF AllKinds

\* The programs of those three, lock by lock.
LEMMA ShapeOfProposal ==
  ASSUME NEW c \in Commands, kind[c] = "proposal"
  PROVE  /\ Len(Locks(c)) \in Nat /\ Len(Locks(c)) >= 5
         /\ Locks(c)[1] = Share(Actor[c]) /\ Locks(c)[2] = Share("workspace")
         /\ Locks(c)[3] = Prefixed(c) /\ Locks(c)[4] = Update("proposal")
         /\ Locks(c)[5] = Share("team")
         /\ \A i \in 6..Len(Locks(c)) :
              Locks(c)[i].mode = "share" /\ Locks(c)[i].row \in {"workspace"} \cup Members
<1> DEFINE p == <<Prefixed(c), Update("proposal")>>
           s == SolverAccess(c)
           t == s \o p
           u == t \o ReadTeam
<1>1. Locks(c) = u
  BY DEF Locks, Program, AllKinds, ProposalLocks
<1>2. p \in Seq(Lock) /\ Len(p) = 2 /\ p[1] = Prefixed(c) /\ p[2] = Update("proposal")
  BY KeyLockTypes, RowsOfCommand, LockTypes
<1>3. /\ s \in Seq(Lock) /\ Len(s) = 2
      /\ s[1] = Share(Actor[c]) /\ s[2] = Share("workspace")
  BY ShapeOfAccess
<1> HIDE DEF p, s
<1>4. /\ t \in Seq(Lock) /\ Len(t) = 4 /\ t[1] = s[1] /\ t[2] = s[2] /\ t[3] = p[1] /\ t[4] = p[2]
  <2>1. /\ t \in Seq(Lock) /\ Len(t) = Len(s) + Len(p)
        /\ \A i \in 1..Len(s) : t[i] = s[i]
        /\ \A i \in 1..Len(p) : t[Len(s) + i] = p[i]
    BY <1>2, <1>3, Concat
  <2>2. 1 \in 1..Len(s) /\ 2 \in 1..Len(s) /\ 1 \in 1..Len(p) /\ 2 \in 1..Len(p)
    BY <1>2, <1>3
  <2> HIDE DEF t
  <2>3. t[Len(s) + 1] = p[1] /\ t[Len(s) + 2] = p[2]
    BY <2>1, <2>2
  <2>4. QED
    BY <1>2, <1>3, <2>1, <2>2, <2>3
<1> HIDE DEF t
<1>5. /\ Len(ReadTeam) \in Nat /\ Len(ReadTeam) >= 1 /\ Len(u) = 4 + Len(ReadTeam)
      /\ \A i \in 1..4 : u[i] = t[i]
      /\ \A i \in 1..Len(ReadTeam) : u[4 + i] = ReadTeam[i]
  <2>1. /\ Len(u) = Len(t) + Len(ReadTeam)
        /\ \A i \in 1..Len(t) : u[i] = t[i]
        /\ \A i \in 1..Len(ReadTeam) : u[Len(t) + i] = ReadTeam[i]
    BY <1>4, ShapeOfReadTeam, Concat
  <2>2. Len(ReadTeam) \in Nat /\ Len(ReadTeam) >= 1
    BY ShapeOfReadTeam
  <2> HIDE DEF u
  <2>3. QED
    BY <1>4, <2>1, <2>2
<1> HIDE DEF u
<1>6. ASSUME NEW i \in 6..Len(u)
      PROVE  u[i].mode = "share" /\ u[i].row \in {"workspace"} \cup Members
  <2>1. i - 4 \in 1..Len(ReadTeam) /\ i - 4 # 1 /\ i = 4 + (i - 4)
    BY <1>5
  <2>2. u[i] = ReadTeam[i - 4]
    BY <1>5, <2>1
  <2>3. QED
    BY <2>1, <2>2, ShapeOfReadTeam
<1>7. u[5] = ReadTeam[1] /\ u[1] = t[1] /\ u[2] = t[2] /\ u[3] = t[3] /\ u[4] = t[4]
  <2>1. 1 \in 1..Len(ReadTeam) /\ 4 + 1 = 5
    BY <1>5
  <2>2. QED
    BY <1>5, <2>1
<1>8. Len(u) \in Nat /\ Len(u) >= 5
  BY <1>5
<1>9. QED
  BY <1>1, <1>2, <1>3, <1>4, <1>6, <1>7, <1>8, ShapeOfReadTeam

LEMMA ShapeOfVerify ==
  ASSUME NEW c \in Commands, kind[c] = "verify"
  PROVE  /\ Len(Locks(c)) = 4
         /\ Locks(c)[1] = Share(Actor[c]) /\ Locks(c)[2] = Share("workspace")
         /\ Locks(c)[3] = Separated(c) /\ Locks(c)[4] = Update("verification")
<1>1. Locks(c) = SolverAccess(c) \o <<Separated(c)>> \o <<Update("verification")>>
  BY DEF Locks, Program, AllKinds, VerifyLocks
<1>2. QED
  BY <1>1 DEF SolverAccess

LEMMA ShapeOfWithdraw ==
  ASSUME NEW c \in Commands, kind[c] = "withdraw"
  PROVE  /\ Len(Locks(c)) = 3
         /\ Locks(c)[1] = Update("request") /\ Locks(c)[2] = Update("team")
         /\ Locks(c)[3] = Separated(c)
<1>1. Locks(c) = <<Update("request"), Update("team"), Separated(c)>>
  BY DEF Locks, Program, AllKinds
<1>2. QED
  BY <1>1

\* What is known of the i-th lock of a command of kind k of those three.
Shaped(k, i, lock) ==
  /\ k # "withdraw" =>
       /\ i = 1 => lock.mode = "share" /\ lock.row \in Members
       /\ i = 2 => lock.mode = "share" /\ lock.row = "workspace"
  /\ k = "proposal" =>
       /\ i = 3 => lock.mode = "prefixed" /\ lock.row \in Keys
       /\ i = 4 => lock.mode = "update" /\ lock.row = "proposal"
       /\ i = 5 => lock.mode = "share" /\ lock.row = "team"
       /\ i > 5 => lock.mode = "share" /\ lock.row \in {"workspace"} \cup Members
  /\ k = "verify" =>
       /\ i \in {1, 2, 3, 4}
       /\ i = 3 => lock.mode = "separated" /\ lock.row \in Keys
       /\ i = 4 => lock.mode = "update" /\ lock.row = "verification"
  /\ k = "withdraw" =>
       /\ i \in {1, 2, 3}
       /\ i = 1 => lock.mode = "update" /\ lock.row = "request"
       /\ i = 2 => lock.mode = "update" /\ lock.row = "team"
       /\ i = 3 => lock.mode = "separated" /\ lock.row \in Keys

LEMMA LocksAreShaped ==
  ASSUME NEW c \in Commands, kind[c] \in {"proposal", "verify", "withdraw"},
         NEW i \in Nat \ {0}, i <= Len(Locks(c))
  PROVE  Shaped(kind[c], i, Locks(c)[i])
<1>1. Actor[c] \in Members /\ Key[c] \in Keys
  BY RowLocksAssumption DEF Keys
<1>2. CASE kind[c] = "proposal"
  <2>1. /\ Locks(c)[1] = Share(Actor[c]) /\ Locks(c)[2] = Share("workspace")
        /\ Locks(c)[3] = Prefixed(c) /\ Locks(c)[4] = Update("proposal")
        /\ Locks(c)[5] = Share("team")
        /\ \A j \in 6..Len(Locks(c)) :
             Locks(c)[j].mode = "share" /\ Locks(c)[j].row \in {"workspace"} \cup Members
        /\ Len(Locks(c)) \in Nat
    BY <1>2, ShapeOfProposal
  <2>2. i > 5 => i \in 6..Len(Locks(c))
    BY <2>1
  <2>3. QED
    BY <1>1, <1>2, <2>1, <2>2 DEF Shaped, Share, Update, Prefixed
<1>3. CASE kind[c] = "verify"
  <2>1. /\ Locks(c)[1] = Share(Actor[c]) /\ Locks(c)[2] = Share("workspace")
        /\ Locks(c)[3] = Separated(c) /\ Locks(c)[4] = Update("verification")
        /\ Len(Locks(c)) = 4
    BY <1>3, ShapeOfVerify
  <2>2. i \in {1, 2, 3, 4}
    BY <2>1
  <2>3. QED
    BY <1>1, <1>3, <2>1, <2>2 DEF Shaped, Share, Update, Separated
<1>4. CASE kind[c] = "withdraw"
  <2>1. /\ Locks(c)[1] = Update("request") /\ Locks(c)[2] = Update("team")
        /\ Locks(c)[3] = Separated(c) /\ Len(Locks(c)) = 3
    BY <1>4, ShapeOfWithdraw
  <2>2. i \in {1, 2, 3}
    BY <2>1
  <2>3. QED
    BY <1>1, <1>4, <2>1, <2>2 DEF Shaped, Update, Separated
<1>5. QED
  BY <1>2, <1>3, <1>4

\* How far a command that was granted n locks has come, in an order that waiting follows.
Rank(k, n) == IF k = "proposal" \/ n < 2 THEN n ELSE n + 3

\* A lock that is in the way of another is held by somebody who has come further.
LEMMA WaitingClimbs ==
  ASSUME NEW k \in {"proposal", "verify", "withdraw"}, NEW m \in {"proposal", "verify", "withdraw"},
         NEW n \in Nat, NEW wanted, Shaped(k, n + 1, wanted),
         NEW j \in Nat \ {0}, NEW held, Shaped(m, j, held), NEW l \in Nat, j <= l,
         Conflict(wanted, held)
  PROVE  Rank(k, n) \in 0..6 /\ Rank(m, l) \in Nat /\ Rank(k, n) < Rank(m, l)
<1>1. /\ wanted.row = held.row
      /\ \/ "update" \in {wanted.mode, held.mode}
         \/ wanted.mode = held.mode /\ wanted.mode \in {"prefixed", "separated"}
  BY DEF Conflict, Advisory
<1>2. n = 0 \/ n = 1 \/ n = 2 \/ n = 3 \/ n = 4 \/ n >= 5
  OBVIOUS
<1>3. j = 1 \/ j = 2 \/ j = 3 \/ j = 4 \/ j = 5 \/ j > 5
  OBVIOUS
<1>4. CASE k = "proposal"
  <2>1. CASE m = "proposal"
    <3>1. (n = 2 /\ j = 3) \/ (n = 3 /\ j = 4)
      BY <1>1, <1>2, <1>3, <1>4, <2>1, RowsAreApart DEF Shaped
    <3>2. QED
      BY <1>4, <2>1, <3>1 DEF Rank
  <2>2. CASE m = "verify"
    BY <1>1, <1>2, <1>3, <1>4, <2>2, RowsAreApart DEF Shaped
  <2>3. CASE m = "withdraw"
    <3>1. n = 4 /\ j = 2
      BY <1>1, <1>2, <1>3, <1>4, <2>3, RowsAreApart DEF Shaped
    <3>2. QED
      BY <1>4, <2>3, <3>1 DEF Rank
  <2>4. QED
    BY <2>1, <2>2, <2>3
<1>5. CASE k = "verify"
  <2>1. CASE m = "proposal"
    BY <1>1, <1>2, <1>3, <1>5, <2>1, RowsAreApart DEF Shaped
  <2>2. CASE m = "verify"
    <3>1. (n = 2 /\ j = 3) \/ (n = 3 /\ j = 4)
      BY <1>1, <1>2, <1>3, <1>5, <2>2, RowsAreApart DEF Shaped
    <3>2. QED
      BY <1>5, <2>2, <3>1 DEF Rank
  <2>3. CASE m = "withdraw"
    <3>1. n = 2 /\ j = 3
      BY <1>1, <1>2, <1>3, <1>5, <2>3, RowsAreApart DEF Shaped
    <3>2. QED
      BY <1>5, <2>3, <3>1 DEF Rank
  <2>4. QED
    BY <2>1, <2>2, <2>3
<1>6. CASE k = "withdraw"
  <2>1. CASE m = "proposal"
    <3>1. n = 1 /\ j = 5
      BY <1>1, <1>2, <1>3, <1>6, <2>1, RowsAreApart DEF Shaped
    <3>2. QED
      BY <1>6, <2>1, <3>1 DEF Rank
  <2>2. CASE m = "verify"
    <3>1. n = 2 /\ j = 3
      BY <1>1, <1>2, <1>3, <1>6, <2>2, RowsAreApart DEF Shaped
    <3>2. QED
      BY <1>6, <2>2, <3>1 DEF Rank
  <2>3. CASE m = "withdraw"
    <3>1. (n = 0 /\ j = 1) \/ (n = 1 /\ j = 2) \/ (n = 2 /\ j = 3)
      BY <1>1, <1>2, <1>3, <1>6, <2>3, RowsAreApart DEF Shaped
    <3>2. QED
      BY <1>6, <2>3, <3>1 DEF Rank
  <2>4. QED
    BY <2>1, <2>2, <2>3
<1>7. QED
  BY <1>4, <1>5, <1>6

\* Who waits is in the middle of a statement, which asks for one more lock.
WaitersWant ==
  \A c \in Commands : Running(c) /\ seen[c] # Idle => done[c] < Len(Locks(c))

\* What is authorized by activeAccess goes on after it.
LEMMA LongPrograms ==
  ASSUME NEW c \in Commands, kind[c] \in Kinds, kind[c] \notin {"challenge", "withdraw"}
  PROVE  Len(Locks(c)) \in Nat /\ Len(Locks(c)) >= 2
<1>1. kind[c] \in AllKinds /\ Len(Locks(c)) \in Nat
  BY RowLocksAssumption, WritesAreLocked, LenProperties
<1>2. CASE ~ Upgrades(c)
  BY <1>1, <1>2, WhoUpgrades, ShapeOfProposal, ShapeOfVerify
<1>3. CASE Upgrades(c)
  BY <1>1, <1>3 DEF Upgrades, Upgraded
<1>4. QED
  BY <1>2, <1>3

LEMMA WaitersWantStep ==
  ASSUME Inv, WaitersWant, NEW c \in Commands, Step(c)
  PROVE  WaitersWant'
<1>1. /\ done \in [Commands -> Nat] /\ seen \in [Commands -> Nat \cup {Idle}]
      /\ outcome \in [Commands -> Outcomes] /\ UNCHANGED kind
      /\ \A d \in Commands : d # c => outcome'[d] = outcome[d] /\ done'[d] = done[d]
  BY Steps DEF Inv, TypeOK
<1>2. \A d \in Commands : Locks(d)' = Locks(d)
  BY <1>1, RecordsStay
<1>3. CASE Wait(c)
  <2>1. done[c] < Len(Locks(c)) /\ seen' = [seen EXCEPT ![c] = version[Wanted(c).row]] /\ done' = done
        /\ outcome' = outcome
    BY <1>3 DEF Wait, Wants
  <2>2. QED
    BY <1>1, <1>2, <2>1 DEF WaitersWant, Running
<1>4. CASE Grant(c)
  <2>1. /\ done' = [done EXCEPT ![c] = done[c] + 1] /\ outcome' = outcome
        /\ seen' = [seen EXCEPT ![c] = IF GoesOn(c) THEN version[Wanted(c).row] ELSE Idle]
        /\ Wants(c)
    BY <1>4 DEF Grant, Free
  <2>2. ASSUME GoesOn(c) PROVE done[c] + 1 < Len(Locks(c))
    <3>1. done[c] + 1 < 2
      BY <2>2, ShapeOfAccess DEF GoesOn
    <3>2. Len(Locks(c)) \in Nat /\ Len(Locks(c)) >= 2
      BY <2>2, <1>1, LongPrograms DEF GoesOn, Authorizing, Inv, TypeOK
    <3>3. QED
      BY <1>1, <3>1, <3>2
  <2>3. ASSUME NEW d \in Commands, Running(d)', seen'[d] # Idle PROVE done'[d] < Len(Locks(d))'
    <3>1. CASE d = c
      BY <1>1, <1>2, <2>1, <2>2, <2>3, <3>1
    <3>2. CASE d # c
      BY <1>1, <1>2, <2>1, <2>3, <3>2 DEF WaitersWant, Running
    <3>3. QED
      BY <3>1, <3>2
  <2>4. QED
    BY <2>3 DEF WaitersWant
<1>5. CASE ~ Wait(c) /\ ~ Grant(c)
  <2>1. seen' = seen /\ done' = done /\ \A d \in Commands : Running(d)' => Running(d)
    <3>1. seen' = seen /\ done' = done
      BY <1>5 DEF Step, Miss, Deny, Recall, Commit, Collide, Refuse, Abort
    <3>2. Running(c)
      BY Steps
    <3>3. QED
      BY <1>1, <3>1, <3>2 DEF Running
  <2>2. QED
    BY <1>2, <2>1 DEF WaitersWant
<1>6. QED
  BY <1>3, <1>4, <1>5

\* Waiting leads to somebody who has come further.
LEMMA BlockedByFurther ==
  ASSUME TypeOK, WaitersWant, NEW c \in Commands, NEW d \in Commands, WaitsFor(c, d),
         ~ Upgrades(c), ~ Upgrades(d)
  PROVE  /\ Rank(kind[c], done[c]) \in 0..6 /\ Rank(kind[d], done[d]) \in Nat
         /\ Rank(kind[c], done[c]) < Rank(kind[d], done[d])
<1>1. /\ kind[c] \in {"proposal", "verify", "withdraw"} /\ kind[d] \in {"proposal", "verify", "withdraw"}
      /\ done[c] \in Nat /\ done[d] \in Nat /\ done[d] <= Len(Locks(d)) /\ done[c] < Len(Locks(c))
  BY WhoUpgrades DEF TypeOK, WaitersWant, WaitsFor
<1>2. PICK j \in 1..done[d] : Conflict(Wanted(c), Locks(d)[j])
  BY DEF WaitsFor, Blocks
<1>3. /\ Len(Locks(c)) \in Nat /\ Len(Locks(d)) \in Nat
  BY WritesAreLocked, LenProperties DEF TypeOK
<1>4. Shaped(kind[c], done[c] + 1, Wanted(c))
  <2> DEFINE i == done[c] + 1
  <2>1. i \in Nat \ {0} /\ i <= Len(Locks(c))
    BY <1>1, <1>3
  <2> HIDE DEF i
  <2>2. Shaped(kind[c], i, Locks(c)[i])
    BY <1>1, <2>1, LocksAreShaped
  <2>3. QED
    BY <2>2 DEF Wanted, i
<1>5. j \in Nat \ {0} /\ j <= done[d] /\ j <= Len(Locks(d))
  BY <1>1, <1>3
<1>6. Shaped(kind[d], j, Locks(d)[j])
  BY <1>1, <1>5, LocksAreShaped
<1>7. QED
  BY <1>1, <1>2, <1>4, <1>5, <1>6, WaitingClimbs

\* Numbers up to six do not climb for ever.
LEMMA NobodyClimbsForEver ==
  ASSUME NEW S, NEW f, \A x \in S : f[x] \in 0..6 /\ \E y \in S : f[x] < f[y]
  PROVE  S = {}
<1>1. SUFFICES ASSUME S # {} PROVE FALSE
  OBVIOUS
<1>2. \A x \in S : f[x] \in 0..5
  OBVIOUS
<1>3. \A x \in S : f[x] \in 0..4
  BY <1>2
<1>4. \A x \in S : f[x] \in 0..3
  BY <1>3
<1>5. \A x \in S : f[x] \in 0..2
  BY <1>4
<1>6. \A x \in S : f[x] \in 0..1
  BY <1>5
<1>7. \A x \in S : f[x] = 0
  BY <1>6
<1>8. QED
  BY <1>1, <1>7

LEMMA CirclesHaveAnUpgrade == ASSUME TypeOK, WaitersWant PROVE CirclesUpgrade
<1>1. SUFFICES ASSUME NEW S \in SUBSET Commands, S # {}, Circle(S, Waits), \A c \in S : ~ Upgrades(c)
               PROVE  FALSE
  BY DEF CirclesUpgrade
<1> DEFINE f == [c \in S |-> Rank(kind[c], done[c])]
<1>2. ASSUME NEW c \in S PROVE f[c] \in 0..6 /\ \E d \in S : f[c] < f[d]
  <2>1. PICK d \in S : WaitsFor(c, d)
    BY <1>1 DEF Circle, Waits
  <2>2. QED
    BY <1>1, <2>1, BlockedByFurther
<1> HIDE DEF f
<1>3. QED
  BY <1>1, <1>2, NobodyClimbsForEver

(***************************************************************************)
(* Where commands wait for each other in a circle, one of them asks for a  *)
(* row for update that it had shared, to be authorized or to read the      *)
(* team.  Saving and handing in proposals, the steps of a verification and *)
(* withdrawing a request ask for each row once: among themselves they      *)
(* never deadlock, however many meet and whatever keys they are sent with. *)
(***************************************************************************)
THEOREM OnlyUpgradesDeadlock == Spec => []CirclesUpgrade
<1>1. Init => WaitersWant
  BY DEF Init, WaitersWant
<1>2. Inv /\ WaitersWant /\ [Next]_vars => WaitersWant'
  <2>1. ASSUME WaitersWant, UNCHANGED vars PROVE WaitersWant'
    <3>1. \A d \in Commands : Locks(d)' = Locks(d)
      BY <2>1, RecordsStay DEF vars
    <3>2. QED
      BY <2>1, <3>1 DEF vars, WaitersWant, Running
  <2>2. ASSUME Inv, WaitersWant, NEW c \in Commands, Step(c) PROVE WaitersWant'
    BY <2>2, WaitersWantStep
  <2>3. QED
    BY <2>1, <2>2 DEF Next
<1>3. Inv /\ WaitersWant => CirclesUpgrade
  BY CirclesHaveAnUpgrade DEF Inv
<1>4. QED
  BY <1>1, <1>2, <1>3, Invariance, PTL DEF Spec
=============================================================================
