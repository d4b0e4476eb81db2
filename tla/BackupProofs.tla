----------------------------- MODULE BackupProofs -----------------------------
(***************************************************************************)
(* Theorems about Backup, for every number of runs, volumes and writes,    *)
(* and every choice of what is restored and of what fails.                 *)
(***************************************************************************)
EXTENDS Backup, FiniteSetTheorems, TLAPS

BackupPoints == {"inspect", "copy", "save_env", "compress"}
RestorePoints == {"check", "create", "wipe", "untar", "load_env"}
LoopPoints == {"inspect", "copy", "create", "wipe", "untar"}

\* Where run p is, and how far its counters can be there.
RunInv(p) ==
    /\ Source[p] = Null => pc[p] \in BackupPoints \cup {"idle", "done"}
    /\ Source[p] # Null => pc[p] \in RestorePoints \cup {"idle", "done"}
    /\ exit[p] # "none" => pc[p] = "done"
    /\ pc[p] \in {"idle", "check"} => failures[p] = 0 /\ copies[p] = 0
    /\ pc[p] = "idle" => kept[p] = Nothing /\ at[p] = 1
    /\ failures[p] + copies[p] <= Len(Volumes)
    /\ pc[p] \in LoopPoints \cup {"check"} => failures[p] + copies[p] < at[p]

Differ(S) == \E a, b \in S : a # b

\* Files hold what the volumes held at moments of run p, or mixtures.
Faithful(files, p) ==
    \A v \in Names :
        \/ files[v] = Null
        \/ files[v] \in seen[p][v] \ {Absent}
        \/ files[v] = Mixed /\ Differ(seen[p][v])

\* The files have volume v, unless it was absent during run p.
HasVolume(files, p, v) == files[v] # Null \/ Absent \in seen[p][v]

\* What a backup has seen and copied so far.
CopyInv(p) ==
    Source[p] = Null =>
        /\ pc[p] \in BackupPoints => \A v \in Names : volume[v] \in seen[p][v]
        /\ torn[p] => pc[p] \in {"copy", "done"}
        /\ pc[p] = "copy" => volume[Current(p)] # Absent
        /\ pc[p] = "copy" /\ torn[p] => Differ(seen[p][Current(p)])
        /\ Faithful(kept[p].files, p)
        /\ pc[p] \in BackupPoints /\ copies[p] > 0 => \E v \in Names : kept[p].files[v] # Null
        /\ pc[p] \in BackupPoints /\ failures[p] = 0 =>
               \A i \in DOMAIN Volumes :
                   i < at[p] \/ pc[p] \in {"save_env", "compress"} =>
                       HasVolume(kept[p].files, p, Volumes[i])

\* What it left.
ArchiveInv(p) ==
    /\ archive[p] # Null =>
           Source[p] = Null /\ pc[p] = "done" /\ Faithful(archive[p].holds.files, p)
    /\ Source[p] = Null /\ exit[p] = "0" =>
           /\ archive[p] # Null /\ archive[p].whole
           /\ \E v \in Names : archive[p].holds.files[v] # Null
           /\ \A v \in Names : HasVolume(archive[p].holds.files, p, v)

\* What the archive has of volume v that p restores.
Held(p, v) == archive[Source[p]].holds.files[v]

\* A restore works from a whole archive, which is there as long as it needs it.
RestoreInv(p) ==
    Source[p] # Null =>
        /\ pc[p] \in RestorePoints => archive[Source[p]] # Null
        /\ pc[p] \in RestorePoints \ {"check"} =>
               archive[Source[p]].whole /\ kept[p] = archive[Source[p]].holds
        /\ pc[p] \in {"wipe", "untar"} => Held(p, Current(p)) # Null

\* p, which emptied v, is about to fill it, has counted a failure, was ended, or had
\* nothing to fill it with.
IsFilling(p, v) ==
    /\ pc[p] \in RestorePoints /\ failures[p] = 0 =>
           (pc[p] \in {"wipe", "untar"} /\ Current(p) = v) \/ Held(p, v) = Empty
    /\ exit[p] = "0" => Held(p, v) = Empty

WiperInv(v) ==
    /\ volume[v] = Empty => wiper[v] # Null /\ IsFilling(wiper[v], v)
    /\ wiper[v] # Null =>
           /\ Source[wiper[v]] # Null /\ archive[Source[wiper[v]]] # Null
           /\ archive[Source[wiper[v]]].whole /\ Held(wiper[v], v) # Null
           /\ pc[wiper[v]] \notin {"idle", "check"}

BackupInv ==
    /\ BackupTypeOK
    /\ \A p \in Runs : RunInv(p) /\ CopyInv(p) /\ ArchiveInv(p) /\ RestoreInv(p)
    /\ \A v \in Names : WiperInv(v)

-----------------------------------------------------------------------------
(* Types.                                                                   *)

\* The volumes of the script are a non-empty list.
LEMMA VolumeList ==
    /\ Len(Volumes) \in Nat /\ DOMAIN Volumes = 1..Len(Volumes) /\ Len(Volumes) >= 1
    /\ \A i \in DOMAIN Volumes : Volumes[i] \in Names
  <1>1. Volumes \in Seq(Names) /\ Volumes # <<>>
    BY RunsAssumption
  <1> QED
    BY <1>1

\* What is no content of a volume, and no number.
LEMMA Distinct ==
    /\ Null \notin Contents /\ Absent \in Contents /\ Empty \in Contents /\ Mixed \in Contents
    /\ Absent # Empty /\ Absent # Mixed /\ Empty # Mixed
    /\ \A n \in Nat : n # Absent /\ n # Empty /\ n # Mixed /\ n # Null
    /\ Null \notin [whole : BOOLEAN, holds : Kept]
  <1>1. MaxWrites \in Nat
    BY FaultsAssumption
  <1> QED
    BY <1>1, ValuesAssumption DEF Contents

\* The volume a run is at.
LEMMA CurrentName ==
    ASSUME BackupTypeOK, NEW p \in Runs
    PROVE  Current(p) \in Names /\ at[p] \in 1..Len(Volumes)
  BY VolumeList DEF BackupTypeOK, Current

\* The end of one turn of the loop.
LEMMA AdvanceGoes ==
    ASSUME BackupTypeOK, NEW p \in Runs, Advance(p)
    PROVE  /\ exit' = exit
           /\ \/ /\ at[p] < Len(Volumes) /\ at' = [at EXCEPT ![p] = at[p] + 1]
                 /\ pc' = [pc EXCEPT ![p] = IF Source[p] = Null THEN "inspect" ELSE "create"]
              \/ /\ at[p] = Len(Volumes) /\ at' = at
                 /\ pc' = [pc EXCEPT ![p] = IF Source[p] = Null THEN "save_env" ELSE "load_env"]
           /\ at' \in [Runs -> DOMAIN Volumes]
           /\ pc' \in [Runs -> InFlightPoints \cup {"idle", "done"}]
  <1>1. at[p] \in 1..Len(Volumes) /\ at \in [Runs -> DOMAIN Volumes]
        /\ pc \in [Runs -> InFlightPoints \cup {"idle", "done"}]
    BY CurrentName DEF BackupTypeOK
  <1>2. CASE at[p] < Len(Volumes)
    BY <1>1, <1>2, VolumeList DEF Advance, Goto, InFlightPoints
  <1>3. CASE ~(at[p] < Len(Volumes))
    BY <1>1, <1>3, VolumeList DEF Advance, Goto, InFlightPoints
  <1> QED
    BY <1>2, <1>3

\* Volume v comes to hold c, and is not lost by it.
Moves(v, c) == Change(v, c) /\ (c = Absent => volume[v] = Absent)

VolumeMoves ==
    \/ UNCHANGED <<volume, torn, seen>>
    \/ \E v \in Names, c \in Contents : Moves(v, c)

LEMMA ChangeType ==
    ASSUME BackupTypeOK, VolumeMoves
    PROVE  /\ volume' \in [Names -> Contents] /\ torn' \in [Runs -> BOOLEAN]
           /\ seen' \in [Runs -> [Names -> SUBSET Contents]]
  <1>1. CASE UNCHANGED <<volume, torn, seen>>
    BY <1>1 DEF BackupTypeOK
  <1>2. ASSUME NEW v \in Names, NEW c \in Contents, Change(v, c)
        PROVE  /\ volume' \in [Names -> Contents] /\ torn' \in [Runs -> BOOLEAN]
               /\ seen' \in [Runs -> [Names -> SUBSET Contents]]
    <2>1. volume' \in [Names -> Contents]
      BY <1>2 DEF Change, BackupTypeOK
    <2>2. \A q \in Runs : (torn[q] \/ (pc[q] = "copy" /\ Current(q) = v /\ volume[v] # c)) \in BOOLEAN
      OBVIOUS
    <2>3. torn' \in [Runs -> BOOLEAN]
      BY <1>2, <2>2 DEF Change
    <2>4. \A q \in Runs : [seen[q] EXCEPT ![v] = @ \cup {c}] \in [Names -> SUBSET Contents]
      BY <1>2 DEF BackupTypeOK
    <2>5. seen' \in [Runs -> [Names -> SUBSET Contents]]
      BY <1>2, <2>4 DEF Change, BackupTypeOK
    <2> QED
      BY <2>1, <2>3, <2>5
  <1> QED
    BY <1>1, <1>2 DEF VolumeMoves, Moves

\* A step of a run, or of the services, changes a volume in this way only.
LEMMA StepMoves ==
    ASSUME BackupInv, NEW p \in Runs, RestoreStep(p) \/ Kill(p)
    PROVE  VolumeMoves
  <1>1. BackupTypeOK /\ RestoreInv(p) /\ Current(p) \in Names
    BY CurrentName DEF BackupInv
  <1>2. volume[Current(p)] \in Contents /\ Empty \in Contents /\ Mixed \in Contents
        /\ Empty # Absent /\ Mixed # Absent
    BY <1>1, Distinct DEF BackupTypeOK
  <1>3. CASE CheckArchive(p) \/ LoadEnv(p)
    BY <1>3 DEF CheckArchive, LoadEnv, VolumeMoves, history
  <1>4. CASE Create(p)
    BY <1>1, <1>2, <1>4 DEF Create, VolumeMoves, Moves
  <1>5. CASE Wipe(p)
    BY <1>1, <1>2, <1>5 DEF Wipe, VolumeMoves, Moves
  <1>6. CASE Untar(p)
    <2> DEFINE c == kept[p].files[Current(p)]
    <2>1. c \in Contents /\ c # Absent
      <3>1. Source[p] # Null /\ Source[p] \in Runs /\ pc[p] = "untar"
        BY <1>1, <1>6, RunsAssumption DEF BackupInv, RunInv, BackupPoints, Untar
      <3>2. c = Held(p, Current(p)) /\ c # Null /\ archive[Source[p]] # Null
        BY <1>1, <3>1 DEF RestoreInv, RestorePoints, Held
      <3>3. Faithful(archive[Source[p]].holds.files, Source[p])
        BY <3>1, <3>2 DEF BackupInv, ArchiveInv
      <3>4. seen[Source[p]][Current(p)] \subseteq Contents
        BY <1>1, <3>1 DEF BackupTypeOK
      <3> QED
        BY <1>1, <1>2, <3>2, <3>3, <3>4 DEF Faithful, Held
    <2>2. \E x \in {c, volume[Current(p)], Mixed} : Change(Current(p), x)
      BY <1>6 DEF Untar
    <2> QED
      BY <1>1, <1>2, <2>1, <2>2 DEF VolumeMoves, Moves
  <1>7. CASE Kill(p)
    BY <1>1, <1>2, <1>7 DEF Kill, VolumeMoves, Moves
  <1> QED
    BY <1>3, <1>4, <1>5, <1>6, <1>7 DEF RestoreStep

\* One more failure, or one more volume done, is still within the list.
LEMMA CountedType ==
    ASSUME BackupInv, NEW p \in Runs, pc[p] \in LoopPoints
    PROVE  /\ Counted(failures, p) => failures' \in [Runs -> 0..Len(Volumes)]
           /\ Counted(copies, p) => copies' \in [Runs -> 0..Len(Volumes)]
           /\ failures[p] + 1 \in 0..Len(Volumes) /\ copies[p] + 1 \in 0..Len(Volumes)
           /\ failures[p] \in Nat /\ copies[p] \in Nat
  <1>1. BackupTypeOK /\ RunInv(p) /\ at[p] \in 1..Len(Volumes)
    BY CurrentName DEF BackupInv
  <1>2. failures[p] \in 0..Len(Volumes) /\ copies[p] \in 0..Len(Volumes)
        /\ failures[p] + copies[p] < at[p]
    BY <1>1 DEF BackupTypeOK, RunInv
  <1>3. failures[p] + 1 \in 0..Len(Volumes) /\ copies[p] + 1 \in 0..Len(Volumes)
    BY <1>1, <1>2, VolumeList
  <1>4. failures \in [Runs -> 0..Len(Volumes)] /\ copies \in [Runs -> 0..Len(Volumes)]
    BY <1>1 DEF BackupTypeOK
  <1>5. /\ Counted(failures, p) => failures' \in [Runs -> 0..Len(Volumes)]
        /\ Counted(copies, p) => copies' \in [Runs -> 0..Len(Volumes)]
    BY <1>3, <1>4 DEF Counted
  <1>6. failures[p] \in Nat /\ copies[p] \in Nat
    BY <1>2, VolumeList
  <1> QED
    BY <1>3, <1>5, <1>6

\* What a run has in its directory and what it leaves.
LEMMA KeptType ==
    ASSUME BackupTypeOK, NEW p \in Runs
    PROVE  /\ Nothing \in Kept /\ kept[p] \in Kept /\ kept \in [Runs -> Kept]
           /\ archive[p] # Null => archive[p].holds \in Kept /\ archive[p].whole \in BOOLEAN
  BY DEF BackupTypeOK, Kept, Nothing

LEMMA KeptFile ==
    ASSUME BackupTypeOK, NEW p \in Runs, NEW v \in Names, NEW c \in Contents \cup {Null}
    PROVE  [kept EXCEPT ![p].files[v] = c] \in [Runs -> Kept]
  <1>1. kept \in [Runs -> Kept] /\ kept[p] \in Kept
    BY DEF BackupTypeOK
  <1>2. [kept[p] EXCEPT !.files[v] = c] \in Kept
    BY <1>1 DEF Kept
  <1>3. [kept EXCEPT ![p].files[v] = c] = [kept EXCEPT ![p] = [kept[p] EXCEPT !.files[v] = c]]
    BY <1>1
  <1> QED
    BY <1>1, <1>2, <1>3

\* The directory and the archive of a run after a step of it.
LEMMA KeptMoves ==
    ASSUME BackupTypeOK, NEW p \in Runs
    PROVE  /\ Remove(p) => kept' \in [Runs -> Kept]
           /\ kept' = [kept EXCEPT ![p].env = env] => kept' \in [Runs -> Kept]
           /\ kept' = kept => kept' \in [Runs -> Kept]
           /\ (archive' = [archive EXCEPT ![p] = [whole |-> TRUE, holds |-> kept[p]]])
                 => archive' \in [Runs -> {Null} \cup [whole : BOOLEAN, holds : Kept]]
           /\ (archive' = [archive EXCEPT ![p] = [whole |-> FALSE, holds |-> kept[p]]])
                 => archive' \in [Runs -> {Null} \cup [whole : BOOLEAN, holds : Kept]]
           /\ (archive' = [archive EXCEPT ![p] = archive[p]])
                 => archive' \in [Runs -> {Null} \cup [whole : BOOLEAN, holds : Kept]]
  <1>1. kept \in [Runs -> Kept] /\ kept[p] \in Kept /\ Nothing \in Kept
    BY KeptType
  <1>2. env \in Contents
        /\ archive \in [Runs -> {Null} \cup [whole : BOOLEAN, holds : Kept]]
    BY DEF BackupTypeOK
  <1>3. Remove(p) => kept' \in [Runs -> Kept]
    BY <1>1 DEF Remove
  <1>4. [kept EXCEPT ![p].env = env] \in [Runs -> Kept]
    <2>1. [kept[p] EXCEPT !.env = env] \in Kept
      BY <1>1, <1>2 DEF Kept
    <2>2. [kept EXCEPT ![p].env = env] = [kept EXCEPT ![p] = [kept[p] EXCEPT !.env = env]]
      BY <1>1
    <2> QED
      BY <1>1, <2>1, <2>2
  <1> DEFINE Archives == {Null} \cup [whole : BOOLEAN, holds : Kept]
  <1>5. ASSUME NEW x \in Archives, archive' = [archive EXCEPT ![p] = x]
        PROVE  archive' \in [Runs -> Archives]
    BY <1>2, <1>5
  <1>6. /\ [whole |-> TRUE, holds |-> kept[p]] \in Archives
        /\ [whole |-> FALSE, holds |-> kept[p]] \in Archives
        /\ archive[p] \in Archives
    BY <1>1, <1>2
  <1>7. (archive' = [archive EXCEPT ![p] = [whole |-> TRUE, holds |-> kept[p]]])
           => archive' \in [Runs -> Archives]
    BY <1>5, <1>6
  <1>8. (archive' = [archive EXCEPT ![p] = [whole |-> FALSE, holds |-> kept[p]]])
           => archive' \in [Runs -> Archives]
    BY <1>5, <1>6
  <1>9. (archive' = [archive EXCEPT ![p] = archive[p]]) => archive' \in [Runs -> Archives]
    BY <1>5, <1>6
  <1> QED
    BY <1>1, <1>3, <1>4, <1>7, <1>8, <1>9

LEMMA BackupStepType ==
    ASSUME BackupInv, NEW p \in Runs, BackupStep(p)
    PROVE  BackupTypeOK'
  <1>1. BackupTypeOK /\ Current(p) \in Names
    BY CurrentName DEF BackupInv
  <1> USE <1>1 DEF BackupTypeOK
  <1>2. CASE Start(p)
    <2>1. seen' \in [Runs -> [Names -> SUBSET Contents]]
      BY <1>2 DEF Start
    <2> QED
      BY <1>2, <2>1 DEF Start, Goto, InFlightPoints, counters
  <1>3. CASE Inspect(p)
    <2>1. at' \in [Runs -> DOMAIN Volumes] /\ exit' = exit
          /\ pc' \in [Runs -> InFlightPoints \cup {"idle", "done"}]
      BY <1>3, AdvanceGoes DEF Inspect, Goto, InFlightPoints
    <2> QED
      BY <1>3, <2>1 DEF Inspect, counters, history
  <1>4. CASE CopyVolume(p)
    <2>1. at' \in [Runs -> DOMAIN Volumes] /\ exit' = exit
          /\ pc' \in [Runs -> InFlightPoints \cup {"idle", "done"}]
      BY <1>4, AdvanceGoes DEF CopyVolume
    <2>2. (IF torn[p] THEN Mixed ELSE volume[Current(p)]) \in Contents \cup {Null}
      BY Distinct
    <2> HIDE DEF BackupTypeOK
    <2>5. [kept EXCEPT ![p].files[Current(p)] = IF torn[p] THEN Mixed ELSE volume[Current(p)]]
              \in [Runs -> Kept]
      BY <1>1, <2>2, KeptFile
    <2>6. kept \in [Runs -> Kept] /\ torn \in [Runs -> BOOLEAN]
      BY <1>1 DEF BackupTypeOK
    <2>3. kept' \in [Runs -> Kept] /\ torn' \in [Runs -> BOOLEAN]
      BY <1>4, <2>5, <2>6 DEF CopyVolume
    <2>4. failures' \in [Runs -> 0..Len(Volumes)] /\ copies' \in [Runs -> 0..Len(Volumes)]
      BY <1>1, <1>4, CountedType DEF CopyVolume, LoopPoints, BackupTypeOK
    <2> QED
      BY <1>4, <2>1, <2>3, <2>4 DEF CopyVolume, history, BackupTypeOK
  <1>5. CASE SaveEnv(p)
    <2>1. kept' \in [Runs -> Kept]
      BY <1>5, <1>1, KeptMoves DEF SaveEnv
    <2> QED
      BY <1>5, <2>1 DEF SaveEnv, Goto, Exit, InFlightPoints, counters, history
  <1>6. CASE Compress(p)
    <2>1. kept' \in [Runs -> Kept]
      BY <1>6, <1>1, KeptMoves DEF Compress
    <2>2. archive' \in [Runs -> {Null} \cup [whole : BOOLEAN, holds : Kept]]
      BY <1>6, <1>1, KeptMoves DEF Compress
    <2> QED
      BY <1>6, <2>1, <2>2 DEF Compress, Exit, Status, counters, history
  <1> QED
    BY <1>2, <1>3, <1>4, <1>5, <1>6 DEF BackupStep

LEMMA RestoreStepType ==
    ASSUME BackupInv, NEW p \in Runs, RestoreStep(p) \/ Kill(p)
    PROVE  BackupTypeOK'
  <1>1. BackupTypeOK /\ Current(p) \in Names
    BY CurrentName DEF BackupInv
  <1>2. /\ volume' \in [Names -> Contents] /\ torn' \in [Runs -> BOOLEAN]
        /\ seen' \in [Runs -> [Names -> SUBSET Contents]]
    BY <1>1, StepMoves, ChangeType
  <1> USE <1>1, <1>2 DEF BackupTypeOK
  <1>3. CASE CheckArchive(p)
    <2>1. kept' \in [Runs -> Kept]
      <3>1. archive[Source[p]].holds \in Kept
        <4> HIDE DEF BackupTypeOK
        <4>1. RunInv(p) /\ RestoreInv(p) /\ pc[p] = "check"
          BY <1>3 DEF BackupInv, CheckArchive
        <4>2. Source[p] # Null /\ Source[p] \in Runs
          BY <4>1, RunsAssumption DEF RunInv, BackupPoints
        <4>3. archive[Source[p]] # Null
          BY <4>1, <4>2 DEF RestoreInv, RestorePoints
        <4> QED
          BY <1>1, <4>2, <4>3, KeptType
      <3>2. kept \in [Runs -> Kept]
        OBVIOUS
      <3> QED
        BY <1>3, <3>1, <3>2 DEF CheckArchive
    <2> QED
      BY <1>3, <2>1 DEF CheckArchive, Goto, Exit, InFlightPoints, counters, history
  <1>4. CASE Create(p)
    <2>1. at' \in [Runs -> DOMAIN Volumes]
          /\ pc' \in [Runs -> InFlightPoints \cup {"idle", "done"}]
      BY <1>4, AdvanceGoes DEF Create, Goto, Exit, InFlightPoints
    <2>2. kept' \in [Runs -> Kept] /\ wiper' \in [Names -> Runs \cup {Null}]
      BY <1>4, <1>1, KeptMoves DEF Create
    <2>3. exit' \in [Runs -> {"none", "0", "1", "killed"}]
      BY <1>4, AdvanceGoes DEF Create, Goto, Exit
    <2> QED
      BY <1>4, <2>1, <2>2, <2>3 DEF Create, counters
  <1>5. CASE Wipe(p)
    <2>1. at' \in [Runs -> DOMAIN Volumes] /\ exit' = exit
          /\ pc' \in [Runs -> InFlightPoints \cup {"idle", "done"}]
      BY <1>5, AdvanceGoes DEF Wipe, Goto, InFlightPoints
    <2>2. failures' \in [Runs -> 0..Len(Volumes)]
      BY <1>5, CountedType DEF Wipe, LoopPoints
    <2>3. wiper' \in [Names -> Runs \cup {Null}]
      BY <1>5 DEF Wipe
    <2> QED
      BY <1>5, <2>1, <2>2, <2>3 DEF Wipe
  <1>6. CASE Untar(p)
    <2>1. at' \in [Runs -> DOMAIN Volumes] /\ exit' = exit
          /\ pc' \in [Runs -> InFlightPoints \cup {"idle", "done"}]
      BY <1>6, AdvanceGoes DEF Untar
    <2>2. failures' \in [Runs -> 0..Len(Volumes)] /\ copies' \in [Runs -> 0..Len(Volumes)]
      BY <1>6, CountedType DEF Untar, LoopPoints
    <2> QED
      BY <1>6, <2>1, <2>2 DEF Untar
  <1>7. CASE LoadEnv(p)
    <2>1. kept' \in [Runs -> Kept] /\ env' \in Contents
      BY <1>7, KeptType DEF LoadEnv, Remove, Kept
    <2> QED
      BY <1>7, <2>1 DEF LoadEnv, Exit, Status, counters, history
  <1>8. CASE Kill(p)
    <2>1. kept' \in [Runs -> Kept]
      BY <1>8, <1>1, KeptMoves DEF Kill
    <2>2. archive' \in [Runs -> {Null} \cup [whole : BOOLEAN, holds : Kept]]
      BY <1>8, <1>1, KeptMoves DEF Kill
    <2> QED
      BY <1>8, <2>1, <2>2 DEF Kill, Exit, counters
  <1> QED
    BY <1>3, <1>4, <1>5, <1>6, <1>7, <1>8 DEF RestoreStep

\* Between the steps of the runs: writes, disasters, and nothing.
Elsewhere == Write \/ Disaster \/ UNCHANGED vars

LEMMA WriteMoves ==
    ASSUME BackupTypeOK, Write
    PROVE  VolumeMoves
  <1>1. writes' \in Contents /\ writes' # Absent
    BY Distinct, FaultsAssumption DEF Write, BackupTypeOK, Contents
  <1> QED
    BY <1>1 DEF Write, VolumeMoves, Moves

LEMMA ElsewhereType ==
    ASSUME BackupTypeOK, Elsewhere
    PROVE  BackupTypeOK'
  <1>1. CASE Write
    <2>1. writes' \in 0..MaxWrites /\ env' \in Contents
      BY <1>1, FaultsAssumption DEF Write, BackupTypeOK, Contents
    <2>2. /\ volume' \in [Names -> Contents] /\ torn' \in [Runs -> BOOLEAN]
          /\ seen' \in [Runs -> [Names -> SUBSET Contents]]
      BY <1>1, WriteMoves, ChangeType
    <2> QED
      BY <1>1, <2>1, <2>2 DEF Write, BackupTypeOK, counters
  <1>2. CASE Disaster
    BY <1>2, Distinct DEF Disaster, BackupTypeOK, counters, history
  <1>3. CASE UNCHANGED vars
    BY <1>3 DEF vars, BackupTypeOK, counters, history
  <1> QED
    BY <1>1, <1>2, <1>3 DEF Elsewhere

LEMMA TypeInit == Init => BackupTypeOK
  <1> SUFFICES ASSUME Init PROVE BackupTypeOK
    OBVIOUS
  <1>1. 1 \in DOMAIN Volumes /\ 0 \in 0..Len(Volumes) /\ 0 \in 0..MaxWrites
    BY VolumeList, FaultsAssumption
  <1>2. Nothing \in Kept
    BY DEF Nothing, Kept
  <1> QED
    BY <1>1, <1>2 DEF Init, BackupTypeOK, Contents

-----------------------------------------------------------------------------
(* What a step leaves alone.                                                *)

\* A step does not concern run q.
Same(q) ==
    /\ pc'[q] = pc[q] /\ at'[q] = at[q] /\ exit'[q] = exit[q]
    /\ kept'[q] = kept[q] /\ archive'[q] = archive[q]
    /\ failures'[q] = failures[q] /\ copies'[q] = copies[q]

\* Or it changes a volume beside q.
Beside(q) ==
    /\ Same(q)
    /\ \/ volume' = volume /\ torn'[q] = torn[q] /\ seen'[q] = seen[q]
       \/ \E v \in Names, c \in Contents : Moves(v, c)

\* What is in an archive stays there.
ArchivesStay == \A q \in Runs : archive[q] # Null => archive'[q] = archive[q]

\* A step of one run does not concern another.
LEMMA StepFrame ==
    ASSUME BackupInv, NEW p \in Runs, NEW q \in Runs, q # p,
           BackupStep(p) \/ RestoreStep(p) \/ Kill(p)
    PROVE  Same(q)
  <1>1. BackupTypeOK
    BY DEF BackupInv
  <1>2. Advance(p) => pc'[q] = pc[q] /\ at'[q] = at[q] /\ exit'[q] = exit[q]
    BY <1>1 DEF Advance, Goto, BackupTypeOK
  <1>3. CASE BackupStep(p)
    <2>1. CASE Start(p)
      BY <1>1, <2>1 DEF Start, Goto, Same, BackupTypeOK, counters
    <2>2. CASE Inspect(p)
      BY <1>1, <1>2, <2>2 DEF Inspect, Goto, Same, BackupTypeOK, counters
    <2>3. CASE CopyVolume(p)
      BY <1>1, <1>2, <2>3 DEF CopyVolume, Counted, Same, BackupTypeOK
    <2>4. CASE SaveEnv(p)
      BY <1>1, <2>4 DEF SaveEnv, Goto, Exit, Same, BackupTypeOK, counters
    <2>5. CASE Compress(p)
      BY <1>1, <2>5 DEF Compress, Exit, Remove, Same, BackupTypeOK, counters
    <2> QED
      BY <1>3, <2>1, <2>2, <2>3, <2>4, <2>5 DEF BackupStep
  <1>4. CASE RestoreStep(p)
    <2>1. CASE CheckArchive(p)
      BY <1>1, <2>1 DEF CheckArchive, Goto, Exit, Same, BackupTypeOK, counters
    <2>2. CASE Create(p)
      BY <1>1, <1>2, <2>2 DEF Create, Goto, Exit, Remove, Same, BackupTypeOK, counters
    <2>3. CASE Wipe(p)
      BY <1>1, <1>2, <2>3 DEF Wipe, Goto, Counted, Same, BackupTypeOK
    <2>4. CASE Untar(p)
      BY <1>1, <1>2, <2>4 DEF Untar, Counted, Same, BackupTypeOK
    <2>5. CASE LoadEnv(p)
      BY <1>1, <2>5 DEF LoadEnv, Exit, Remove, Same, BackupTypeOK, counters
    <2> QED
      BY <1>4, <2>1, <2>2, <2>3, <2>4, <2>5 DEF RestoreStep
  <1>5. CASE Kill(p)
    BY <1>1, <1>5 DEF Kill, Exit, Remove, Same, BackupTypeOK, counters
  <1> QED
    BY <1>3, <1>4, <1>5

LEMMA StepBeside ==
    ASSUME BackupInv, NEW p \in Runs, NEW q \in Runs, q # p,
           BackupStep(p) \/ RestoreStep(p) \/ Kill(p)
    PROVE  Beside(q)
  <1>1. BackupTypeOK /\ Same(q)
    BY StepFrame DEF BackupInv
  <1>2. CASE BackupStep(p)
    <2>1. volume' = volume /\ torn'[q] = torn[q] /\ seen'[q] = seen[q]
      BY <1>1, <1>2
      DEF BackupStep, Start, Inspect, CopyVolume, SaveEnv, Compress, history, BackupTypeOK
    <2> QED
      BY <1>1, <2>1 DEF Beside
  <1>3. CASE RestoreStep(p) \/ Kill(p)
    BY <1>1, <1>3, StepMoves DEF Beside, VolumeMoves
  <1> QED
    BY <1>2, <1>3

\* A run that is through takes no step.
LEMMA StepArchives ==
    ASSUME BackupInv, NEW p \in Runs, BackupStep(p) \/ RestoreStep(p) \/ Kill(p)
    PROVE  ArchivesStay
  <1> SUFFICES ASSUME NEW q \in Runs, archive[q] # Null
               PROVE  archive'[q] = archive[q]
    BY DEF ArchivesStay
  <1>1. pc[q] = "done"
    BY DEF BackupInv, ArchiveInv
  <1>2. pc[p] # "done"
    BY DEF BackupStep, Start, Inspect, CopyVolume, SaveEnv, Compress, RestoreStep,
           CheckArchive, Create, Wipe, Untar, LoadEnv, Kill, InFlightPoints
  <1> QED
    BY <1>1, <1>2, StepFrame DEF Same

LEMMA ElsewhereFrame ==
    ASSUME BackupTypeOK, Elsewhere
    PROVE  /\ \A q \in Runs : Same(q)
           /\ ArchivesStay
           /\ wiper' = wiper
           /\ Disaster \/ \A q \in Runs : Beside(q)
  <1>1. (\A q \in Runs : Same(q)) /\ ArchivesStay /\ wiper' = wiper
    BY DEF Elsewhere, Write, Disaster, vars, counters, history, Same, ArchivesStay
  <1>2. CASE Write
    BY <1>1, <1>2, WriteMoves DEF Beside, VolumeMoves
  <1>3. CASE UNCHANGED vars
    BY <1>1, <1>3 DEF Beside, vars, history
  <1> QED
    BY <1>1, <1>2, <1>3 DEF Elsewhere

-----------------------------------------------------------------------------
(* A run that does not step.                                                *)

LEMMA BesideRun ==
    ASSUME BackupInv, NEW q \in Runs, Same(q)
    PROVE  RunInv(q)'
  BY DEF BackupInv, RunInv, Same

\* What a run has seen only grows; while a volume changes, the run sees it.
LEMMA MoveSeen ==
    ASSUME BackupInv, NEW q \in Runs, Same(q), Source[q] = Null,
           NEW v \in Names, NEW c \in Contents, Moves(v, c)
    PROVE  /\ \A u \in Names : seen[q][u] \subseteq seen'[q][u]
           /\ \A u \in Names : volume'[u] = IF u = v THEN c ELSE volume[u]
           /\ pc[q] \in InFlightPoints => c \in seen'[q][v]
           /\ pc[q] \notin InFlightPoints => seen'[q] = seen[q]
           /\ torn'[q] <=> (torn[q] \/ (pc[q] = "copy" /\ Current(q) = v /\ volume[v] # c))
  <1>1. BackupTypeOK
    BY DEF BackupInv
  <1> QED
    BY <1>1 DEF Moves, Change, BackupTypeOK

LEMMA BesideSeen ==
    ASSUME BackupInv, NEW q \in Runs, Beside(q), Source[q] = Null
    PROVE  /\ \A u \in Names : seen[q][u] \subseteq seen'[q][u]
           /\ pc[q] \in BackupPoints /\ (\A u \in Names : volume[u] \in seen[q][u])
                 => \A u \in Names : volume'[u] \in seen'[q][u]
           /\ \A u \in Names : volume[u] # Absent => volume'[u] # Absent
           /\ torn[q] => torn'[q]
           /\ torn'[q] => torn[q] \/ (pc[q] = "copy" /\ volume'[Current(q)] # volume[Current(q)])
           /\ pc[q] \notin InFlightPoints => seen'[q] = seen[q]
  <1>1. BackupTypeOK /\ Same(q) /\ Current(q) \in Names
    BY CurrentName DEF BackupInv, Beside
  <1>2. CASE volume' = volume /\ torn'[q] = torn[q] /\ seen'[q] = seen[q]
    BY <1>2
  <1>3. ASSUME NEW v \in Names, NEW c \in Contents, Moves(v, c)
        PROVE  /\ \A u \in Names : seen[q][u] \subseteq seen'[q][u]
               /\ pc[q] \in BackupPoints /\ (\A u \in Names : volume[u] \in seen[q][u])
                     => \A u \in Names : volume'[u] \in seen'[q][u]
               /\ \A u \in Names : volume[u] # Absent => volume'[u] # Absent
               /\ torn[q] => torn'[q]
               /\ torn'[q] =>
                    torn[q] \/ (pc[q] = "copy" /\ volume'[Current(q)] # volume[Current(q)])
               /\ pc[q] \notin InFlightPoints => seen'[q] = seen[q]
    <2>1. c = Absent => volume[v] = Absent
      BY <1>3 DEF Moves
    <2> QED
      BY <1>1, <1>3, <2>1, MoveSeen DEF BackupPoints, InFlightPoints
  <1> QED
    BY <1>2, <1>3 DEF Beside

\* Files that are faithful stay so.
LEMMA FaithfulStays ==
    ASSUME NEW files, NEW p \in Runs, Faithful(files, p),
           \A u \in Names : seen[p][u] \subseteq seen'[p][u]
    PROVE  \A v \in Names :
                \/ files[v] = Null
                \/ files[v] \in seen'[p][v] \ {Absent}
                \/ files[v] = Mixed /\ Differ(seen'[p][v])
  BY DEF Faithful, Differ

LEMMA BesideCopy ==
    ASSUME BackupInv, NEW q \in Runs, Beside(q)
    PROVE  CopyInv(q)'
  <1> SUFFICES ASSUME Source[q] = Null
               PROVE  CopyInv(q)'
    BY DEF CopyInv
  <1>1. BackupTypeOK /\ CopyInv(q) /\ Same(q) /\ Current(q) \in Names
    BY CurrentName DEF BackupInv, Beside
  <1>2. Current(q)' = Current(q)
    BY <1>1 DEF Current, Same
  <1>3. /\ \A u \in Names : seen[q][u] \subseteq seen'[q][u]
        /\ pc[q] \in BackupPoints /\ (\A u \in Names : volume[u] \in seen[q][u])
              => \A u \in Names : volume'[u] \in seen'[q][u]
        /\ \A u \in Names : volume[u] # Absent => volume'[u] # Absent
        /\ torn'[q] => torn[q] \/ (pc[q] = "copy" /\ volume'[Current(q)] # volume[Current(q)])
    BY BesideSeen
  <1>4. (pc[q] \in BackupPoints => \A v \in Names : volume[v] \in seen[q][v])'
    BY <1>1, <1>3 DEF CopyInv, Same
  <1>5. (torn[q] => pc[q] \in {"copy", "done"})'
    BY <1>1, <1>3 DEF CopyInv, Same
  <1>6. (pc[q] = "copy" => volume[Current(q)] # Absent)'
    BY <1>1, <1>2, <1>3 DEF CopyInv, Same
  <1>7. (pc[q] = "copy" /\ torn[q] => Differ(seen[q][Current(q)]))'
    <2> SUFFICES ASSUME pc'[q] = "copy", torn'[q]
                 PROVE  Differ(seen'[q][Current(q)])
      BY <1>2 DEF Differ
    <2>1. pc[q] = "copy"
      BY <1>1 DEF Same
    <2>2. CASE torn[q]
      BY <1>1, <1>3, <2>1, <2>2 DEF CopyInv, Differ
    <2>3. CASE ~torn[q]
      <3>1. volume[Current(q)] \in seen[q][Current(q)]
        BY <1>1, <2>1 DEF CopyInv, BackupPoints
      <3>2. volume'[Current(q)] \in seen'[q][Current(q)]
        BY <1>1, <1>3, <2>1 DEF CopyInv, BackupPoints
      <3>3. volume'[Current(q)] # volume[Current(q)]
        BY <1>3, <2>3
      <3> QED
        BY <1>1, <1>3, <3>1, <3>2, <3>3 DEF Differ
    <2> QED
      BY <2>2, <2>3
  <1>8. Faithful(kept[q].files, q)'
    <2>1. Faithful(kept[q].files, q)
      BY <1>1 DEF CopyInv
    <2> QED
      BY <1>1, <1>3, <2>1, FaithfulStays DEF Faithful, Differ, Same
  <1>9. (pc[q] \in BackupPoints /\ copies[q] > 0 => \E v \in Names : kept[q].files[v] # Null)'
    BY <1>1 DEF CopyInv, Same
  <1>10. (pc[q] \in BackupPoints /\ failures[q] = 0 =>
               \A i \in DOMAIN Volumes :
                   i < at[q] \/ pc[q] \in {"save_env", "compress"} =>
                       HasVolume(kept[q].files, q, Volumes[i]))'
    BY <1>1, <1>3, VolumeList DEF CopyInv, Same, HasVolume
  <1> QED
    BY <1>4, <1>5, <1>6, <1>7, <1>8, <1>9, <1>10 DEF CopyInv

LEMMA BesideArchive ==
    ASSUME BackupInv, NEW q \in Runs, Beside(q)
    PROVE  ArchiveInv(q)'
  <1>1. BackupTypeOK /\ ArchiveInv(q) /\ RunInv(q) /\ Same(q)
    BY DEF BackupInv, Beside
  <1>2. archive[q] # Null \/ (Source[q] = Null /\ exit[q] = "0") => seen'[q] = seen[q]
    BY <1>1, BesideSeen DEF ArchiveInv, RunInv, InFlightPoints
  <1>3. (archive[q] # Null =>
            Source[q] = Null /\ pc[q] = "done" /\ Faithful(archive[q].holds.files, q))'
    BY <1>1, <1>2 DEF ArchiveInv, Same, Faithful, Differ
  <1>4. (Source[q] = Null /\ exit[q] = "0" =>
           /\ archive[q] # Null /\ archive[q].whole
           /\ \E v \in Names : archive[q].holds.files[v] # Null
           /\ \A v \in Names : HasVolume(archive[q].holds.files, q, v))'
    BY <1>1, <1>2 DEF ArchiveInv, Same, HasVolume
  <1> QED
    BY <1>3, <1>4 DEF ArchiveInv

LEMMA BesideRestore ==
    ASSUME BackupInv, NEW q \in Runs, Same(q), ArchivesStay
    PROVE  RestoreInv(q)'
  <1> SUFFICES ASSUME Source[q] # Null
               PROVE  RestoreInv(q)'
    BY DEF RestoreInv
  <1>1. RestoreInv(q) /\ Source[q] \in Runs
    BY RunsAssumption DEF BackupInv
  <1>2. pc[q] \in RestorePoints => archive'[Source[q]] = archive[Source[q]]
    BY <1>1 DEF RestoreInv, ArchivesStay
  <1>3. pc[q] \in {"wipe", "untar"} => pc[q] \in RestorePoints
    BY DEF RestorePoints
  <1> QED
    BY <1>1, <1>2, <1>3 DEF RestoreInv, Same, Held, Current

-----------------------------------------------------------------------------
(* The run that steps.                                                      *)

\* What the end of a turn leaves of RunInv: the run was at a volume, and counted one
\* or none.
LEMMA TurnRun ==
    ASSUME BackupInv, NEW p \in Runs, pc[p] \in LoopPoints, Advance(p),
           \/ failures' = failures /\ copies' = copies
           \/ Counted(failures, p) /\ copies' = copies
           \/ Counted(copies, p) /\ failures' = failures
    PROVE  RunInv(p)'
  <1>1. BackupTypeOK /\ RunInv(p) /\ at[p] \in 1..Len(Volumes) /\ Len(Volumes) \in Nat
    BY CurrentName, VolumeList DEF BackupInv
  <1>2. /\ failures[p] \in Nat /\ copies[p] \in Nat /\ failures[p] + copies[p] < at[p]
        /\ exit[p] = "none"
    BY <1>1, VolumeList DEF RunInv, BackupTypeOK, LoopPoints
  <1>3. /\ failures'[p] \in Nat /\ copies'[p] \in Nat
        /\ failures'[p] + copies'[p] <= failures[p] + copies[p] + 1
    BY <1>1, <1>2 DEF Counted, BackupTypeOK
  <1>4. /\ exit'[p] = "none"
        /\ \/ at'[p] = at[p] + 1 /\ pc'[p] = IF Source[p] = Null THEN "inspect" ELSE "create"
           \/ at'[p] = at[p] /\ pc'[p] = IF Source[p] = Null THEN "save_env" ELSE "load_env"
    BY <1>1, <1>2, AdvanceGoes DEF BackupTypeOK
  <1>5. failures'[p] + copies'[p] <= Len(Volumes)
        /\ (at'[p] = at[p] + 1 => failures'[p] + copies'[p] < at'[p])
    BY <1>1, <1>2, <1>3
  <1> QED
    BY <1>4, <1>5 DEF RunInv, BackupPoints, RestorePoints, LoopPoints

LEMMA BackupStepRun ==
    ASSUME BackupInv, NEW p \in Runs, BackupStep(p)
    PROVE  RunInv(p)'
  <1>1. BackupTypeOK /\ RunInv(p) /\ at[p] \in 1..Len(Volumes)
    BY CurrentName DEF BackupInv
  <1>2. CASE Start(p)
    <2>1. /\ pc'[p] = IF Source[p] = Null THEN "inspect" ELSE "check"
          /\ exit' = exit /\ failures' = failures /\ copies' = copies /\ at' = at
          /\ pc[p] = "idle"
      BY <1>1, <1>2 DEF Start, Goto, BackupTypeOK, counters
    <2>2. exit[p] = "none" /\ failures[p] = 0 /\ copies[p] = 0
      BY <1>1, <2>1 DEF RunInv, BackupTypeOK
    <2> QED
      BY <1>1, <2>1, <2>2, VolumeList DEF RunInv, BackupPoints, RestorePoints, LoopPoints
  <1>3. CASE Inspect(p)
    <2>1. CASE Advance(p)
      BY <1>3, <2>1, TurnRun DEF Inspect, LoopPoints, counters
    <2>2. CASE Goto(p, "copy") /\ UNCHANGED at
      <3>1. /\ pc[p] = "inspect" /\ pc'[p] = "copy" /\ exit' = exit /\ at' = at
            /\ failures' = failures /\ copies' = copies
        BY <1>1, <1>3, <2>2 DEF Inspect, Goto, BackupTypeOK, counters
      <3> QED
        BY <1>1, <3>1 DEF RunInv, BackupPoints, RestorePoints, LoopPoints
    <2> QED
      BY <1>3, <2>1, <2>2 DEF Inspect
  <1>4. CASE CopyVolume(p)
    BY <1>4, TurnRun DEF CopyVolume, LoopPoints
  <1>5. CASE SaveEnv(p)
    <2>1. /\ pc[p] = "save_env" /\ failures' = failures /\ copies' = copies
          /\ (pc'[p] = "compress" /\ exit' = exit) \/ pc'[p] = "done"
      BY <1>1, <1>5 DEF SaveEnv, Goto, Exit, BackupTypeOK, counters
    <2> QED
      BY <1>1, <2>1 DEF RunInv, BackupPoints, RestorePoints, LoopPoints
  <1>6. CASE Compress(p)
    <2>1. pc'[p] = "done" /\ failures' = failures /\ copies' = copies
      BY <1>1, <1>6 DEF Compress, Exit, BackupTypeOK, counters
    <2> QED
      BY <1>1, <2>1 DEF RunInv, BackupPoints, RestorePoints, LoopPoints
  <1> QED
    BY <1>2, <1>3, <1>4, <1>5, <1>6 DEF BackupStep

LEMMA RestoreStepRun ==
    ASSUME BackupInv, NEW p \in Runs, RestoreStep(p)
    PROVE  RunInv(p)'
  <1>1. BackupTypeOK /\ RunInv(p) /\ at[p] \in 1..Len(Volumes)
    BY CurrentName DEF BackupInv
  <1>2. ASSUME pc'[p] = "done", failures' = failures, copies' = copies
        PROVE  RunInv(p)'
    BY <1>1, <1>2 DEF RunInv, BackupPoints, RestorePoints, LoopPoints
  <1>3. ASSUME pc[p] \in RestorePoints, pc'[p] \in {"create", "wipe", "untar"},
               pc[p] \in LoopPoints \cup {"check"},
               exit' = exit, at' = at, failures' = failures, copies' = copies
        PROVE  RunInv(p)'
    BY <1>1, <1>3 DEF RunInv, BackupPoints, RestorePoints, LoopPoints
  <1>4. CASE CheckArchive(p)
    <2>1. \/ pc[p] = "check" /\ pc'[p] = "create" /\ exit' = exit
          \/ pc'[p] = "done"
      BY <1>1, <1>4 DEF CheckArchive, Goto, Exit, BackupTypeOK
    <2> QED
      BY <1>2, <1>3, <1>4, <2>1 DEF CheckArchive, RestorePoints, LoopPoints, counters
  <1>5. CASE Create(p)
    <2>1. \/ Advance(p)
          \/ pc'[p] = "wipe" /\ exit' = exit /\ at' = at
          \/ pc'[p] = "done"
      BY <1>1, <1>5 DEF Create, Goto, Exit, BackupTypeOK
    <2>2. pc[p] = "create" /\ failures' = failures /\ copies' = copies
      BY <1>5 DEF Create, counters
    <2> QED
      BY <1>2, <1>3, <2>1, <2>2, TurnRun DEF RestorePoints, LoopPoints
  <1>6. CASE Wipe(p)
    <2>1. CASE Advance(p) /\ Counted(failures, p)
      BY <1>6, <2>1, TurnRun DEF Wipe, LoopPoints
    <2>2. CASE ~(Advance(p) /\ Counted(failures, p))
      <3>1. pc[p] = "wipe" /\ pc'[p] = "untar" /\ exit' = exit /\ at' = at
            /\ failures' = failures /\ copies' = copies
        BY <1>1, <1>6, <2>2 DEF Wipe, Goto, BackupTypeOK
      <3> QED
        BY <1>3, <3>1 DEF RestorePoints, LoopPoints
    <2> QED
      BY <2>1, <2>2
  <1>7. CASE Untar(p)
    BY <1>7, TurnRun DEF Untar, LoopPoints
  <1>8. CASE LoadEnv(p)
    <2>1. pc'[p] = "done" /\ failures' = failures /\ copies' = copies
      BY <1>1, <1>8 DEF LoadEnv, Exit, BackupTypeOK, counters
    <2> QED
      BY <1>2, <2>1
  <1> QED
    BY <1>4, <1>5, <1>6, <1>7, <1>8 DEF RestoreStep

LEMMA KillRun ==
    ASSUME BackupInv, NEW p \in Runs, Kill(p)
    PROVE  RunInv(p)'
  <1>1. BackupTypeOK /\ RunInv(p)
    BY DEF BackupInv
  <1>2. pc'[p] = "done" /\ failures' = failures /\ copies' = copies
    BY <1>1 DEF Kill, Exit, BackupTypeOK, counters
  <1> QED
    BY <1>1, <1>2 DEF RunInv, BackupPoints, RestorePoints, LoopPoints

\* After a turn of a backup, the volumes behind it are those that were, and the current.
LEMMA TurnCopy ==
    ASSUME BackupInv, NEW p \in Runs, Source[p] = Null, Advance(p)
    PROVE  /\ pc'[p] \in {"inspect", "save_env"}
           /\ \A i \in DOMAIN Volumes :
                 i < at'[p] \/ pc'[p] \in {"save_env", "compress"} => i < at[p] \/ i = at[p]
  <1>1. BackupTypeOK /\ at[p] \in 1..Len(Volumes)
    BY CurrentName DEF BackupInv
  <1>2. \/ at[p] < Len(Volumes) /\ at'[p] = at[p] + 1 /\ pc'[p] = "inspect"
        \/ at[p] = Len(Volumes) /\ at'[p] = at[p] /\ pc'[p] = "save_env"
    BY <1>1, AdvanceGoes DEF BackupTypeOK
  <1> QED
    BY <1>1, <1>2, VolumeList

LEMMA StartCopy ==
    ASSUME BackupInv, NEW p \in Runs, Source[p] = Null, Start(p)
    PROVE  CopyInv(p)'
  <1>1. BackupTypeOK /\ RunInv(p) /\ CopyInv(p) /\ pc[p] = "idle"
    BY DEF BackupInv, Start
  <1>2. /\ pc'[p] = "inspect" /\ volume' = volume /\ kept' = kept /\ torn' = torn /\ at' = at
        /\ copies' = copies /\ failures' = failures
        /\ \A v \in Names : seen'[p][v] = {volume[v]}
    BY <1>1 DEF Start, Goto, BackupTypeOK, counters
  <1>3. /\ kept[p] = Nothing /\ at[p] = 1 /\ copies[p] = 0 /\ ~torn[p]
    BY <1>1 DEF RunInv, CopyInv
  <1>4. Faithful(kept[p].files, p)'
    BY <1>2, <1>3 DEF Nothing, Faithful
  <1>5. \A i \in DOMAIN Volumes : ~(i < at'[p])
    BY <1>2, <1>3, VolumeList
  <1> QED
    BY <1>2, <1>3, <1>4, <1>5 DEF CopyInv

LEMMA InspectCopy ==
    ASSUME BackupInv, NEW p \in Runs, Source[p] = Null, Inspect(p)
    PROVE  CopyInv(p)'
  <1>1. BackupTypeOK /\ CopyInv(p) /\ pc[p] = "inspect" /\ Current(p) \in Names
    BY CurrentName DEF BackupInv, Inspect
  <1>2. /\ volume' = volume /\ kept' = kept /\ torn' = torn /\ seen' = seen
        /\ copies' = copies /\ failures' = failures
    BY DEF Inspect, counters, history
  <1>3. ~torn[p]
    BY <1>1 DEF CopyInv
  <1>4. Faithful(kept[p].files, p)'
    BY <1>1, <1>2 DEF CopyInv, Faithful, Differ
  <1>5. CASE volume[Current(p)] = Absent
    <2>1. Advance(p)
      BY <1>5 DEF Inspect
    <2>2. /\ pc'[p] \in {"inspect", "save_env"}
          /\ \A i \in DOMAIN Volumes :
                i < at'[p] \/ pc'[p] \in {"save_env", "compress"} => i < at[p] \/ i = at[p]
      BY <2>1, TurnCopy
    <2>3. Absent \in seen[p][Current(p)]
      BY <1>1, <1>5 DEF CopyInv, BackupPoints
    <2>4. HasVolume(kept[p].files, p, Volumes[at[p]])
      BY <2>3 DEF HasVolume, Current
    <2>5. failures[p] = 0 => \A i \in DOMAIN Volumes :
             i < at'[p] \/ pc'[p] \in {"save_env", "compress"} =>
                 HasVolume(kept[p].files, p, Volumes[i])
      BY <1>1, <2>2, <2>4 DEF CopyInv, BackupPoints
    <2> QED
      BY <1>1, <1>2, <1>3, <1>4, <2>2, <2>5 DEF CopyInv, BackupPoints, HasVolume
  <1>6. CASE volume[Current(p)] # Absent
    <2>1. pc'[p] = "copy" /\ at' = at
      BY <1>1, <1>6 DEF Inspect, Goto, BackupTypeOK
    <2>2. Current(p)' = Current(p)
      BY <2>1 DEF Current
    <2> QED
      BY <1>1, <1>2, <1>3, <1>4, <1>6, <2>1, <2>2 DEF CopyInv, BackupPoints, HasVolume
  <1> QED
    BY <1>5, <1>6

LEMMA CopyVolumeCopy ==
    ASSUME BackupInv, NEW p \in Runs, Source[p] = Null, CopyVolume(p)
    PROVE  CopyInv(p)'
  <1>1. BackupTypeOK /\ CopyInv(p) /\ pc[p] = "copy" /\ Current(p) \in Names /\ Advance(p)
    BY CurrentName DEF BackupInv, CopyVolume
  <1>2. volume' = volume /\ seen' = seen /\ ~torn'[p]
    BY <1>1 DEF CopyVolume, history, BackupTypeOK
  <1>3. /\ pc'[p] \in {"inspect", "save_env"}
        /\ \A i \in DOMAIN Volumes :
              i < at'[p] \/ pc'[p] \in {"save_env", "compress"} => i < at[p] \/ i = at[p]
    BY <1>1, TurnCopy
  <1>4. Faithful(kept[p].files, p)
    BY <1>1 DEF CopyInv
  <1> DEFINE c == IF torn[p] THEN Mixed ELSE volume[Current(p)]
  <1>5. CASE kept' = [kept EXCEPT ![p].files[Current(p)] = c] /\ UNCHANGED failures
    <2>1. c \in Contents /\ c # Null
      BY <1>1, Distinct DEF BackupTypeOK
    <2>2. /\ kept'[p].files[Current(p)] = c
          /\ \A v \in Names : v # Current(p) => kept'[p].files[v] = kept[p].files[v]
      BY <1>1, <1>5 DEF BackupTypeOK, Kept
    <2>3. c \in seen[p][Current(p)] \ {Absent}
          \/ (c = Mixed /\ Differ(seen[p][Current(p)]))
      BY <1>1 DEF CopyInv, BackupPoints
    <2>4. Faithful(kept[p].files, p)'
      <3>1. \A v \in Names :
                \/ kept'[p].files[v] = Null
                \/ kept'[p].files[v] \in seen[p][v] \ {Absent}
                \/ kept'[p].files[v] = Mixed /\ Differ(seen[p][v])
        BY <1>4, <2>2, <2>3 DEF Faithful
      <3> QED
        BY <1>2, <3>1 DEF Faithful, Differ
    <2>5. \E v \in Names : kept'[p].files[v] # Null
      BY <1>1, <2>1, <2>2
    <2>6. failures'[p] = 0 => \A i \in DOMAIN Volumes :
             i < at[p] \/ i = at[p] => HasVolume(kept'[p].files, p, Volumes[i])
      <3> SUFFICES ASSUME failures'[p] = 0, NEW i \in DOMAIN Volumes, i < at[p] \/ i = at[p]
                   PROVE  HasVolume(kept'[p].files, p, Volumes[i])
        OBVIOUS
      <3>1. CASE Volumes[i] = Current(p)
        BY <2>1, <2>2, <3>1 DEF HasVolume
      <3>2. CASE Volumes[i] # Current(p)
        <4>1. HasVolume(kept[p].files, p, Volumes[i])
          BY <1>1, <1>5, <3>2 DEF CopyInv, BackupPoints, Current
        <4> QED
          BY <2>2, <3>2, <4>1, VolumeList DEF HasVolume
      <3> QED
        BY <3>1, <3>2
    <2> QED
      BY <1>1, <1>2, <1>3, <2>4, <2>5, <2>6 DEF CopyInv, BackupPoints, HasVolume
  <1>6. CASE Counted(failures, p) /\ UNCHANGED <<kept, copies>>
    <2>1. failures'[p] # 0
      BY <1>1, <1>6, VolumeList DEF Counted, BackupTypeOK
    <2>2. Faithful(kept[p].files, p)'
      BY <1>2, <1>4, <1>6 DEF Faithful, Differ
    <2> QED
      BY <1>1, <1>2, <1>3, <1>6, <2>1, <2>2 DEF CopyInv, BackupPoints
  <1> QED
    BY <1>5, <1>6 DEF CopyVolume

LEMMA ClosingCopy ==
    ASSUME BackupInv, NEW p \in Runs, Source[p] = Null, SaveEnv(p) \/ Compress(p) \/ Kill(p)
    PROVE  CopyInv(p)'
  <1>1. BackupTypeOK /\ RunInv(p) /\ CopyInv(p) /\ Faithful(kept[p].files, p)
    BY DEF BackupInv, CopyInv
  <1>2. CASE SaveEnv(p)
    <2>1. /\ pc[p] = "save_env" /\ pc'[p] \in {"compress", "done"}
          /\ volume' = volume /\ seen' = seen /\ torn' = torn /\ at' = at
          /\ failures' = failures /\ copies' = copies
      BY <1>1, <1>2 DEF SaveEnv, Goto, Exit, BackupTypeOK, counters, history
    <2>2. kept'[p].files = kept[p].files
      <3>1. kept \in [Runs -> Kept]
        BY <1>1, KeptType
      <3> QED
        BY <1>2, <3>1 DEF SaveEnv, Kept
    <2>3. Faithful(kept[p].files, p)'
      BY <1>1, <2>1, <2>2 DEF Faithful, Differ
    <2> QED
      BY <1>1, <2>1, <2>2, <2>3 DEF CopyInv, BackupPoints, HasVolume
  <1>3. CASE Compress(p)
    <2>1. pc[p] = "compress" /\ pc'[p] = "done" /\ seen' = seen /\ torn' = torn
      BY <1>1, <1>3 DEF Compress, Exit, BackupTypeOK, history
    <2>2. kept'[p] = Nothing \/ kept'[p] = kept[p]
      BY <1>1, <1>3 DEF Compress, Remove, BackupTypeOK
    <2>3. Faithful(kept[p].files, p)'
      BY <1>1, <2>1, <2>2 DEF Faithful, Differ, Nothing
    <2> QED
      BY <1>1, <2>1, <2>3 DEF CopyInv, BackupPoints
  <1>4. CASE Kill(p)
    <2>1. pc[p] \in BackupPoints
      BY <1>1, <1>4 DEF RunInv, Kill, InFlightPoints
    <2>2. pc'[p] = "done" /\ seen' = seen /\ torn' = torn /\ kept' = kept
      BY <1>1, <1>4, <2>1 DEF Kill, Exit, BackupTypeOK, BackupPoints
    <2>3. Faithful(kept[p].files, p)'
      BY <1>1, <2>2 DEF Faithful, Differ
    <2> QED
      BY <2>2, <2>3 DEF CopyInv, BackupPoints
  <1> QED
    BY <1>2, <1>3, <1>4

LEMMA OwnCopy ==
    ASSUME BackupInv, NEW p \in Runs, BackupStep(p) \/ RestoreStep(p) \/ Kill(p)
    PROVE  CopyInv(p)'
  <1>1. CASE Source[p] # Null
    BY <1>1 DEF CopyInv
  <1>2. CASE Source[p] = Null
    <2>1. ~RestoreStep(p)
      BY <1>2 DEF BackupInv, RunInv, BackupPoints, RestoreStep, CheckArchive, Create, Wipe,
                  Untar, LoadEnv
    <2> QED
      BY <1>2, <2>1, StartCopy, InspectCopy, CopyVolumeCopy, ClosingCopy DEF BackupStep
  <1> QED
    BY <1>1, <1>2

LEMMA OwnArchive ==
    ASSUME BackupInv, NEW p \in Runs, BackupStep(p) \/ RestoreStep(p) \/ Kill(p)
    PROVE  ArchiveInv(p)'
  <1>1. BackupTypeOK /\ RunInv(p) /\ CopyInv(p) /\ ArchiveInv(p) /\ pc[p] # "done"
    BY DEF BackupInv, BackupStep, Start, Inspect, CopyVolume, SaveEnv, Compress, RestoreStep,
           CheckArchive, Create, Wipe, Untar, LoadEnv, Kill, InFlightPoints
  <1>2. archive[p] = Null /\ exit[p] = "none"
    BY <1>1 DEF ArchiveInv, RunInv
  <1>3. CASE archive'[p] = Null /\ (Source[p] = Null => exit'[p] # "0")
    BY <1>3 DEF ArchiveInv
  <1>4. CASE Start(p) \/ Inspect(p) \/ CopyVolume(p) \/ SaveEnv(p)
    <2>1. archive' = archive /\ (exit' = exit \/ exit'[p] = "1")
      BY <1>1, <1>4, AdvanceGoes DEF Start, Inspect, CopyVolume, SaveEnv, Goto, Exit, BackupTypeOK
    <2> QED
      BY <1>2, <1>3, <2>1
  <1>5. CASE RestoreStep(p)
    <2>1. Source[p] # Null
      BY <1>1, <1>5 DEF RunInv, BackupPoints, RestoreStep, CheckArchive, Create, Wipe, Untar,
                        LoadEnv
    <2>2. archive' = archive
      BY <1>5 DEF RestoreStep, CheckArchive, Create, Wipe, Untar, LoadEnv
    <2> QED
      BY <1>2, <1>3, <2>1, <2>2
  <1>6. CASE Compress(p) \/ (Kill(p) /\ pc[p] = "compress")
    <2>1. Source[p] = Null /\ pc[p] = "compress"
      BY <1>1, <1>6 DEF RunInv, RestorePoints, Compress
    <2>2. pc'[p] = "done" /\ seen' = seen
      BY <1>1, <1>6, <2>1 DEF Compress, Kill, Exit, BackupTypeOK, history
    <2>3. archive'[p] = Null \/ archive'[p].holds = kept[p]
      BY <1>1, <1>2, <1>6 DEF Compress, Kill, BackupTypeOK
    <2>4. Faithful(kept[p].files, p)
      BY <1>1, <2>1 DEF CopyInv
    <2>5. (archive[p] # Null =>
              Source[p] = Null /\ pc[p] = "done" /\ Faithful(archive[p].holds.files, p))'
      BY <2>1, <2>2, <2>3, <2>4 DEF Faithful, Differ
    <2>6. ASSUME exit'[p] = "0"
          PROVE  /\ archive'[p] # Null /\ archive'[p].whole
                 /\ \E v \in Names : archive'[p].holds.files[v] # Null
                 /\ \A v \in Names : HasVolume(archive'[p].holds.files, p, v)
      <3>1. /\ archive' = [archive EXCEPT ![p] = [whole |-> TRUE, holds |-> kept[p]]]
            /\ Status(p) = "0"
        BY <1>1, <1>6, <2>6 DEF Compress, Kill, Exit, BackupTypeOK
      <3>2. failures[p] = 0 /\ copies[p] > 0
        BY <1>1, <3>1, VolumeList DEF Status, BackupTypeOK
      <3>3. archive'[p] = [whole |-> TRUE, holds |-> kept[p]] /\ archive'[p] # Null
        <4>1. [whole |-> TRUE, holds |-> kept[p]] \in [whole : BOOLEAN, holds : Kept]
          BY <1>1, KeptType
        <4> QED
          BY <1>1, <3>1, <4>1, Distinct DEF BackupTypeOK
      <3>4. /\ \E v \in Names : kept[p].files[v] # Null
            /\ \A i \in DOMAIN Volumes : HasVolume(kept[p].files, p, Volumes[i])
        BY <1>1, <2>1, <3>2 DEF CopyInv, BackupPoints
      <3> QED
        BY <3>3, <3>4 DEF Names
    <2>7. (Source[p] = Null /\ exit[p] = "0" =>
              /\ archive[p] # Null /\ archive[p].whole
              /\ \E v \in Names : archive[p].holds.files[v] # Null
              /\ \A v \in Names : HasVolume(archive[p].holds.files, p, v))'
      BY <2>2, <2>6 DEF HasVolume
    <2> QED
      BY <2>5, <2>7 DEF ArchiveInv
  <1>7. CASE Kill(p) /\ pc[p] # "compress"
    <2>1. archive'[p] = Null /\ exit'[p] = "killed"
      BY <1>1, <1>2, <1>7 DEF Kill, Exit, BackupTypeOK
    <2> QED
      BY <1>3, <2>1
  <1> QED
    BY <1>4, <1>5, <1>6, <1>7 DEF BackupStep

LEMMA OwnRestore ==
    ASSUME BackupInv, NEW p \in Runs, BackupStep(p) \/ RestoreStep(p) \/ Kill(p)
    PROVE  RestoreInv(p)'
  <1> SUFFICES ASSUME Source[p] # Null
               PROVE  RestoreInv(p)'
    BY DEF RestoreInv
  <1>1. BackupTypeOK /\ RunInv(p) /\ RestoreInv(p) /\ Source[p] \in Runs
    BY RunsAssumption DEF BackupInv
  <1>2. archive[Source[p]] # Null => archive'[Source[p]] = archive[Source[p]]
    BY <1>1, StepArchives DEF ArchivesStay
  <1>3. CASE BackupStep(p)
    <2>1. Start(p)
      BY <1>1, <1>3 DEF BackupStep, Inspect, CopyVolume, SaveEnv, Compress, RunInv, RestorePoints
    <2>2. pc'[p] = "check" /\ archive[Source[p]] # Null
      BY <1>1, <2>1 DEF Start, Goto, BackupTypeOK
    <2> QED
      BY <1>2, <2>2 DEF RestoreInv, RestorePoints
  <1>4. CASE pc'[p] = "done"
    BY <1>4 DEF RestoreInv, RestorePoints
  <1>5. CASE CheckArchive(p) /\ pc'[p] # "done"
    <2>1. /\ pc[p] = "check" /\ pc'[p] = "create"
          /\ archive[Source[p]].whole /\ kept'[p] = archive[Source[p]].holds
      BY <1>1, <1>5 DEF CheckArchive, Goto, Exit, BackupTypeOK
    <2> QED
      BY <1>1, <1>2, <2>1 DEF RestoreInv, RestorePoints
  <1>6. ASSUME pc[p] \in {"create", "wipe", "untar"}, kept' = kept,
               \/ Advance(p)
               \/ pc'[p] \in {"wipe", "untar"} /\ at' = at /\ kept[p].files[Current(p)] # Null
        PROVE  RestoreInv(p)'
    <2>1. /\ archive'[Source[p]] = archive[Source[p]] /\ archive[Source[p]] # Null
          /\ archive[Source[p]].whole /\ kept[p] = archive[Source[p]].holds
      BY <1>1, <1>2, <1>6 DEF RestoreInv, RestorePoints
    <2>2. CASE Advance(p)
      <3>1. pc'[p] \in {"create", "load_env"}
        BY <1>1, <2>2, AdvanceGoes DEF BackupTypeOK
      <3> QED
        BY <1>6, <2>1, <3>1 DEF RestoreInv, RestorePoints
    <2>3. CASE pc'[p] \in {"wipe", "untar"} /\ at' = at /\ kept[p].files[Current(p)] # Null
      BY <1>6, <2>1, <2>3 DEF RestoreInv, RestorePoints, Held, Current
    <2> QED
      BY <1>6, <2>2, <2>3
  <1>7. CASE Create(p)
    <2>1. pc[p] = "create" /\ (pc'[p] = "done" \/ kept' = kept)
      BY <1>1, <1>7 DEF Create, Exit, BackupTypeOK
    <2>2. \/ Advance(p) \/ pc'[p] = "done"
          \/ pc'[p] = "wipe" /\ at' = at /\ kept[p].files[Current(p)] # Null
      BY <1>1, <1>7 DEF Create, Goto, Exit, BackupTypeOK
    <2> QED
      BY <1>4, <1>6, <2>1, <2>2
  <1>8. CASE Wipe(p)
    <2>1. pc[p] = "wipe" /\ kept' = kept /\ kept[p].files[Current(p)] # Null
      BY <1>1, <1>8 DEF Wipe, RestoreInv, RestorePoints, Held
    <2>2. Advance(p) \/ (pc'[p] = "untar" /\ at' = at)
      BY <1>1, <1>8 DEF Wipe, Goto, BackupTypeOK
    <2> QED
      BY <1>6, <2>1, <2>2
  <1>9. CASE Untar(p)
    BY <1>6, <1>9 DEF Untar
  <1>10. LoadEnv(p) \/ Kill(p) => pc'[p] = "done"
    BY <1>1 DEF LoadEnv, Kill, Exit, BackupTypeOK
  <1> QED
    BY <1>3, <1>4, <1>5, <1>7, <1>8, <1>9, <1>10 DEF RestoreStep

-----------------------------------------------------------------------------
(* The volumes that restores emptied.                                       *)

\* A restore that emptied a volume is past the check of its archive.
LEMMA WiperFacts ==
    ASSUME BackupInv, NEW v \in Names, wiper[v] # Null
    PROVE  /\ wiper[v] \in Runs /\ Source[wiper[v]] \in Runs /\ Source[wiper[v]] # Null
           /\ archive[Source[wiper[v]]] # Null /\ archive[Source[wiper[v]]].whole
           /\ Held(wiper[v], v) # Null
           /\ pc[wiper[v]] \notin BackupPoints \cup {"idle", "check"}
  <1>1. wiper[v] \in Runs /\ WiperInv(v)
    BY DEF BackupInv, BackupTypeOK
  <1>2. RunInv(wiper[v]) /\ Source[wiper[v]] # Null
    BY <1>1 DEF BackupInv, WiperInv
  <1>3. Source[wiper[v]] \in Runs
    BY <1>1, <1>2, RunsAssumption
  <1>4. pc[wiper[v]] \notin BackupPoints
    BY <1>2 DEF RunInv, BackupPoints, RestorePoints
  <1> QED
    BY <1>1, <1>2, <1>3, <1>4 DEF WiperInv

\* A volume that is not emptied by a step, and whose restore goes on as it should.
LEMMA WiperStays ==
    ASSUME BackupInv, ArchivesStay, NEW v \in Names, wiper'[v] = wiper[v],
           volume'[v] = Empty => volume[v] = Empty,
           wiper[v] # Null => pc'[wiper[v]] \notin {"idle", "check"},
           volume[v] = Empty /\ volume'[v] = Empty /\ wiper[v] # Null => IsFilling(wiper[v], v)'
    PROVE  WiperInv(v)'
  <1>1. WiperInv(v)
    BY DEF BackupInv
  <1>2. wiper[v] # Null => archive'[Source[wiper[v]]] = archive[Source[wiper[v]]]
    BY WiperFacts DEF ArchivesStay
  <1>3. wiper[v] # Null => Held(wiper[v], v)' = Held(wiper[v], v)
    BY <1>2 DEF Held
  <1>4. volume[v] = Empty => wiper[v] # Null
    BY <1>1 DEF WiperInv
  <1>5. (volume[v] = Empty => wiper[v] # Null /\ IsFilling(wiper[v], v))'
    <2>1. CASE volume'[v] = Empty
      <3>1. wiper[v] # Null /\ IsFilling(wiper[v], v)'
        BY <1>4, <2>1
      <3> QED
        BY <3>1 DEF IsFilling, Held, Current
    <2>2. CASE volume'[v] # Empty
      BY <2>2
    <2> QED
      BY <2>1, <2>2
  <1>6. (wiper[v] # Null =>
           /\ Source[wiper[v]] # Null /\ archive[Source[wiper[v]]] # Null
           /\ archive[Source[wiper[v]]].whole /\ Held(wiper[v], v) # Null
           /\ pc[wiper[v]] \notin {"idle", "check"})'
    BY <1>2, WiperFacts DEF Held
  <1> QED
    BY <1>5, <1>6 DEF WiperInv

LEMMA WiperOthers ==
    ASSUME BackupInv, ArchivesStay, NEW v \in Names, wiper'[v] = wiper[v],
           volume'[v] = Empty => volume[v] = Empty,
           wiper[v] # Null => Same(wiper[v])
    PROVE  WiperInv(v)'
  <1>1. wiper[v] # Null => pc'[wiper[v]] \notin {"idle", "check"}
    BY WiperFacts DEF Same
  <1>2. ASSUME volume[v] = Empty, wiper[v] # Null
        PROVE  IsFilling(wiper[v], v)'
    <2>1. IsFilling(wiper[v], v)
      BY <1>2 DEF BackupInv, WiperInv
    <2>2. Held(wiper[v], v)' = Held(wiper[v], v)
      BY <1>2, WiperFacts DEF Held, ArchivesStay
    <2>3. Current(wiper[v])' = Current(wiper[v])
      BY <1>2 DEF Current, Same
    <2> QED
      BY <1>2, <2>1, <2>2, <2>3 DEF IsFilling, Same
  <1> QED
    BY <1>1, <1>2, WiperStays

\* A run that goes on at another volume has emptied this one for good only if it had
\* nothing for it, or counts a failure.
LEMMA WiperGoesOn ==
    ASSUME BackupInv, ArchivesStay, NEW v \in Names, NEW p \in Runs,
           wiper[v] = p, wiper'[v] = p,
           volume'[v] = Empty => volume[v] = Empty,
           pc'[p] \notin {"idle", "check"},
           failures'[p] = 0 => failures[p] = 0,
           exit'[p] # "0" \/ failures[p] = 0,
           pc[p] \in RestorePoints,
           \/ Held(p, v) = Empty
           \/ failures[p] = 0 => ~(pc[p] \in {"wipe", "untar"} /\ Current(p) = v)
           \/ pc'[p] = "done" /\ exit'[p] # "0"
           \/ failures'[p] # 0 /\ exit'[p] # "0"
           \/ pc'[p] = "untar" /\ at' = at /\ exit'[p] # "0"
    PROVE  WiperInv(v)'
  <1>1. p # Null
    BY RunsAssumption
  <1>2. Held(p, v)' = Held(p, v)
    BY <1>1, WiperFacts DEF Held, ArchivesStay
  <1>3. ASSUME volume[v] = Empty
        PROVE  IsFilling(p, v)'
    <2>1. IsFilling(p, v)
      BY <1>3 DEF BackupInv, WiperInv
    <2>2. CASE Held(p, v) = Empty
      BY <1>2, <2>2 DEF IsFilling
    <2>3. CASE failures[p] = 0 => ~(pc[p] \in {"wipe", "untar"} /\ Current(p) = v)
      BY <1>2, <2>1, <2>3 DEF IsFilling
    <2>4. CASE pc'[p] = "done" /\ exit'[p] # "0"
      BY <2>4 DEF IsFilling, RestorePoints
    <2>5. CASE failures'[p] # 0 /\ exit'[p] # "0"
      BY <2>5 DEF IsFilling
    <2>6. CASE pc'[p] = "untar" /\ at' = at /\ exit'[p] # "0"
      BY <1>2, <2>1, <2>6 DEF IsFilling, Current
    <2> QED
      BY <2>2, <2>3, <2>4, <2>5, <2>6
  <1> QED
    BY <1>1, <1>3, WiperStays

\* A restore empties a volume that its archive has.
LEMMA WiperEmpties ==
    ASSUME BackupInv, ArchivesStay, NEW p \in Runs, NEW v \in Names,
           v = Current(p), pc[p] \in {"create", "wipe"}, kept[p].files[v] # Null,
           wiper'[v] = p, at' = at, pc'[p] \in {"wipe", "untar"}, exit' = exit
    PROVE  WiperInv(v)'
  <1>1. RunInv(p) /\ RestoreInv(p) /\ p # Null
    BY RunsAssumption DEF BackupInv
  <1>2. Source[p] # Null /\ Source[p] \in Runs
    BY <1>1, RunsAssumption DEF RunInv, BackupPoints
  <1>3. /\ archive[Source[p]] # Null /\ archive[Source[p]].whole
        /\ kept[p] = archive[Source[p]].holds
    BY <1>1, <1>2 DEF RestoreInv, RestorePoints
  <1>4. archive'[Source[p]] = archive[Source[p]]
    BY <1>2, <1>3 DEF ArchivesStay
  <1>5. exit'[p] # "0"
    BY <1>1 DEF RunInv
  <1>6. IsFilling(p, v)'
    BY <1>5 DEF IsFilling, Current
  <1>7. Held(p, v)' # Null
    BY <1>3, <1>4 DEF Held
  <1>8. (volume[v] = Empty => wiper[v] # Null /\ IsFilling(wiper[v], v))'
    BY <1>1, <1>6
  <1>9. (wiper[v] # Null =>
           /\ Source[wiper[v]] # Null /\ archive[Source[wiper[v]]] # Null
           /\ archive[Source[wiper[v]]].whole /\ Held(wiper[v], v) # Null
           /\ pc[wiper[v]] \notin {"idle", "check"})'
    BY <1>2, <1>3, <1>4, <1>7 DEF Held
  <1> QED
    BY <1>8, <1>9 DEF WiperInv

LEMMA BackupStepWiper ==
    ASSUME BackupInv, NEW p \in Runs, BackupStep(p), NEW v \in Names
    PROVE  WiperInv(v)'
  <1>1. ArchivesStay
    BY StepArchives
  <1>2. volume' = volume /\ wiper' = wiper
    BY DEF BackupStep, Start, Inspect, CopyVolume, SaveEnv, Compress, history
  <1>3. pc[p] \in BackupPoints \cup {"idle"}
    BY DEF BackupStep, Start, Inspect, CopyVolume, SaveEnv, Compress, BackupPoints
  <1>4. wiper[v] # Null => wiper[v] \in Runs /\ wiper[v] # p
    BY <1>3, WiperFacts
  <1>5. wiper[v] # Null => Same(wiper[v])
    BY <1>4, StepFrame
  <1> QED
    BY <1>1, <1>2, <1>5, WiperOthers

\* A step of a restore that does not empty v.
LEMMA RestoreLeavesVolume ==
    ASSUME BackupInv, NEW p \in Runs, NEW v \in Names, RestoreStep(p) \/ Kill(p),
           wiper'[v] = wiper[v], volume'[v] = Empty => volume[v] = Empty,
           wiper[v] = p => WiperInv(v)'
    PROVE  WiperInv(v)'
  <1>1. ArchivesStay
    BY StepArchives
  <1>2. CASE wiper[v] = p
    BY <1>2
  <1>3. CASE wiper[v] # p
    <2>1. wiper[v] # Null => Same(wiper[v])
      BY <1>3, WiperFacts, StepFrame
    <2> QED
      BY <1>1, <2>1, WiperOthers
  <1> QED
    BY <1>2, <1>3

\* Where a change leaves a volume empty.
LEMMA ChangeEmpty ==
    ASSUME BackupTypeOK, NEW u \in Names, NEW c, Change(u, c), NEW v \in Names
    PROVE  volume'[v] = IF v = u THEN c ELSE volume[v]
  BY DEF Change, BackupTypeOK

LEMMA CreateWiper ==
    ASSUME BackupInv, NEW p \in Runs, Create(p), NEW v \in Names
    PROVE  WiperInv(v)'
  <1>1. /\ BackupTypeOK /\ RunInv(p) /\ ArchivesStay /\ Current(p) \in Names
        /\ pc[p] = "create" /\ RestoreStep(p)
    BY StepArchives, CurrentName DEF BackupInv, Create, RestoreStep
  <1>2. exit[p] = "none" /\ failures' = failures
    BY <1>1 DEF RunInv, BackupTypeOK, Create, counters
  <1>3. \/ Advance(p) /\ volume' = volume /\ wiper' = wiper
        \/ Exit(p, "1") /\ volume' = volume /\ wiper' = wiper
        \/ /\ kept[p].files[Current(p)] # Null /\ Goto(p, "wipe") /\ at' = at
           /\ \/ volume' = volume /\ wiper' = wiper
              \/ Change(Current(p), Empty) /\ wiper' = [wiper EXCEPT ![Current(p)] = p]
    BY DEF Create
  <1>4. /\ pc'[p] \in {"create", "load_env", "wipe", "done"} /\ exit'[p] # "0"
    BY <1>1, <1>2, <1>3, AdvanceGoes DEF Goto, Exit, BackupTypeOK, Create, RunInv, BackupPoints
  <1>5. CASE volume' = volume /\ wiper' = wiper
    <2>1. wiper[v] = p => WiperInv(v)'
      BY <1>1, <1>2, <1>4, <1>5, WiperGoesOn DEF RestorePoints
    <2> QED
      BY <1>1, <1>5, <2>1, RestoreLeavesVolume
  <1>6. CASE /\ kept[p].files[Current(p)] # Null /\ Goto(p, "wipe") /\ at' = at
             /\ Change(Current(p), Empty) /\ wiper' = [wiper EXCEPT ![Current(p)] = p]
    <2>1. pc'[p] = "wipe" /\ exit' = exit
      BY <1>1, <1>6 DEF Goto, BackupTypeOK
    <2>2. CASE v = Current(p)
      <3>1. wiper'[v] = p
        BY <1>1, <1>6, <2>2 DEF BackupTypeOK
      <3> QED
        BY <1>1, <1>6, <2>1, <2>2, <3>1, WiperEmpties
    <2>3. CASE v # Current(p)
      <3>1. volume'[v] = volume[v]
        BY <1>1, <1>6, <2>3, ChangeEmpty
      <3>2. wiper'[v] = wiper[v]
        BY <1>1, <1>6, <2>3 DEF BackupTypeOK
      <3>3. wiper[v] = p => WiperInv(v)'
        BY <1>1, <1>2, <1>4, <2>3, <3>1, <3>2, WiperGoesOn DEF RestorePoints
      <3> QED
        BY <1>1, <3>1, <3>2, <3>3, RestoreLeavesVolume
    <2> QED
      BY <2>2, <2>3
  <1> QED
    BY <1>3, <1>5, <1>6

LEMMA WipeWiper ==
    ASSUME BackupInv, NEW p \in Runs, Wipe(p), NEW v \in Names
    PROVE  WiperInv(v)'
  <1>1. /\ BackupTypeOK /\ RunInv(p) /\ RestoreInv(p) /\ ArchivesStay /\ Current(p) \in Names
        /\ pc[p] = "wipe" /\ RestoreStep(p)
    BY StepArchives, CurrentName DEF BackupInv, Wipe, RestoreStep
  <1>2. /\ exit[p] = "none" /\ Source[p] # Null
        /\ failures[p] \in Nat
    BY <1>1, VolumeList DEF RunInv, BackupPoints, BackupTypeOK
  <1>3. kept[p].files[Current(p)] # Null
    BY <1>1, <1>2 DEF RestoreInv, RestorePoints, Held
  <1>4. CASE Change(Current(p), Empty)
             /\ wiper' = [wiper EXCEPT ![Current(p)] = p]
             /\ Goto(p, "untar") /\ UNCHANGED <<at, failures>>
    <2>1. pc'[p] = "untar" /\ exit' = exit /\ exit'[p] # "0"
      BY <1>1, <1>2, <1>4 DEF Goto, BackupTypeOK
    <2>2. CASE v = Current(p)
      <3>1. wiper'[v] = p
        BY <1>1, <1>4, <2>2 DEF BackupTypeOK
      <3> QED
        BY <1>1, <1>3, <1>4, <2>1, <2>2, <3>1, WiperEmpties
    <2>3. CASE v # Current(p)
      <3>1. volume'[v] = volume[v]
        BY <1>1, <1>4, <2>3, ChangeEmpty
      <3>2. wiper'[v] = wiper[v]
        BY <1>1, <1>4, <2>3 DEF BackupTypeOK
      <3>3. wiper[v] = p => WiperInv(v)'
        BY <1>1, <1>4, <2>1, <2>3, <3>1, <3>2, WiperGoesOn DEF RestorePoints
      <3> QED
        BY <1>1, <3>1, <3>2, <3>3, RestoreLeavesVolume
    <2> QED
      BY <2>2, <2>3
  <1>5. CASE Counted(failures, p) /\ Advance(p) /\ UNCHANGED <<volume, torn, seen, wiper>>
    <2>1. /\ pc'[p] \in {"create", "load_env"} /\ exit'[p] # "0" /\ failures'[p] # 0
      BY <1>1, <1>2, <1>5, AdvanceGoes DEF Counted, BackupTypeOK
    <2>2. wiper[v] = p => WiperInv(v)'
      BY <1>1, <1>5, <2>1, WiperGoesOn DEF RestorePoints
    <2> QED
      BY <1>1, <1>5, <2>2, RestoreLeavesVolume
  <1>6. CASE /\ \E rest \in {volume[Current(p)], Mixed} : Change(Current(p), rest)
             /\ Goto(p, "untar") /\ UNCHANGED <<at, failures, wiper>>
    <2>1. volume'[v] = Empty => volume[v] = Empty
      BY <1>1, <1>6, ChangeEmpty, Distinct
    <2>2. pc'[p] = "untar" /\ exit' = exit /\ exit'[p] # "0"
      BY <1>1, <1>2, <1>6 DEF Goto, BackupTypeOK
    <2>3. wiper[v] = p => WiperInv(v)'
      BY <1>1, <1>6, <2>1, <2>2, WiperGoesOn DEF RestorePoints
    <2> QED
      BY <1>1, <1>6, <2>1, <2>3, RestoreLeavesVolume
  <1> QED
    BY <1>4, <1>5, <1>6 DEF Wipe

LEMMA UntarWiper ==
    ASSUME BackupInv, NEW p \in Runs, Untar(p), NEW v \in Names
    PROVE  WiperInv(v)'
  <1>1. /\ BackupTypeOK /\ RunInv(p) /\ RestoreInv(p) /\ ArchivesStay /\ Current(p) \in Names
        /\ pc[p] = "untar" /\ RestoreStep(p) /\ Advance(p) /\ wiper' = wiper
    BY StepArchives, CurrentName DEF BackupInv, Untar, RestoreStep
  <1>2. /\ exit[p] = "none" /\ Source[p] # Null /\ failures[p] \in Nat
    BY <1>1, VolumeList DEF RunInv, BackupPoints, BackupTypeOK
  <1>3. kept[p].files[Current(p)] = Held(p, Current(p))
    BY <1>1, <1>2 DEF RestoreInv, RestorePoints, Held
  <1>4. pc'[p] \in {"create", "load_env"} /\ exit'[p] # "0"
    BY <1>1, <1>2, AdvanceGoes DEF BackupTypeOK
  <1>5. Mixed # Empty
    BY Distinct
  <1>6. CASE /\ Change(Current(p), IF volume[Current(p)] = Empty
                                   THEN kept[p].files[Current(p)] ELSE Mixed)
             /\ UNCHANGED failures
    <2>1. /\ volume'[v] = Empty => volume[v] = Empty
          /\ volume'[v] = Empty /\ v = Current(p) => Held(p, v) = Empty
      BY <1>1, <1>3, <1>5, <1>6, ChangeEmpty
    <2>2. ASSUME wiper[v] = p
          PROVE  WiperInv(v)'
      <3>1. CASE v = Current(p) /\ volume'[v] # Empty
        BY <1>1, <1>4, <2>2, <3>1, WiperStays
      <3>2. CASE v # Current(p) \/ Held(p, v) = Empty
        BY <1>1, <1>4, <1>6, <2>1, <2>2, <3>2, WiperGoesOn DEF RestorePoints
      <3> QED
        BY <2>1, <3>1, <3>2
    <2> QED
      BY <1>1, <2>1, <2>2, RestoreLeavesVolume
  <1>7. CASE /\ \E c \in {volume[Current(p)], Mixed} : Change(Current(p), c)
             /\ Counted(failures, p)
    <2>1. volume'[v] = Empty => volume[v] = Empty
      BY <1>1, <1>5, <1>7, ChangeEmpty
    <2>2. failures'[p] # 0
      BY <1>1, <1>2, <1>7 DEF Counted, BackupTypeOK
    <2>3. wiper[v] = p => WiperInv(v)'
      BY <1>1, <1>4, <2>1, <2>2, WiperGoesOn DEF RestorePoints
    <2> QED
      BY <1>1, <2>1, <2>3, RestoreLeavesVolume
  <1> QED
    BY <1>6, <1>7 DEF Untar

LEMMA EndWiper ==
    ASSUME BackupInv, NEW p \in Runs, CheckArchive(p) \/ LoadEnv(p) \/ Kill(p), NEW v \in Names
    PROVE  WiperInv(v)'
  <1>1. /\ BackupTypeOK /\ RunInv(p) /\ RestoreInv(p) /\ ArchivesStay /\ Current(p) \in Names
        /\ RestoreStep(p) \/ Kill(p)
    BY StepArchives, CurrentName DEF BackupInv, RestoreStep
  <1>2. CASE CheckArchive(p)
    <2>1. wiper[v] # p
      BY <1>2, WiperFacts, RunsAssumption DEF CheckArchive
    <2> QED
      BY <1>1, <1>2, <2>1, RestoreLeavesVolume DEF CheckArchive, history
  <1>3. CASE LoadEnv(p)
    <2>1. /\ pc[p] = "load_env" /\ pc'[p] = "done" /\ failures' = failures
          /\ volume' = volume /\ wiper' = wiper
          /\ exit'[p] = "0" => Status(p) = "0"
      BY <1>1, <1>3 DEF LoadEnv, Exit, BackupTypeOK, counters, history
    <2>2. exit'[p] = "0" => failures[p] = 0
      BY <1>1, <2>1, VolumeList DEF Status, BackupTypeOK
    <2>3. wiper[v] = p => WiperInv(v)'
      BY <1>1, <2>1, <2>2, WiperGoesOn DEF RestorePoints
    <2> QED
      BY <1>1, <2>1, <2>3, RestoreLeavesVolume
  <1>4. CASE Kill(p)
    <2>1. /\ pc'[p] = "done" /\ exit'[p] = "killed" /\ wiper' = wiper /\ failures' = failures
      BY <1>1, <1>4 DEF Kill, Exit, BackupTypeOK, counters
    <2>2. volume'[v] = Empty => volume[v] = Empty
      BY <1>1, <1>4, ChangeEmpty, Distinct DEF Kill
    <2>3. wiper[v] = p => WiperInv(v)'
      <3>1. wiper[v] = p => pc[p] \in RestorePoints
        BY <1>4, WiperFacts, RunsAssumption DEF Kill, InFlightPoints, RestorePoints, BackupPoints
      <3> QED
        BY <1>1, <2>1, <2>2, <3>1, WiperGoesOn
    <2> QED
      BY <1>1, <2>1, <2>2, <2>3, RestoreLeavesVolume
  <1> QED
    BY <1>2, <1>3, <1>4

LEMMA ElsewhereWiper ==
    ASSUME BackupInv, Elsewhere, NEW v \in Names
    PROVE  WiperInv(v)'
  <1>1. BackupTypeOK /\ (\A q \in Runs : Same(q)) /\ ArchivesStay /\ wiper' = wiper
    BY ElsewhereFrame DEF BackupInv
  <1>2. volume'[v] = Empty => volume[v] = Empty
    <2>1. CASE Write
      <3>1. writes' \in Nat /\ writes' # Empty
        BY <1>1, <2>1, Distinct, FaultsAssumption DEF Write, BackupTypeOK
      <3> QED
        BY <1>1, <2>1, <3>1, ChangeEmpty DEF Write
    <2>2. CASE Disaster
      BY <2>2, Distinct DEF Disaster
    <2>3. CASE UNCHANGED vars
      BY <2>3 DEF vars
    <2> QED
      BY <2>1, <2>2, <2>3 DEF Elsewhere
  <1>3. wiper[v] # Null => Same(wiper[v])
    BY <1>1, WiperFacts
  <1> QED
    BY <1>1, <1>2, <1>3, WiperOthers

-----------------------------------------------------------------------------
(* The theorems.                                                            *)

LEMMA InvInit ==
    ASSUME Init
    PROVE  BackupInv
  <1>1. BackupTypeOK
    BY TypeInit
  <1>2. ASSUME NEW p \in Runs
        PROVE  RunInv(p) /\ CopyInv(p) /\ ArchiveInv(p) /\ RestoreInv(p)
    <2>1. /\ pc[p] = "idle" /\ at[p] = 1 /\ kept[p] = Nothing /\ failures[p] = 0
          /\ copies[p] = 0 /\ archive[p] = Null /\ exit[p] = "none" /\ ~torn[p]
      BY DEF Init
    <2>2. RunInv(p)
      BY <2>1, VolumeList DEF RunInv, LoopPoints
    <2>3. CopyInv(p)
      BY <2>1 DEF CopyInv, BackupPoints, Faithful, Nothing
    <2>4. ArchiveInv(p) /\ RestoreInv(p)
      BY <2>1 DEF ArchiveInv, RestoreInv, RestorePoints
    <2> QED
      BY <2>2, <2>3, <2>4
  <1>3. ASSUME NEW v \in Names
        PROVE  WiperInv(v)
    <2>1. wiper[v] = Null /\ volume[v] \in {0, Absent}
      BY DEF Init
    <2> QED
      BY <2>1, Distinct DEF WiperInv
  <1> QED
    BY <1>1, <1>2, <1>3 DEF BackupInv

LEMMA InvStep ==
    ASSUME BackupInv, NEW p \in Runs, BackupStep(p) \/ RestoreStep(p) \/ Kill(p)
    PROVE  BackupInv'
  <1>1. BackupTypeOK'
    BY BackupStepType, RestoreStepType
  <1>2. ASSUME NEW q \in Runs
        PROVE  (RunInv(q) /\ CopyInv(q) /\ ArchiveInv(q) /\ RestoreInv(q))'
    <2>1. CASE q = p
      BY <2>1, BackupStepRun, RestoreStepRun, KillRun, OwnCopy, OwnArchive, OwnRestore
    <2>2. CASE q # p
      <3>1. Same(q) /\ Beside(q) /\ ArchivesStay
        BY <2>2, StepFrame, StepBeside, StepArchives
      <3> QED
        BY <3>1, BesideRun, BesideCopy, BesideArchive, BesideRestore
    <2> QED
      BY <2>1, <2>2
  <1>3. ASSUME NEW v \in Names
        PROVE  WiperInv(v)'
    BY BackupStepWiper, CreateWiper, WipeWiper, UntarWiper, EndWiper DEF RestoreStep
  <1> QED
    BY <1>1, <1>2, <1>3 DEF BackupInv

LEMMA InvElsewhere ==
    ASSUME BackupInv, Elsewhere
    PROVE  BackupInv'
  <1>1. /\ BackupTypeOK /\ BackupTypeOK' /\ ArchivesStay
        /\ \A q \in Runs : Same(q)
        /\ Disaster \/ \A q \in Runs : Beside(q)
    BY ElsewhereType, ElsewhereFrame DEF BackupInv
  <1>2. ASSUME NEW q \in Runs
        PROVE  (RunInv(q) /\ CopyInv(q) /\ ArchiveInv(q) /\ RestoreInv(q))'
    <2>1. (RunInv(q) /\ RestoreInv(q))'
      BY <1>1, BesideRun, BesideRestore
    <2>2. CASE Disaster
      <3>1. CopyInv(q) /\ ArchiveInv(q)
        BY DEF BackupInv
      <3>2. pc[q] \notin BackupPoints /\ pc' = pc /\ seen' = seen /\ torn' = torn
            /\ kept' = kept /\ archive' = archive /\ exit' = exit
        BY <2>2 DEF Disaster, BackupPoints, history
      <3>3. CopyInv(q)'
        BY <3>1, <3>2 DEF CopyInv, BackupPoints, Faithful, Differ
      <3>4. ArchiveInv(q)'
        BY <3>1, <3>2 DEF ArchiveInv, Faithful, Differ, HasVolume
      <3> QED
        BY <2>1, <3>3, <3>4
    <2>3. CASE ~Disaster
      BY <1>1, <2>1, <2>3, BesideCopy, BesideArchive
    <2> QED
      BY <2>2, <2>3
  <1>3. ASSUME NEW v \in Names
        PROVE  WiperInv(v)'
    BY ElsewhereWiper
  <1> QED
    BY <1>1, <1>2, <1>3 DEF BackupInv

\* Whatever the runs of scripts/backup.sh do, one beside another and beside the
\* services, and wherever they fail or are killed: what a backup has copied it saw, what
\* it left it copied, what a restore works from is a whole archive that stays, and
\* what it emptied it is about to fill.
THEOREM BackupInductive == Spec => []BackupInv
  <1>1. Init => BackupInv
    BY InvInit
  <1>2. BackupInv /\ [Next]_vars => BackupInv'
    <2> SUFFICES ASSUME BackupInv, [Next]_vars
                 PROVE  BackupInv'
      OBVIOUS
    <2>1. CASE \E p \in Runs : BackupStep(p) \/ RestoreStep(p) \/ Kill(p)
      BY <2>1, InvStep
    <2>2. CASE Elsewhere
      BY <2>2, InvElsewhere
    <2> QED
      BY <2>1, <2>2 DEF Next, Quiescent, Elsewhere
  <1> QED
    BY <1>1, <1>2, PTL DEF Spec

\* Types: the counters of scripts/backup.sh never pass the number of volumes, and its
\* loop never leaves the list.
THEOREM BackupTypeCorrect == Spec => []BackupTypeOK
  <1>1. BackupInv => BackupTypeOK
    BY DEF BackupInv
  <1> QED
    BY <1>1, BackupInductive, PTL

\* What differs is more than one.
LEMMA DifferCounts ==
    ASSUME NEW S \in SUBSET Contents, Differ(S)
    PROVE  Cardinality(S) > 1
  <1>1. IsFiniteSet(Contents)
    <2>1. IsFiniteSet(0..MaxWrites)
      BY FS_Interval, FaultsAssumption
    <2>2. IsFiniteSet({Absent}) /\ IsFiniteSet({Empty}) /\ IsFiniteSet({Mixed})
      BY FS_Singleton
    <2>3. IsFiniteSet(({Absent} \cup {Empty}) \cup {Mixed})
      BY <2>2, FS_Union
    <2>4. {Absent, Empty, Mixed} = ({Absent} \cup {Empty}) \cup {Mixed}
      OBVIOUS
    <2>5. IsFiniteSet({Absent, Empty, Mixed})
      BY <2>3, <2>4, Zenon
    <2> QED
      BY <2>1, <2>5, FS_Union DEF Contents
  <1>2. IsFiniteSet(S)
    BY <1>1, FS_Subset
  <1>3. PICK a, b \in S : a # b
    BY DEF Differ
  <1>4. IsFiniteSet({a}) /\ Cardinality({a}) = 1
    BY FS_Singleton
  <1>5. Cardinality({a} \cup {b}) = 2
    BY <1>3, <1>4, FS_AddElement
  <1>6. {a} \cup {b} \subseteq S
    OBVIOUS
  <1>7. Cardinality({a} \cup {b}) <= Cardinality(S) /\ Cardinality(S) \in Nat
    BY <1>2, <1>6, FS_Subset, FS_CardinalityType
  <1> QED
    BY <1>5, <1>7

\* An archive that can be read holds of each volume what it held at one moment of the
\* run, or a mixture if it changed meanwhile; and a backup that exits with 0 left such
\* an archive, in which only a volume that was absent at a moment of the run is missing.
THEOREM ArchivesFaithful == Spec => []ArchivesAreFaithful
  <1>1. BackupInv => ArchivesAreFaithful
    <2> SUFFICES ASSUME BackupInv, NEW p \in Runs
                 PROVE  LET held == archive[p].holds.files IN
                        /\ archive[p] # Null /\ archive[p].whole =>
                            \A v \in Names :
                                \/ held[v] \in {Null} \cup (seen[p][v] \ {Absent})
                                \/ held[v] = Mixed /\ Cardinality(seen[p][v]) > 1
                        /\ Source[p] = Null /\ exit[p] = "0" =>
                            /\ archive[p] # Null /\ archive[p].whole
                            /\ \E v \in Names : held[v] # Null
                            /\ \A v \in Names : held[v] = Null => Absent \in seen[p][v]
      BY DEF ArchivesAreFaithful
    <2>1. BackupTypeOK /\ ArchiveInv(p)
      BY DEF BackupInv
    <2>2. \A v \in Names : Differ(seen[p][v]) => Cardinality(seen[p][v]) > 1
      BY <2>1, DifferCounts DEF BackupTypeOK
    <2>3. archive[p] # Null /\ archive[p].whole =>
              \A v \in Names :
                  \/ archive[p].holds.files[v] \in {Null} \cup (seen[p][v] \ {Absent})
                  \/ archive[p].holds.files[v] = Mixed /\ Cardinality(seen[p][v]) > 1
      BY <2>1, <2>2 DEF ArchiveInv, Faithful
    <2>4. Source[p] = Null /\ exit[p] = "0" =>
              /\ archive[p] # Null /\ archive[p].whole
              /\ \E v \in Names : archive[p].holds.files[v] # Null
              /\ \A v \in Names : archive[p].holds.files[v] = Null => Absent \in seen[p][v]
      BY <2>1 DEF ArchiveInv, HasVolume
    <2> QED
      BY <2>3, <2>4
  <1> QED
    BY <1>1, BackupInductive, PTL

\* A volume that a restore left empty can be restored again, and the restore told so,
\* unless its archive has the volume empty.
THEOREM EmptyRecoverable == Spec => []EmptyVolumesAreRecoverable
  <1>1. BackupInv => EmptyVolumesAreRecoverable
    <2> SUFFICES ASSUME BackupInv, NEW v \in Names, volume[v] = Empty
                 PROVE  /\ wiper[v] # Null
                        /\ archive[Source[wiper[v]]].whole
                        /\ archive[Source[wiper[v]]].holds.files[v] # Null
                        /\ exit[wiper[v]] = "0" =>
                               archive[Source[wiper[v]]].holds.files[v] = Empty
      BY DEF EmptyVolumesAreRecoverable
    <2>1. WiperInv(v)
      BY DEF BackupInv
    <2> QED
      BY <2>1 DEF WiperInv, IsFilling, Held
  <1> QED
    BY <1>1, BackupInductive, PTL

-----------------------------------------------------------------------------
(* Why every run ends.                                                      *)

\* How far a run is: at most three commands for each volume, then two.
Progress(p) ==
    CASE pc[p] = "idle" -> 0
      [] pc[p] = "check" -> 1
      [] pc[p] \in {"inspect", "create"} -> 3 * at[p]
      [] pc[p] \in {"copy", "wipe"} -> 3 * at[p] + 1
      [] pc[p] = "untar" -> 3 * at[p] + 2
      [] pc[p] \in {"save_env", "load_env"} -> 3 * Len(Volumes) + 3
      [] pc[p] = "compress" -> 3 * Len(Volumes) + 4
      [] pc[p] = "done" -> 3 * Len(Volumes) + 5

\* A command of p takes it on, and no step takes it back.
MovesOn(p) ==
    /\ BackupStep(p) \/ RestoreStep(p) \/ Kill(p) => Progress(p)' > Progress(p)
    /\ Progress(p)' = Progress(p) \/ Progress(p)' > Progress(p)

\* What Progress is at each point.
LEMMA ProgressAt ==
    ASSUME NEW p \in Runs
    PROVE  /\ pc[p] = "idle" => Progress(p) = 0
           /\ pc[p] = "check" => Progress(p) = 1
           /\ pc[p] \in {"inspect", "create"} => Progress(p) = 3 * at[p]
           /\ pc[p] \in {"copy", "wipe"} => Progress(p) = 3 * at[p] + 1
           /\ pc[p] = "untar" => Progress(p) = 3 * at[p] + 2
           /\ pc[p] \in {"save_env", "load_env"} => Progress(p) = 3 * Len(Volumes) + 3
           /\ pc[p] = "compress" => Progress(p) = 3 * Len(Volumes) + 4
           /\ pc[p] = "done" => Progress(p) = 3 * Len(Volumes) + 5
  BY DEF Progress

LEMMA ProgressRises ==
    ASSUME BackupInv, NEW p \in Runs, BackupStep(p) \/ RestoreStep(p) \/ Kill(p)
    PROVE  Progress(p)' > Progress(p)
  <1>1. /\ pc \in [Runs -> InFlightPoints \cup {"idle", "done"}]
        /\ at \in [Runs -> 1..Len(Volumes)] /\ Len(Volumes) \in Nat
    BY RunsAssumption DEF BackupInv, BackupTypeOK
  <1>2. at[p] \in Nat /\ at[p] >= 1 /\ at[p] <= Len(Volumes)
    BY <1>1
  <1>3. /\ pc'[p] = "check" => Progress(p)' = 1
        /\ pc'[p] \in {"inspect", "create"} => Progress(p)' = 3 * at'[p]
        /\ pc'[p] \in {"copy", "wipe"} => Progress(p)' = 3 * at'[p] + 1
        /\ pc'[p] = "untar" => Progress(p)' = 3 * at'[p] + 2
        /\ pc'[p] \in {"save_env", "load_env"} => Progress(p)' = 3 * Len(Volumes) + 3
        /\ pc'[p] = "compress" => Progress(p)' = 3 * Len(Volumes) + 4
        /\ pc'[p] = "done" => Progress(p)' = 3 * Len(Volumes) + 5
    BY DEF Progress
  <1>4. ASSUME Advance(p), pc[p] \in {"inspect", "copy", "create", "wipe", "untar"}
        PROVE  Progress(p)' > Progress(p)
    <2>1. Progress(p) \in Nat /\ Progress(p) <= 3 * at[p] + 2
      BY <1>1, <1>2, <1>4, ProgressAt
    <2>2. CASE at[p] < Len(Volumes)
      <3>1. pc'[p] \in {"inspect", "create"} /\ at'[p] = at[p] + 1
        BY <1>1, <1>4, <2>2 DEF Advance, Goto
      <3> QED
        BY <1>2, <1>3, <2>1, <3>1
    <2>3. CASE ~(at[p] < Len(Volumes))
      <3>1. pc'[p] \in {"save_env", "load_env"}
        BY <1>1, <1>4, <2>3 DEF Advance, Goto
      <3> QED
        BY <1>1, <1>2, <1>3, <2>1, <3>1
    <2> QED
      BY <2>2, <2>3
  <1>5. ASSUME pc[p] # "done", pc'[p] = "done"
        PROVE  Progress(p)' > Progress(p)
    <2>1. Progress(p) \in Nat /\ Progress(p) <= 3 * Len(Volumes) + 4
      BY <1>1, <1>2, <1>5, ProgressAt DEF InFlightPoints
    <2> QED
      BY <1>1, <1>3, <1>5, <2>1
  <1>6. CASE Start(p)
    <2>1. pc[p] = "idle" /\ pc'[p] \in {"inspect", "check"} /\ at' = at
      BY <1>1, <1>6 DEF Start, Goto
    <2> QED
      BY <1>2, <1>3, <2>1, ProgressAt
  <1>7. CASE Inspect(p)
    <2>1. pc[p] = "inspect" /\ (Advance(p) \/ (pc'[p] = "copy" /\ at' = at))
      BY <1>1, <1>7 DEF Inspect, Goto
    <2> QED
      BY <1>2, <1>3, <1>4, <2>1, ProgressAt
  <1>8. CASE CopyVolume(p)
    BY <1>4, <1>8 DEF CopyVolume
  <1>9. CASE SaveEnv(p)
    <2>1. pc[p] = "save_env" /\ pc'[p] \in {"compress", "done"}
      BY <1>1, <1>9 DEF SaveEnv, Goto, Exit
    <2> QED
      BY <1>1, <1>3, <1>5, <2>1, ProgressAt
  <1>10. CASE Compress(p)
    BY <1>1, <1>5, <1>10 DEF Compress, Exit
  <1>11. CASE CheckArchive(p)
    <2>1. pc[p] = "check" /\ (pc'[p] = "done" \/ (pc'[p] = "create" /\ at' = at))
      BY <1>1, <1>11 DEF CheckArchive, Goto, Exit
    <2> QED
      BY <1>2, <1>3, <1>5, <2>1, ProgressAt
  <1>12. CASE Create(p)
    <2>1. /\ pc[p] = "create"
          /\ Advance(p) \/ pc'[p] = "done" \/ (pc'[p] = "wipe" /\ at' = at)
      BY <1>1, <1>12 DEF Create, Goto, Exit
    <2> QED
      BY <1>2, <1>3, <1>4, <1>5, <2>1, ProgressAt
  <1>13. CASE Wipe(p)
    <2>1. pc[p] = "wipe" /\ (Advance(p) \/ (pc'[p] = "untar" /\ at' = at))
      BY <1>1, <1>13 DEF Wipe, Goto
    <2> QED
      BY <1>2, <1>3, <1>4, <2>1, ProgressAt
  <1>14. CASE Untar(p)
    BY <1>4, <1>14 DEF Untar
  <1>15. CASE LoadEnv(p)
    BY <1>1, <1>5, <1>15 DEF LoadEnv, Exit
  <1>16. CASE Kill(p)
    BY <1>1, <1>5, <1>16 DEF Kill, Exit, InFlightPoints
  <1> QED
    BY <1>6, <1>7, <1>8, <1>9, <1>10, <1>11, <1>12, <1>13, <1>14, <1>15, <1>16
    DEF BackupStep, RestoreStep

\* Every command of a backup or a restore brings the run nearer its end, and neither
\* other runs nor what services write take it back: it deals with each volume once, in
\* order, whichever commands fail.
THEOREM RunsMoveOn == Spec => [][\A p \in Runs : MovesOn(p)]_vars
  <1>1. BackupInv /\ [Next]_vars => [\A p \in Runs : MovesOn(p)]_vars
    <2> SUFFICES ASSUME BackupInv, Next, NEW p \in Runs,
                        ~BackupStep(p), ~RestoreStep(p), ~Kill(p)
                 PROVE  Progress(p)' = Progress(p)
      BY ProgressRises DEF MovesOn
    <2>1. ASSUME NEW o \in Runs, o # p, BackupStep(o) \/ RestoreStep(o) \/ Kill(o)
          PROVE  pc'[p] = pc[p] /\ at'[p] = at[p]
      BY <2>1, StepFrame DEF Same
    <2>2. ASSUME Write \/ Disaster \/ Quiescent
          PROVE  pc'[p] = pc[p] /\ at'[p] = at[p]
      BY <2>2 DEF Write, Disaster, Quiescent, vars
    <2>3. pc'[p] = pc[p] /\ at'[p] = at[p]
      BY <2>1, <2>2 DEF Next
    <2> QED
      BY <2>3 DEF Progress
  <1> QED
    BY <1>1, BackupInductive, PTL DEF Spec

=============================================================================
