-------------------------------- MODULE Backup --------------------------------
(***************************************************************************)
(* scripts/backup.sh: runs that back up the Docker volumes and .env into   *)
(* an archive, and runs that restore one, beside the services that write   *)
(* to the volumes.  Nothing keeps runs apart; each has a timestamp, and so *)
(* a directory and an archive, of its own.                                 *)
(*                                                                         *)
(* An action is one command of the script that can fail, or be killed in.  *)
(* What a volume holds is a number, one for every write of the services.   *)
(***************************************************************************)
EXTENDS FiniteSets, Integers, Sequences

CONSTANTS
    Runs,       \* the runs of the script
    Volumes,    \* VOLUMES, in the order of the script
    Source,     \* Source[p]: the run whose archive p restores; Null: p backs up
    Secrets,    \* Secrets[p]: whether p has --include-secrets
    Faults,     \* what may happen to a run
    MaxWrites,  \* bound on the writes of the services and the operator
    Absent,     \* of a volume or a file that does not exist
    Empty,      \* of a volume without its files
    Mixed,      \* of a volume, or a copy of one, that two changed at the same time
    Null

Names == {Volumes[i] : i \in DOMAIN Volumes}

ASSUME RunsAssumption ==
    /\ Source \in [Runs -> Runs \cup {Null}] /\ Null \notin Runs
    /\ Secrets \in [Runs -> BOOLEAN]
    /\ Volumes \in Seq(Names) /\ Volumes # <<>>
ASSUME FaultsAssumption == Faults \subseteq {"fails", "killed"} /\ MaxWrites \in Nat

VARIABLES
    volume,    \* volume[v]: what volume v holds
    env,       \* what .env holds
    writes,    \* the writes so far
    pc,        \* pc[p]: the command run p is at
    at,        \* at[p]: the volume its loop is at
    kept,      \* kept[p]: its directory: what it copied, or extracted
    failures,  \* VOLUME_FAILURES or RESTORE_FAILURES
    copies,    \* VOLUMES_BACKED_UP or RESTORED_COUNT
    archive,   \* archive[p]: the file a backup left
    exit,      \* exit[p]: its exit status
    torn,      \* torn[p]: the volume it copies was written to meanwhile
    seen,      \* seen[p][v]: what v held while p backed up (history)
    wiper      \* wiper[v]: the run that last emptied v (history)

counters == <<failures, copies>>
history == <<seen, wiper>>
vars == <<volume, env, writes, pc, at, kept, counters, archive, exit, torn, history>>

Contents == {Absent, Empty, Mixed} \cup (0..MaxWrites)

Kept == [files : [Names -> Contents \cup {Null}], env : Contents \cup {Null}]

ASSUME ValuesAssumption ==
    /\ {Absent, Empty, Mixed, Null} \cap Nat = {}
    /\ Absent \notin {Empty, Mixed, Null} /\ Empty \notin {Mixed, Null} /\ Mixed # Null
    /\ Null \notin [whole : BOOLEAN, holds : Kept]

Nothing == [files |-> [v \in Names |-> Null], env |-> Null]

InFlightPoints == {"inspect", "copy", "save_env", "compress",
                   "check", "create", "wipe", "untar", "load_env"}

BackupTypeOK ==
    /\ volume \in [Names -> Contents]
    /\ env \in Contents
    /\ writes \in 0..MaxWrites
    /\ pc \in [Runs -> InFlightPoints \cup {"idle", "done"}]
    /\ at \in [Runs -> DOMAIN Volumes]
    /\ kept \in [Runs -> Kept]
    /\ failures \in [Runs -> 0..Len(Volumes)]
    /\ copies \in [Runs -> 0..Len(Volumes)]
    /\ archive \in [Runs -> {Null} \cup [whole : BOOLEAN, holds : Kept]]
    /\ exit \in [Runs -> {"none", "0", "1", "killed"}]
    /\ torn \in [Runs -> BOOLEAN]
    /\ seen \in [Runs -> [Names -> SUBSET Contents]]
    /\ wiper \in [Names -> Runs \cup {Null}]

Init ==
    /\ volume \in [Names -> {0, Absent}]
    /\ env \in {0, Absent}
    /\ writes = 0
    /\ pc = [p \in Runs |-> "idle"]
    /\ at = [p \in Runs |-> 1]
    /\ kept = [p \in Runs |-> Nothing]
    /\ failures = [p \in Runs |-> 0]
    /\ copies = [p \in Runs |-> 0]
    /\ archive = [p \in Runs |-> Null]
    /\ exit = [p \in Runs |-> "none"]
    /\ torn = [p \in Runs |-> FALSE]
    /\ seen = [p \in Runs |-> [v \in Names |-> {}]]
    /\ wiper = [v \in Names |-> Null]

-----------------------------------------------------------------------------

MayFail == "fails" \in Faults

Current(p) == Volumes[at[p]]

Goto(p, point) == pc' = [pc EXCEPT ![p] = point] /\ UNCHANGED exit

Exit(p, status) ==
    /\ pc' = [pc EXCEPT ![p] = "done"]
    /\ exit' = [exit EXCEPT ![p] = status]

\* Mutant of Advance: the loop goes one volume too far.
AdvanceTooFar(p) ==
    /\ at' = [at EXCEPT ![p] = @ + 1]
    /\ IF at[p] <= Len(Volumes)
       THEN Goto(p, IF Source[p] = Null THEN "inspect" ELSE "create")
       ELSE Goto(p, IF Source[p] = Null THEN "save_env" ELSE "load_env")

\* The next volume of the loop, or what comes after it.
Advance(p) ==
    IF at[p] < Len(Volumes)
    THEN /\ at' = [at EXCEPT ![p] = @ + 1]
         /\ Goto(p, IF Source[p] = Null THEN "inspect" ELSE "create")
    ELSE /\ Goto(p, IF Source[p] = Null THEN "save_env" ELSE "load_env")
         /\ UNCHANGED at

\* The directory of the run is removed.
Remove(p) == kept' = [kept EXCEPT ![p] = Nothing]

Counted(counter, p) == counter' = [counter EXCEPT ![p] = @ + 1]

\* Volume v comes to hold c; runs that copy it read some of each.
Change(v, c) ==
    /\ volume' = [volume EXCEPT ![v] = c]
    /\ torn' = [p \in Runs |-> torn[p] \/ (pc[p] = "copy" /\ Current(p) = v /\ volume[v] # c)]
    /\ seen' = [p \in Runs |-> IF Source[p] = Null /\ pc[p] \in InFlightPoints
                               THEN [seen[p] EXCEPT ![v] = @ \cup {c}] ELSE seen[p]]

\* main.
Start(p) ==
    /\ pc[p] = "idle"
    /\ Source[p] # Null => archive[Source[p]] # Null
    /\ Goto(p, IF Source[p] = Null THEN "inspect" ELSE "check")
    /\ seen' = IF Source[p] = Null THEN [seen EXCEPT ![p] = [v \in Names |-> {volume[v]}]]
               ELSE seen
    /\ UNCHANGED <<volume, env, writes, at, kept, counters, archive, torn, wiper>>

\* docker volume inspect: a volume that does not exist is skipped.
Inspect(p) ==
    /\ pc[p] = "inspect"
    /\ IF volume[Current(p)] = Absent THEN Advance(p)
       ELSE Goto(p, "copy") /\ UNCHANGED at
    /\ UNCHANGED <<volume, env, writes, kept, counters, archive, torn, history>>

\* Mutant of CopyVolume: the file of a tar that failed is left, and not counted.
CopyVolumeCarelessly(p) ==
    /\ pc[p] = "copy"
    /\ \E c \in {volume[Current(p)]} \cup (IF MayFail THEN {Absent} ELSE {}) :
        kept' = [kept EXCEPT ![p].files[Current(p)] = c]
    /\ Counted(copies, p)
    /\ torn' = [torn EXCEPT ![p] = FALSE]
    /\ Advance(p)
    /\ UNCHANGED <<volume, env, writes, failures, archive, history>>

\* tar czf of the live volume; what a tar that fails wrote is removed.
CopyVolume(p) ==
    /\ pc[p] = "copy"
    /\ \/ /\ kept' = [kept EXCEPT ![p].files[Current(p)] =
                          IF torn[p] THEN Mixed ELSE volume[Current(p)]]
          /\ Counted(copies, p)
          /\ UNCHANGED failures
       \/ /\ MayFail
          /\ Counted(failures, p)
          /\ UNCHANGED <<kept, copies>>
    /\ torn' = [torn EXCEPT ![p] = FALSE]
    /\ Advance(p)
    /\ UNCHANGED <<volume, env, writes, archive, history>>

\* backup_env_file, then write_manifest; a cp that fails ends the script.
SaveEnv(p) ==
    /\ pc[p] = "save_env"
    /\ \/ /\ kept' = IF Secrets[p] /\ env # Absent THEN [kept EXCEPT ![p].env = env]
                     ELSE kept
          /\ Goto(p, "compress")
       \/ MayFail /\ Exit(p, "1") /\ UNCHANGED kept
    /\ UNCHANGED <<volume, env, writes, at, counters, archive, torn, history>>

\* The exit status at the end of run_backup and run_restore.
Status(p) == IF failures[p] > 0 \/ copies[p] = 0 THEN "1" ELSE "0"

\* compress_backup: a tar that fails leaves part of an archive and the directory, and
\* ends the script.
Compress(p) ==
    /\ pc[p] = "compress"
    /\ \/ /\ archive' = [archive EXCEPT ![p] = [whole |-> TRUE, holds |-> kept[p]]]
          /\ Exit(p, Status(p))
          /\ Remove(p)
       \/ /\ MayFail
          /\ archive' = [archive EXCEPT ![p] = [whole |-> FALSE, holds |-> kept[p]]]
          /\ Exit(p, "1")
          /\ UNCHANGED kept
    /\ UNCHANGED <<volume, env, writes, at, counters, torn, history>>

\* tar -tzf, then tar -xzf into a directory of the run.
CheckArchive(p) ==
    /\ pc[p] = "check"
    /\ \/ /\ archive[Source[p]].whole
          /\ kept' = [kept EXCEPT ![p] = archive[Source[p]].holds]
          /\ Goto(p, "create")
       \/ /\ MayFail \/ ~archive[Source[p]].whole
          /\ Exit(p, "1")
          /\ UNCHANGED kept
    /\ UNCHANGED <<volume, env, writes, at, counters, archive, torn, history>>

\* A volume the archive has no file of is skipped; docker volume create makes one
\* that does not exist, and ends the script if it fails.
Create(p) ==
    LET v == Current(p) IN
    /\ pc[p] = "create"
    /\ \/ /\ kept[p].files[v] = Null
          /\ Advance(p)
          /\ UNCHANGED <<volume, kept, torn, seen, wiper>>
       \/ /\ kept[p].files[v] # Null
          /\ IF volume[v] = Absent
             THEN Change(v, Empty) /\ wiper' = [wiper EXCEPT ![v] = p]
             ELSE UNCHANGED <<volume, torn, seen, wiper>>
          /\ Goto(p, "wipe") /\ UNCHANGED <<at, kept>>
       \/ /\ kept[p].files[v] # Null /\ MayFail
          /\ Exit(p, "1")
          /\ Remove(p)
          /\ UNCHANGED <<volume, at, torn, seen, wiper>>
    /\ UNCHANGED <<env, writes, counters, archive>>

\* The container removes what the volume holds, unless it does not start; what it could
\* not remove stays, and `|| true` goes on.
Wipe(p) ==
    /\ pc[p] = "wipe"
    /\ \/ /\ Change(Current(p), Empty)
          /\ wiper' = [wiper EXCEPT ![Current(p)] = p]
          /\ Goto(p, "untar")
          /\ UNCHANGED <<at, failures>>
       \/ /\ MayFail
          /\ \E rest \in {volume[Current(p)], Mixed} : Change(Current(p), rest)
          /\ Goto(p, "untar")
          /\ UNCHANGED <<at, failures, wiper>>
       \/ /\ MayFail
          /\ Counted(failures, p)
          /\ Advance(p)
          /\ UNCHANGED <<volume, torn, seen, wiper>>
    /\ UNCHANGED <<env, writes, kept, copies, archive>>

\* Mutant of Untar: the status of the container is that of the removal.
UntarUnchecked(p) ==
    /\ pc[p] = "untar"
    /\ \/ Change(Current(p), kept[p].files[Current(p)])
       \/ MayFail /\ UNCHANGED <<volume, torn, seen>>
    /\ Counted(copies, p)
    /\ Advance(p)
    /\ UNCHANGED <<env, writes, kept, failures, archive, wiper>>

\* The same container unpacks the copy over what the volume holds by now, or a part
\* of it if it fails.
Untar(p) ==
    LET v == Current(p) IN
    /\ pc[p] = "untar"
    /\ \/ /\ Change(v, IF volume[v] = Empty THEN kept[p].files[v] ELSE Mixed)
          /\ Counted(copies, p)
          /\ UNCHANGED failures
       \/ /\ MayFail
          /\ \E c \in {volume[v], Mixed} : Change(v, c)
          /\ Counted(failures, p)
          /\ UNCHANGED copies
    /\ Advance(p)
    /\ UNCHANGED <<env, writes, kept, archive, wiper>>

\* restore_env_file; the .env that is there is copied away first.
LoadEnv(p) ==
    /\ pc[p] = "load_env"
    /\ \/ /\ env' = IF kept[p].env # Null THEN kept[p].env ELSE env
          /\ Exit(p, Status(p))
       \/ /\ MayFail /\ kept[p].env # Null
          /\ Exit(p, "1")
          /\ UNCHANGED env
    /\ Remove(p)
    /\ UNCHANGED <<volume, writes, at, counters, archive, torn, history>>

\* The run is killed, its container with it; what was being written is cut short,
\* and the directory of a restore is removed.
Kill(p) ==
    /\ "killed" \in Faults
    /\ pc[p] \in InFlightPoints
    /\ Exit(p, "killed")
    /\ \E part \in {archive[p]} \cup
                   (IF pc[p] = "compress" THEN {[whole |-> FALSE, holds |-> kept[p]]} ELSE {}) :
        archive' = [archive EXCEPT ![p] = part]
    /\ IF pc[p] \in {"wipe", "untar"}
       THEN \E c \in {volume[Current(p)], Mixed} : Change(Current(p), c)
       ELSE UNCHANGED <<volume, torn, seen>>
    /\ IF Source[p] = Null THEN UNCHANGED kept ELSE Remove(p)
    /\ UNCHANGED <<env, writes, at, counters, wiper>>

\* A service writes to a volume, or the operator to .env.
Write ==
    /\ writes < MaxWrites
    /\ writes' = writes + 1
    /\ \/ /\ \E v \in Names : volume[v] # Absent /\ Change(v, writes')
          /\ UNCHANGED env
       \/ /\ env' = writes'
          /\ UNCHANGED <<volume, torn, seen>>
    /\ UNCHANGED <<pc, at, kept, counters, archive, exit, wiper>>

\* A host is replaced between runs: its volumes are gone.
Disaster ==
    /\ \A p \in Runs : pc[p] \in {"idle", "done"}
    /\ volume' = [v \in Names |-> Absent]
    /\ UNCHANGED <<env, writes, pc, at, kept, counters, archive, exit, torn, history>>

\* Nobody runs the script again.
Quiescent ==
    /\ \A p \in Runs : pc[p] \in {"idle", "done"}
    /\ UNCHANGED vars

BackupStep(p) == Start(p) \/ Inspect(p) \/ CopyVolume(p) \/ SaveEnv(p) \/ Compress(p)

RestoreStep(p) == CheckArchive(p) \/ Create(p) \/ Wipe(p) \/ Untar(p) \/ LoadEnv(p)

Next ==
    \/ \E p \in Runs : BackupStep(p) \/ RestoreStep(p) \/ Kill(p)
    \/ Write
    \/ Disaster
    \/ Quiescent

Spec == Init /\ [][Next]_vars

-----------------------------------------------------------------------------
(* Safety.                                                                  *)

\* An archive that can be read holds of each volume what it held at one moment of
\* the run, or a mixture if it changed while it was copied; and a run that exits
\* with 0 left such an archive, with every volume that existed all along in it.
ArchivesAreFaithful ==
    \A p \in Runs :
        LET held == archive[p].holds.files IN
        /\ archive[p] # Null /\ archive[p].whole =>
            \A v \in Names :
                \/ held[v] \in {Null} \cup (seen[p][v] \ {Absent})
                \/ held[v] = Mixed /\ Cardinality(seen[p][v]) > 1
        /\ Source[p] = Null /\ exit[p] = "0" =>
            /\ archive[p] # Null /\ archive[p].whole
            /\ \E v \in Names : held[v] # Null
            /\ \A v \in Names : held[v] = Null => Absent \in seen[p][v]

\* A volume is only ever left empty by a restore that is still at it, was killed or
\* tells of a failure, or whose archive holds the volume as a backup beside another
\* restore found it; and the archive it came from can be restored again.
EmptyVolumesAreRecoverable ==
    \A v \in Names :
        volume[v] = Empty =>
            LET p == wiper[v]
                held == archive[Source[p]].holds.files[v]
            IN /\ p # Null
               /\ archive[Source[p]].whole
               /\ held # Null
               /\ exit[p] = "0" => held = Empty

=============================================================================
