CONSTANTS
    p1 = p1 p2 = p2 p3 = p3
    v1 = v1 v2 = v2
    Runs = {p1, p2, p3}
    Volumes <- TwoVolumes
    Source <- Sources
    Secrets <- SecretsOfFirst
    Faults = {"fails", "killed"}
    MaxWrites = 1
    Absent = Absent
    Empty = Empty
    Mixed = Mixed
    Null = Null
SPECIFICATION Spec
INVARIANTS
    BackupTypeOK
    ArchivesAreFaithful
    EmptyVolumesAreRecoverable
