----------------------------- MODULE Checkpoint -----------------------------
(***************************************************************************)
(* backend/internal/orchestrator/checkpoint.go: the checkpoints of each    *)
(* daemon instance, in memory, and the table the instances share.          *)
(*                                                                         *)
(* A checkpoint's ref is the hash of its job, unit and creation time: here *)
(* the creation time itself, which is unique; unit, node and state are     *)
(* fixed by the ref.  Every call but LoadFromDB runs under the mutex from  *)
(* its first read to its last write, so it is one step; LoadFromDB queries *)
(* before it locks and is two.  An instance without a pool behaves as one  *)
(* whose every insert fails.                                               *)
(***************************************************************************)
EXTENDS Integers, Sequences, FiniteSets, SequencesExt, Filters

CONSTANTS
    Daemons,
    Jobs,            \* job ids, numbers: the table is read in their order
    MaxSaves,        \* bound: checkpoints ever saved
    MaxLoads,        \* bound: LoadFromDB calls of one incarnation
    MaxRestarts      \* bound: crashes of daemons

ASSUME CheckpointConstants ==
    /\ Jobs \subseteq Nat
    /\ MaxSaves \in Nat /\ MaxLoads \in Nat /\ MaxRestarts \in Nat

NoCheckpoint == [ref |-> 0, job |-> 0, seq |-> 0]

VARIABLES
    storage,          \* daemon -> its checkpoints
    byJobID,          \* daemon -> job -> sequence of refs
    lastCheckpoint,   \* daemon -> job -> checkpoint or NoCheckpoint
    loading,          \* daemon -> the result of a query still to be merged, a set holding at most one
    table,            \* public.job_checkpoints
    clock,            \* time.Now() of the last save
    loads, restarts,  \* bounded counters
    saved,            \* history: every checkpoint ever made
    uninformed        \* history: jobs saved by an instance whose list was not the job's checkpoints

checkpointVars == <<storage, byJobID, lastCheckpoint, loading, table, clock, loads, restarts,
                    saved, uninformed>>

CheckpointInit ==
    /\ storage = [d \in Daemons |-> {}]
    /\ byJobID = [d \in Daemons |-> [j \in Jobs |-> <<>>]]
    /\ lastCheckpoint = [d \in Daemons |-> [j \in Jobs |-> NoCheckpoint]]
    /\ loading = [d \in Daemons |-> {}]
    /\ table = {}
    /\ clock = 0
    /\ loads = [d \in Daemons |-> 0]
    /\ restarts = 0
    /\ saved = {} /\ uninformed = {}

-----------------------------------------------------------------------------
(* Mutant: only checkpoints that are not yet in the table are counted. *)
SequenceFromLoads(d, j) ==
    1 + Len(byJobID[d][j]) - Cardinality({cp \in storage[d] : cp.job = j /\ cp \in table})

NextSequence(d, j) == Len(byJobID[d][j]) + 1

(* Mutant: the upsert gives a row that is already there the next number. *)
PersistRenumbered(rows) ==
    table' = table \cup {[cp EXCEPT !.seq = IF cp \in table THEN @ + 1 ELSE @] : cp \in rows}

Persist(rows) == table' = table \cup rows

(* Mutant: the pointer to the newest checkpoint is only moved to a longer history. *)
PointerKept(d, cp) == IF lastCheckpoint[d][cp.job] = NoCheckpoint THEN cp ELSE lastCheckpoint[d][cp.job]

SavedLast(d, cp) == cp

(* History: the instance lists each checkpoint ever made for the job, and lists it once *)
(* (a load after a save, or a second load, lists what is there again).                  *)
ListsAll(d, j) ==
    LET made == {cp.ref : cp \in {c \in saved : c.job = j}}
    IN  ToSet(byJobID[d][j]) = made /\ Len(byJobID[d][j]) = Cardinality(made)

(* Memory first; an insert that fails is ignored. *)
SaveCheckpoint(d, j, inserted) ==
    /\ clock < MaxSaves
    /\ clock' = clock + 1
    /\ LET cp == [ref |-> clock + 1, job |-> j, seq |-> NextSequence(d, j)]
       IN  /\ storage' = [storage EXCEPT ![d] = @ \cup {cp}]
           /\ byJobID' = [byJobID EXCEPT ![d][j] = Append(@, cp.ref)]
           /\ lastCheckpoint' = [lastCheckpoint EXCEPT ![d][j] = SavedLast(d, cp)]
           /\ Persist(IF inserted THEN {cp} ELSE {})
           /\ saved' = saved \cup {cp}
    /\ uninformed' = IF ListsAll(d, j) THEN uninformed ELSE uninformed \cup {j}
    /\ UNCHANGED <<loading, loads, restarts>>

(* ORDER BY job_id, sequence; rows that agree on both come in any order. *)
InTableOrder(rows) ==
    \A i, k \in 1..Len(rows) : i < k =>
        \/ rows[i].job < rows[k].job
        \/ rows[i].job = rows[k].job /\ rows[i].seq <= rows[k].seq

QueryTable(d) ==
    /\ loading[d] = {}
    /\ loads[d] < MaxLoads
    /\ loads' = [loads EXCEPT ![d] = @ + 1]
    /\ \E rows \in SetToSeqs(table) : InTableOrder(rows) /\ loading' = [loading EXCEPT ![d] = {rows}]
    /\ UNCHANGED <<storage, byJobID, lastCheckpoint, table, clock, restarts, saved, uninformed>>

(* Mutant: the comparison is inverted. *)
KeepsOldest(existing, mine) ==
    IF mine = <<>> \/ (existing # NoCheckpoint /\ existing.seq < mine[1].seq) THEN existing ELSE mine[1]

(* Rows ascend in sequence, so the first one with the greatest sequence is kept, *)
(* and only if that is greater than the sequence of the pointer before the load. *)
LoadedLast(existing, mine) ==
    LET greatest == CHOOSE i \in 1..Len(mine) :
                        /\ mine[i].seq = Last(mine).seq
                        /\ \A k \in 1..(i - 1) : mine[k].seq # Last(mine).seq
    IN  IF mine = <<>> \/ (existing # NoCheckpoint /\ existing.seq >= Last(mine).seq)
        THEN existing ELSE mine[greatest]

(* rows.Err() is not asked for: a stream that breaks looks like a shorter one. *)
MergeRows(d, read) ==
    /\ \E rows \in loading[d] :
         LET got == SubSeq(rows, 1, read)
             mine(j) == Filter(got, {cp \in ToSet(got) : cp.job = j})
         IN  /\ read \in 0..Len(rows)
             /\ storage' = [storage EXCEPT ![d] = @ \cup ToSet(got)]
             /\ byJobID' = [byJobID EXCEPT ![d] = [j \in Jobs |->
                    @[j] \o [i \in 1..Len(mine(j)) |-> mine(j)[i].ref]]]
             /\ lastCheckpoint' = [lastCheckpoint EXCEPT ![d] = [j \in Jobs |->
                    LoadedLast(@[j], mine(j))]]
    /\ loading' = [loading EXCEPT ![d] = {}]
    /\ UNCHANGED <<table, clock, loads, restarts, saved, uninformed>>

(* One upsert per checkpoint, in map order, up to the first that fails; a conflict *)
(* rewrites what the ref determines.                                               *)
SyncToDB(d, rows) ==
    /\ rows \subseteq storage[d]
    /\ Persist(rows)
    /\ UNCHANGED <<storage, byJobID, lastCheckpoint, loading, clock, loads, restarts, saved, uninformed>>

(* Mutant: the entries stay in the map the refs pointed into. *)
KeepsStored(d, refs) == storage[d]

RemainingStorage(d, refs) == {cp \in storage[d] : cp.ref \notin refs}

ClearCheckpoints(d, j) ==
    /\ storage' = [storage EXCEPT ![d] = RemainingStorage(d, ToSet(byJobID[d][j]))]
    /\ byJobID' = [byJobID EXCEPT ![d][j] = <<>>]
    /\ lastCheckpoint' = [lastCheckpoint EXCEPT ![d][j] = NoCheckpoint]
    /\ UNCHANGED <<loading, table, clock, loads, restarts, saved, uninformed>>

(* What the readers return: the newest checkpoint, and the listed ones that are stored. *)
GetLastCheckpoint(d, j) == lastCheckpoint[d][j]

GetCheckpointsForJob(d, j) ==
    Filter(byJobID[d][j], {cp.ref : cp \in storage[d]})

(* A daemon stops, at any point, and starts again with empty memory. *)
Restart(d) ==
    /\ restarts < MaxRestarts
    /\ restarts' = restarts + 1
    /\ storage' = [storage EXCEPT ![d] = {}]
    /\ byJobID' = [byJobID EXCEPT ![d] = [j \in Jobs |-> <<>>]]
    /\ lastCheckpoint' = [lastCheckpoint EXCEPT ![d] = [j \in Jobs |-> NoCheckpoint]]
    /\ loading' = [loading EXCEPT ![d] = {}]
    /\ loads' = [loads EXCEPT ![d] = 0]
    /\ UNCHANGED <<table, clock, saved, uninformed>>

CheckpointNext ==
    \E d \in Daemons :
        \/ \E j \in Jobs, inserted \in BOOLEAN : SaveCheckpoint(d, j, inserted)
        \/ \E j \in Jobs : ClearCheckpoints(d, j)
        \/ QueryTable(d)
        \/ \E read \in 0..MaxSaves : MergeRows(d, read)
        \/ \E rows \in SUBSET storage[d] : SyncToDB(d, rows)
        \/ Restart(d)

CheckpointSpec == CheckpointInit /\ [][CheckpointNext]_checkpointVars

-----------------------------------------------------------------------------
(* Properties *)

Checkpoints == [ref : 1..MaxSaves, job : Jobs, seq : Nat \ {0}]

(* The type of every variable. *)
CheckpointType ==
    /\ storage \in [Daemons -> SUBSET Checkpoints]
    /\ byJobID \in [Daemons -> [Jobs -> Seq(1..MaxSaves)]]
    /\ lastCheckpoint \in [Daemons -> [Jobs -> Checkpoints \cup {NoCheckpoint}]]
    /\ loading \in [Daemons -> SUBSET Seq(Checkpoints)]
    /\ table \subseteq Checkpoints
    /\ clock \in 0..MaxSaves
    /\ loads \in [Daemons -> 0..MaxLoads]
    /\ restarts \in 0..MaxRestarts
    /\ saved \subseteq Checkpoints /\ uninformed \subseteq Jobs

(* The three maps of an instance agree after any mix of saves, loads and clears:   *)
(* GetCheckpointsForJob returns every stored checkpoint of the job and skips no    *)
(* listed one, ClearCheckpoints leaves none behind, and a job has a last           *)
(* checkpoint iff it has any, one of its own.  And a ref names one checkpoint      *)
(* everywhere, whatever instance wrote or loaded it: an upsert or a load never     *)
(* changes the job or sequence of a ref.                                           *)
IndexesAgree ==
    /\ \A d \in Daemons, j \in Jobs :
          LET stored == {cp \in storage[d] : cp.job = j}
          IN  /\ ToSet(GetCheckpointsForJob(d, j)) = {cp.ref : cp \in stored}
              /\ GetCheckpointsForJob(d, j) = byJobID[d][j]
              /\ IF stored = {} THEN GetLastCheckpoint(d, j) = NoCheckpoint
                                ELSE GetLastCheckpoint(d, j) \in stored
    /\ LET everywhere == table \cup UNION {storage[d] : d \in Daemons}
       IN  \A a, b \in everywhere : a.ref = b.ref => a = b

(* GetLastCheckpoint "retrieves the most recent checkpoint for a job": no         *)
(* checkpoint the instance holds is younger than the one it would resume from.    *)
(* It holds for a job as long as every save was made by an instance that listed   *)
(* the job's checkpoints, each once (LoadFromDB compares sequences, not times).   *)
LastIsMostRecent ==
    \A d \in Daemons : \A cp \in storage[d] :
        cp.job \notin uninformed => cp.ref <= GetLastCheckpoint(d, cp.job).ref

(* "sequence number for ordering checkpoints": of such a job a later checkpoint   *)
(* has a greater number, whichever instances saved and loaded them and in         *)
(* whichever order, and although SaveCheckpoint counts only its own memory.       *)
SequenceOrdersCheckpoints ==
    \A a, b \in saved :
        a.job = b.job /\ a.job \notin uninformed /\ a.ref < b.ref => a.seq < b.seq

(* The two facts a resumed job rests on: the newest checkpoint is the last one,   *)
(* and numbers order checkpoints (SaveCheckpoint, LoadFromDB).                    *)
ResumesFromNewest == LastIsMostRecent /\ SequenceOrdersCheckpoints

=============================================================================
