-------------------------- MODULE ResidentJournal --------------------------
(* The recovery store of the resident (src/pal/memory/persistence:          *)
(* journal.py, checkpoint.py) and its owner (owner.py, runtime_app.py): an  *)
(* encrypted base checkpoint, a journal of changes, and the cursor that the *)
(* single writer keeps in memory.  The process can be killed, the machine   *)
(* can lose power and every system call can fail between any two steps.     *)
(* A snapshot is a set of items; a journal record is a difference of two.   *)
EXTENDS Integers, Sequences, FiniteSets, FiniteSetsExt

CONSTANTS
    Item,        \* what a snapshot can contain: messages and turn markers
    Active,      \* the marker of a turn that was under way
    Specs,       \* runtime_spec_hash of the programs that are run
    Legacy,      \* those without the checklist, which the others can upgrade
    MaxSeq,      \* bound on the sequence numbers used
    MaxFaults,   \* bound on the failed system calls
    MaxLosses,   \* bound on the process and power losses
    MaxRots      \* bound on the base files that become unreadable

ASSUME ItemAssumption == Active \in Item
ASSUME SpecAssumption == Specs # {} /\ Legacy \subseteq Specs
ASSUME BoundAssumption ==
    MaxSeq \in Nat /\ MaxFaults \in Nat /\ MaxLosses \in Nat /\ MaxRots \in Nat

VARIABLES
    up,          \* "down", "boot" (before the channels start) or "up"
    spec,        \* the runtime_spec_hash of the running program
    live,        \* the dialogue in memory
    base, log,   \* resident_checkpoint.json and resident_journal.jsonl
    baseDisk,    \* contents of the base the medium may hold (not synced yet)
    logDisk,     \* likewise for the journal
    olderBase, olderLog,   \* contents the directory may name instead of those,
                           \* since it could not be opened to be synced
    cur,         \* ResidentJournalStore: state, sequence, tail_offset, _uncertain
    refused,     \* ResidentHistory.restore_failed
    job,         \* the save that holds the writer's lock
    acked, tried,          \* history: acknowledged and attempted dialogues
    spoilt,                \* history: the base went bad or an older file came
                           \* back, and no save was acknowledged since
    faults, losses, rots   \* faults that have happened

older == <<olderBase, olderLog>>
files == <<base, log, baseDisk, logDisk, older>>
budget == <<faults, losses, rots>>
ghosts == <<acked, tried, spoilt>>
vars == <<up, spec, live, files, cur, refused, job, ghosts, budget>>

Garbage == [seq |-> 0, spec |-> 0, add |-> {}, del |-> {}]   \* not decodable
NoBase == [seq |-> 0, val |-> {}, spec |-> 0]                \* no such file
Rotten == [seq |-> 0 - 1, val |-> {}, spec |-> 0]            \* not decodable
NoLog == [recs |-> <<>>, torn |-> FALSE]
NoCursor == [known |-> FALSE, val |-> {}, spec |-> 0, seq |-> 0,
             tail |-> FALSE, uncertain |-> FALSE]
NoJob == [kind |-> "none", at |-> "free", snap |-> {}, rebase |-> FALSE,
          before |-> {}, from |-> 0]

Init ==
    /\ up = "down" /\ spec \in Specs /\ live = {}
    /\ base = NoBase /\ log = NoLog
    /\ baseDisk = {NoBase} /\ logDisk = {NoLog} /\ olderBase = {} /\ olderLog = {}
    /\ cur = NoCursor /\ refused = FALSE /\ job = NoJob
    /\ acked = {} /\ tried = {} /\ spoilt = FALSE
    /\ faults = 0 /\ losses = 0 /\ rots = 0

-----------------------------------------------------------------------------
(* read(): replaying a journal over a base *)

\* The complete records a base does not cover yet.
Uncovered(b, l) == {i \in 1..Len(l.recs) : l.recs[i].seq > b.seq}

\* The sequence reached before record i.
Reached(b, l, i) == Max({b.seq} \cup {l.recs[j].seq : j \in {k \in Uncovered(b, l) : k < i}})

\* Whether x is in the state after the uncovered records among the first n:
\* the last of them that sets or deletes x decides.
Holds(b, l, n, x) ==
    LET touching == {j \in Uncovered(b, l) : j <= n /\ x \in l.recs[j].add \cup l.recs[j].del}
    IN  IF touching = {} THEN x \in b.val ELSE x \in l.recs[Max(touching)].add

\* No complete record raises ResidentCheckpointError.
LogReadable(b, l) ==
    \A i \in 1..Len(l.recs) :
        /\ l.recs[i] # Garbage
        /\ i \in Uncovered(b, l) =>
            /\ l.recs[i].seq = Reached(b, l, i) + 1
            /\ l.recs[i].spec = b.spec
            /\ \A x \in l.recs[i].del : Holds(b, l, i - 1, x)

Readable(b, l) ==
    IF b = NoBase THEN l = NoLog ELSE b # Rotten /\ LogReadable(b, l)

ReplayValue(b, l) == {x \in Item : Holds(b, l, Len(l.recs), x)}
ReplaySeq(b, l) == Reached(b, l, Len(l.recs) + 1)

\* The cursor after read() of the visible files.
ReadCursor ==
    IF base = NoBase
    THEN [NoCursor EXCEPT !.uncertain = cur.uncertain]
    ELSE [known |-> TRUE, val |-> ReplayValue(base, log), spec |-> base.spec,
          seq |-> ReplaySeq(base, log), tail |-> log.torn, uncertain |-> cur.uncertain]

-----------------------------------------------------------------------------
(* save(): one writer, every system call a step *)

Fault == faults < MaxFaults /\ faults' = faults + 1

Goto(place) == job' = [job EXCEPT !.at = place]

\* What the owner does when save() returns: a checkpoint and a restore are
\* acknowledged, the first save of a reset is followed by its rebase.
Saved(c) ==
    /\ acked' = job.snap /\ tried' = {} /\ spoilt' = FALSE
    /\ cur' = [c EXCEPT !.uncertain = FALSE]
    /\ IF job.kind = "reset"
       THEN job' = [job EXCEPT !.kind = "resetBase", !.at = "start", !.rebase = TRUE]
       ELSE job' = NoJob
    /\ refused' = (refused /\ job.kind # "resetBase")
    /\ up' = IF job.kind = "restore" THEN "up" ELSE up
    /\ UNCHANGED <<spec, live, losses, rots>>

\* What the owner does when save() raises.  A reset whose first save already
\* advanced the cursor stands; otherwise the dialogue is put back.
Raised(c) ==
    LET isReset == job.kind \in {"reset", "resetBase"}
        stands  == isReset /\ c.seq > job.from
    IN  /\ cur' = [c EXCEPT !.uncertain = TRUE]
        /\ job' = NoJob
        /\ refused' = ((refused /\ ~stands) \/ job.kind = "restore")
        /\ live' = IF isReset /\ ~stands THEN job.before ELSE live
        /\ up' = IF job.kind = "restore" THEN "up" ELSE up
        /\ UNCHANGED <<spec, ghosts, losses, rots>>

\* save() after an uncertain failure: read the files again and rebase.
SaveRereads ==
    /\ job.at = "start" /\ cur.uncertain
    /\ \/ /\ Readable(base, log)
          /\ cur' = [ReadCursor EXCEPT !.uncertain = FALSE]
          /\ job' = [job EXCEPT !.rebase = TRUE]
          /\ UNCHANGED <<up, spec, live, refused, ghosts, budget>>
       \/ /\ ~Readable(base, log)
          /\ Raised(cur)
          /\ UNCHANGED faults
    /\ UNCHANGED files

WholeBase == job.rebase \/ ~cur.known

\* Nothing changed since the last save: no bytes are written.
SaveNothing ==
    /\ job.at = "start" /\ ~cur.uncertain /\ ~WholeBase /\ cur.val = job.snap
    /\ Saved(cur)
    /\ UNCHANGED <<files, faults>>

\* _fsync_directory, after which the entries name only these contents.  When the
\* directory cannot be opened it returns all the same: the caller goes on, and
\* the entries may name what they named before.
SyncDirectory(bases, logs) ==
    /\ baseDisk' = bases /\ logDisk' = logs
    /\ \/ olderBase' = {} /\ olderLog' = {} /\ UNCHANGED faults
       \/ /\ Fault
          /\ olderBase' = olderBase \cup (baseDisk \ bases)
          /\ olderLog' = olderLog \cup (logDisk \ logs)

NewBase == [seq |-> cur.seq + 1, val |-> job.snap, spec |-> spec]

\* ResidentCheckpointStore.publish up to os.replace.
PublishReplace ==
    /\ job.at = "start" /\ ~cur.uncertain /\ WholeBase /\ cur.seq < MaxSeq
    /\ base' = NewBase /\ baseDisk' = baseDisk \cup {NewBase}
    /\ Goto("replaced")
    /\ UNCHANGED <<up, spec, live, log, logDisk, older, cur, refused, ghosts, budget>>

PublishFails ==
    /\ job.at = "start" /\ ~cur.uncertain /\ WholeBase
    /\ Fault /\ Raised(cur)
    /\ UNCHANGED files

\* Mutant: the cursor and the journal go on without waiting for the directory.
PublishSyncLater ==
    /\ job.at = "replaced"
    /\ cur' = [cur EXCEPT !.known = TRUE, !.val = job.snap, !.spec = spec, !.seq = @ + 1]
    /\ Goto("published")
    /\ UNCHANGED <<up, spec, live, files, refused, ghosts, budget>>

\* The directory is synced; the cursor advances before the journal goes.
PublishSync ==
    /\ job.at = "replaced"
    /\ SyncDirectory({base}, logDisk)
    /\ cur' = [cur EXCEPT !.known = TRUE, !.val = job.snap, !.spec = spec, !.seq = @ + 1]
    /\ Goto("published")
    /\ UNCHANGED <<up, spec, live, base, log, refused, ghosts, losses, rots>>

\* The directory was opened, and its fsync raises.
PublishSyncFails ==
    /\ job.at = "replaced"
    /\ Fault /\ Raised(cur)
    /\ UNCHANGED files

\* _retire_journal
RetireUnlink ==
    /\ job.at = "published"
    /\ log' = NoLog /\ logDisk' = logDisk \cup {NoLog}
    /\ Goto("unlinked")
    /\ UNCHANGED <<up, spec, live, base, baseDisk, older, cur, refused, ghosts, budget>>

RetireSync ==
    /\ job.at = "unlinked"
    /\ SyncDirectory(baseDisk, {log})
    /\ Saved([cur EXCEPT !.tail = FALSE])
    /\ UNCHANGED <<base, log>>

RetireFails ==
    /\ job.at \in {"published", "unlinked"}
    /\ Fault /\ Raised(cur)
    /\ UNCHANGED files

\* _changes(self.state, state), with the sequence and the spec of the record.
Record ==
    [seq |-> cur.seq + 1, spec |-> spec,
     add |-> job.snap \ cur.val, del |-> cur.val \ job.snap]

\* os.write has put some of the line into the file.  A torn line the store
\* knows of was truncated first; one it does not know of spoils the new line.
AppendPartly ==
    /\ job.at = "start" /\ ~cur.uncertain /\ ~WholeBase
    /\ cur.val # job.snap /\ cur.seq < MaxSeq
    /\ log' = [recs |-> IF log.torn /\ ~cur.tail THEN Append(log.recs, Garbage) ELSE log.recs,
               torn |-> TRUE]
    /\ logDisk' = logDisk \cup {log'}
    /\ Goto("partly")
    /\ UNCHANGED <<up, spec, live, base, baseDisk, older, cur, refused, ghosts, budget>>

AppendWhole ==
    /\ job.at = "partly"
    /\ log' = [recs |-> Append(log.recs, Record), torn |-> FALSE]
    /\ logDisk' = logDisk \cup {log'}
    /\ Goto("whole")
    /\ UNCHANGED <<up, spec, live, base, baseDisk, older, cur, refused, ghosts, budget>>

\* os.fsync of the file, and of the directory when its first record made it.
AppendSync ==
    /\ job.at = "whole"
    /\ \/ Len(log.recs) = 1 /\ SyncDirectory(baseDisk, {log})
       \/ Len(log.recs) > 1 /\ logDisk' = {log} /\ UNCHANGED <<baseDisk, older, faults>>
    /\ Saved([cur EXCEPT !.tail = FALSE, !.val = job.snap, !.seq = @ + 1])
    /\ UNCHANGED <<base, log>>

\* A write or a sync failed: the line is cut off again, unless that fails too.
AppendFails ==
    /\ job.at \in {"partly", "whole"}
    /\ Fault
    /\ \/ UNCHANGED <<log, logDisk>>
       \/ /\ log' = [recs |-> IF job.at = "partly" THEN log.recs
                              ELSE SubSeq(log.recs, 1, Len(log.recs) - 1),
                     torn |-> FALSE]
          /\ logDisk' = logDisk \cup {log'}
    /\ Raised(cur)
    /\ UNCHANGED <<base, baseDisk, older>>

-----------------------------------------------------------------------------
(* The owner: checkpoints, reset, restore *)

\* The dialogue changes while no reset is clearing it; a message is recorded
\* or a compaction takes one away.  The save under way keeps its snapshot.
Talk ==
    /\ up = "up" /\ job.kind \notin {"reset", "resetBase"}
    /\ \E x \in Item : live' \in {live \cup {x}, live \ {x}} \ {live}
    /\ UNCHANGED <<up, spec, files, cur, refused, job, ghosts, budget>>

\* Mutant: a checkpoint is taken although the restore failed.
CheckpointAnyway ==
    /\ up = "up" /\ job = NoJob
    /\ \E rebase \in BOOLEAN :
        job' = [NoJob EXCEPT !.kind = "checkpoint", !.at = "start",
                             !.snap = live,
                             !.rebase = rebase \/ (cur.known /\ cur.spec # spec)]
    /\ tried' = tried \cup {live}
    /\ UNCHANGED <<up, spec, live, files, cur, refused, acked, spoilt, budget>>

\* checkpoint_async: refused for good after a failed restore.
Checkpoint ==
    /\ up = "up" /\ job = NoJob /\ ~refused
    /\ \E rebase \in BOOLEAN :
        job' = [NoJob EXCEPT !.kind = "checkpoint", !.at = "start",
                             !.snap = live,
                             !.rebase = rebase \/ (cur.known /\ cur.spec # spec)]
    /\ tried' = tried \cup {live}
    /\ UNCHANGED <<up, spec, live, files, cur, refused, acked, spoilt, budget>>

\* reset_async: the old dialogue is staged for the archive and cleared, then the
\* empty one is saved, then saved as a new base.  After a failed restore only the
\* new base is written.
Reset ==
    /\ up = "up" /\ job = NoJob
    /\ job' = [kind |-> IF refused THEN "resetBase" ELSE "reset", at |-> "staging",
               snap |-> {}, rebase |-> refused, before |-> live, from |-> cur.seq]
    /\ live' = {} /\ tried' = tried \cup {{}}
    /\ UNCHANGED <<up, spec, files, cur, refused, acked, spoilt, budget>>

ResetStaged ==
    /\ job.at = "staging"
    /\ Goto("start")
    /\ UNCHANGED <<up, spec, live, files, cur, refused, ghosts, budget>>

\* Staging fails before anything is saved.
ResetAborts ==
    /\ job.at = "staging"
    /\ Fault
    /\ job' = NoJob /\ live' = job.before
    /\ UNCHANGED <<up, spec, files, cur, refused, ghosts, losses, rots>>

\* _restore_checkpoint_async, from an empty disk, a usable one and one that
\* cannot be read or belongs to another program.
BootFresh ==
    /\ up = "down" /\ base = NoBase /\ log = NoLog
    /\ up' = "up" /\ spec' \in Specs
    /\ UNCHANGED <<live, files, cur, refused, job, ghosts, budget>>

Accepts(s) == base.spec = s \/ (base.spec \in Legacy /\ s \notin Legacy)

\* Mutant: the turn that was under way is restored as active.
BootRestoresActive ==
    /\ up = "down" /\ base # NoBase /\ Readable(base, log)
    /\ spec' \in {s \in Specs : Accepts(s)}
    /\ cur' = ReadCursor
    /\ live' = ReplayValue(base, log)
    /\ job' = [NoJob EXCEPT !.kind = "restore", !.at = "start",
                            !.snap = live', !.rebase = TRUE]
    /\ tried' = tried \cup {live'}
    /\ up' = "boot"
    /\ UNCHANGED <<files, refused, acked, spoilt, budget>>

BootRestores ==
    /\ up = "down" /\ base # NoBase /\ Readable(base, log)
    /\ spec' \in {s \in Specs : Accepts(s)}
    /\ cur' = ReadCursor
    /\ live' = ReplayValue(base, log) \ {Active}
    /\ job' = [NoJob EXCEPT !.kind = "restore", !.at = "start",
                            !.snap = live', !.rebase = TRUE]
    /\ tried' = tried \cup {live'}
    /\ up' = "boot"
    /\ UNCHANGED <<files, refused, acked, spoilt, budget>>

BootRefuses ==
    /\ up = "down" /\ spec' \in Specs
    /\ \/ ~Readable(base, log) /\ UNCHANGED cur
       \/ base # NoBase /\ Readable(base, log) /\ ~Accepts(spec') /\ cur' = ReadCursor
    /\ refused' = TRUE /\ up' = "up"
    /\ UNCHANGED <<live, files, job, ghosts, budget>>

-----------------------------------------------------------------------------
(* Losses *)

Forget ==
    /\ up' = "down" /\ live' = {} /\ cur' = NoCursor /\ refused' = FALSE /\ job' = NoJob
    /\ UNCHANGED <<spec, acked, tried, faults>>

\* The process is killed; the files stay as it left them.
Kill ==
    /\ up # "down" /\ losses < MaxLosses /\ losses' = losses + 1
    /\ Forget
    /\ UNCHANGED <<files, spoilt, rots>>

\* The machine stops; what was not synced may be there or not, and a directory
\* that was not synced may name a file older than the last acknowledged save.
PowerLoss ==
    /\ losses < MaxLosses /\ losses' = losses + 1
    /\ base' \in baseDisk \cup olderBase /\ baseDisk' = {base'}
    /\ log' \in logDisk \cup olderLog /\ logDisk' = {log'}
    /\ spoilt' = (spoilt \/ base' \notin baseDisk \/ log' \notin logDisk)
    /\ olderBase' = {} /\ olderLog' = {}
    /\ Forget
    /\ UNCHANGED rots

\* The medium spoils the base while no process runs.
Rot ==
    /\ up = "down" /\ base # NoBase /\ rots < MaxRots /\ rots' = rots + 1
    /\ base' = Rotten /\ baseDisk' = {Rotten} /\ spoilt' = TRUE
    /\ UNCHANGED <<up, spec, live, log, logDisk, older, cur, refused, job, acked, tried, faults, losses>>

SaveStep ==
    \/ SaveRereads \/ SaveNothing
    \/ PublishReplace \/ PublishFails \/ PublishSync \/ PublishSyncFails
    \/ RetireUnlink \/ RetireSync \/ RetireFails
    \/ AppendPartly \/ AppendWhole \/ AppendSync \/ AppendFails

Next ==
    \/ Talk \/ Checkpoint \/ Reset \/ ResetStaged \/ ResetAborts \/ SaveStep
    \/ BootFresh \/ BootRestores \/ BootRefuses
    \/ Kill \/ PowerLoss \/ Rot

Spec == Init /\ [][Next]_vars

-----------------------------------------------------------------------------
Values == SUBSET Item
SpecIds == Specs \cup {0}
Sequences0 == 0..(MaxSeq + 1)
Records == [seq : Sequences0, spec : SpecIds, add : Values, del : Values]
Bases == [seq : Sequences0, val : Values, spec : SpecIds] \cup {Rotten}
Logs == [recs : Seq(Records), torn : BOOLEAN]

\* The shape of every variable; the writer's job is consistent with the phase
\* of the process, so the restore always ends in a running process.
TypeOK ==
    /\ up \in {"down", "boot", "up"} /\ spec \in Specs /\ live \in Values
    /\ base \in Bases /\ log \in Logs
    /\ baseDisk \cup olderBase \subseteq Bases /\ logDisk \cup olderLog \subseteq Logs
    /\ cur \in [known : BOOLEAN, val : Values, spec : SpecIds, seq : Sequences0,
                tail : BOOLEAN, uncertain : BOOLEAN]
    /\ refused \in BOOLEAN
    /\ job \in [kind : {"none", "checkpoint", "restore", "reset", "resetBase"},
                at : {"free", "staging", "start", "replaced", "published", "unlinked", "partly", "whole"},
                snap : Values, rebase : BOOLEAN, before : Values, from : Sequences0]
    /\ acked \in Values /\ tried \subseteq Values /\ spoilt \in BOOLEAN
    /\ (job.at = "free" <=> job = NoJob) /\ (up = "boot" <=> job.kind = "restore")
    /\ faults \in 0..MaxFaults /\ losses \in 0..MaxLosses /\ rots \in 0..MaxRots

\* Whatever a kill or a power loss at this moment leaves on the disk can be
\* read, and it is the dialogue of the last acknowledged save or of one
\* attempted after it: no journal record is applied twice, skipped, applied to
\* the wrong base or lost after its fsync, and the failures of a write, of a
\* sync and of the clean-up after them never spoil the recovery point.  Out of
\* the promise until the next acknowledged save are a base the medium has spoilt
\* and a power loss that undoes what a directory that could not be opened left
\* unsynced: the code acknowledges such a save, and a kill cannot undo it.
Recoverable ==
    TypeOK /\ (~spoilt => \A b \in baseDisk \cup {base}, l \in logDisk \cup {log} :
        /\ Readable(b, l)
        /\ ReplayValue(b, l) \in {acked} \cup tried)

\* After a failed restore the files stay as they were found until a reset: an
\* ordinary save never overwrites what an operator may still want to rescue.
RefusedKeepsFiles ==
    [][ refused /\ job.kind \notin {"reset", "resetBase"} /\ up' # "down"
        => UNCHANGED <<base, log>> ]_vars

\* The store implements the abstract durable dialogue.
Dialogue == INSTANCE DurableDialogue WITH
    up <- (up # "down"), loose <- (olderBase \cup olderLog # {})
RefinesDialogue == Dialogue!Spec
=============================================================================
