-------------------------- MODULE DurableDialogue --------------------------
(* What the resident history promises across process and power loss         *)
(* (src/pal/memory/persistence/journal.py, header): the dialogue a new      *)
(* process starts with is the last one whose save was acknowledged, or one  *)
(* whose save was attempted after it; it is never a mixture of two.  Nothing *)
(* is promised between the loss of the base file to the medium, or a power   *)
(* loss while the directory was left unsynced (checkpoint.py,                *)
(* _fsync_directory), and the next acknowledged save.                        *)
CONSTANTS
    Item,       \* what a snapshot can contain: messages and turn markers
    Active      \* the marker of a turn that was under way

VARIABLES
    up,         \* a process is running
    live,       \* the dialogue in its memory
    acked,      \* the dialogue of the last acknowledged save
    tried,      \* dialogues of the saves attempted since then
    spoilt,     \* the stored dialogue was lost and none acknowledged since
    loose       \* the directory was left unsynced: an older one may come back

vars == <<up, live, acked, tried, spoilt, loose>>

\* A restored dialogue never resumes a turn: its marker is dropped.
Interrupted(v) == v \ {Active}

Init == up = FALSE /\ live = {} /\ acked = {} /\ tried = {} /\ spoilt = FALSE /\ loose = FALSE

\* The dialogue changes; a reset that could not be saved brings it back.
Talk == up /\ live' \in SUBSET Item /\ UNCHANGED <<up, acked, tried, spoilt, loose>>

\* A save takes the dialogue of this moment; a reset empties it first.
Attempt ==
    /\ up
    /\ live' \in {live, {}}
    /\ tried' = tried \cup {live'}
    /\ UNCHANGED <<up, acked, spoilt, loose>>

Acknowledge ==
    /\ up
    /\ acked' \in tried /\ tried' = {} /\ spoilt' = FALSE
    /\ loose' \in BOOLEAN
    /\ UNCHANGED <<up, live>>

\* A save goes past a directory it synced or could not sync.
Sync == up /\ loose' \in BOOLEAN /\ UNCHANGED <<up, live, acked, tried, spoilt>>

\* The process dies; what was only in memory is gone, and what was left unsynced
\* may be.
Die ==
    /\ up' = FALSE /\ live' = {}
    /\ spoilt' \in {spoilt, spoilt \/ loose}
    /\ loose' \in {loose, FALSE}
    /\ UNCHANGED <<acked, tried>>

\* The medium loses the stored dialogue while no process runs.
Spoil == ~up /\ spoilt' = TRUE /\ UNCHANGED <<up, live, acked, tried, loose>>

\* A new process starts from what the disk has, and saves it first.
Restart ==
    /\ ~up /\ up' = TRUE
    /\ \E v \in (IF spoilt THEN SUBSET Item ELSE {acked} \cup tried) :
          live' = Interrupted(v)
    /\ tried' = tried \cup {live'}
    /\ UNCHANGED <<acked, spoilt, loose>>

\* A new process that may not use what it finds starts empty and says so.
RestartEmpty == ~up /\ up' = TRUE /\ UNCHANGED <<live, acked, tried, spoilt, loose>>

Next == Talk \/ Attempt \/ Acknowledge \/ Sync \/ Die \/ Spoil \/ Restart \/ RestartEmpty
Spec == Init /\ [][Next]_vars
=============================================================================
