----------------------------- MODULE StateFiles -----------------------------
(***************************************************************************)
(* A state file of lfk and the instances that save to it: the lock         *)
(* (src/internal/app/state_lock.go), the strict load and the guarded save  *)
(* (state_file.go) and the write by rename (atomic_write.go), with their   *)
(* crashes, a loss of power and an edit by hand that leaves it unreadable. *)
(*                                                                         *)
(* One file of one of the kinds the program has.  What an instance saves   *)
(* is an entry of its own: a layout of columns, a bookmark, the findings   *)
(* of a namespace.  Temp files left behind and the lock file, which nobody *)
(* reads, are left out; flock gives up the lock of a process that is gone. *)
(***************************************************************************)
EXTENDS FiniteSets

CONSTANTS
    Writers,   \* saves, each by an instance of its own
    Kinds      \* [locked, merges, synced] of the files the program has

ASSUME FilesAssumption == Kinds \subseteq [locked : BOOLEAN, merges : BOOLEAN, synced : BOOLEAN]

VARIABLES
    kind,
    state,     \* the file: [is, has, synced]
    lock,      \* who holds the lock, at most one
    saver,     \* writer -> [pc, mem, safe]: the save, the state it writes, and
               \* whether the content of its temporary file is on the disk
    told,      \* history: saves that returned nil, and not undone by hand or power
    early,     \* history: saves past their read when it last became unreadable
    over       \* history: saves that took the place of the unreadable file since

fileVars == <<kind, state, lock, saver, told, early, over>>

Unreadable == {"corrupt", "torn"}

StateFilesTypeOK ==
    /\ kind \in Kinds
    /\ state \in [is : {"whole", "corrupt", "torn"}, has : SUBSET Writers, synced : BOOLEAN]
    /\ lock \subseteq Writers
    /\ saver \in [Writers -> [pc : {"idle", "lock", "read", "write", "sync", "rename",
                                    "unlock", "over"}, mem : SUBSET Writers,
                           safe : BOOLEAN]]
    /\ told \subseteq Writers /\ early \subseteq Writers /\ over \subseteq Writers

\* A missing file is an empty one.  An instance has loaded it when it started.
StateFilesInit ==
    /\ kind \in Kinds
    /\ state = [is |-> "whole", has |-> {}, synced |-> TRUE]
    /\ lock = {}
    /\ saver = [p \in Writers |-> [pc |-> "idle", mem |-> {}, safe |-> FALSE]]
    /\ told = {} /\ early = {} /\ over = {}

-----------------------------------------------------------------------------
Go(p, pc) == saver' = [saver EXCEPT ![p].pc = pc]
At(p, pc) == saver[p].pc = pc

\* Without the lock the file is still read, unless all of it is in memory.
Save(p) ==
    /\ At(p, "idle")
    /\ Go(p, IF kind.locked THEN "lock" ELSE IF kind.merges THEN "read" ELSE "write")
    /\ UNCHANGED <<kind, state, lock, told, early, over>>

\* withStateFileLock polls for the lock ...
TakeLock_shared(p) ==
    /\ At(p, "lock")
    /\ lock' = lock \cup {p}
    /\ Go(p, "read")
    /\ UNCHANGED <<kind, state, told, early, over>>
TakeLock(p) ==
    /\ At(p, "lock") /\ lock = {}
    /\ lock' = {p}
    /\ Go(p, "read")
    /\ UNCHANGED <<kind, state, told, early, over>>

\* ... for 250 ms, and skips the write when another has it each time.
GiveUp(p) ==
    /\ At(p, "lock") /\ lock # {}
    /\ Go(p, "over")
    /\ UNCHANGED <<kind, state, lock, told, early, over>>

\* loadStateFileStrict; the findings cache begins anew instead.
ReadFile_lenient(p) ==
    /\ At(p, "read")
    /\ saver' = [saver EXCEPT ![p].pc = "write",
                  ![p].mem = IF state.is \in Unreadable THEN {} ELSE state.has]
    /\ UNCHANGED <<kind, state, lock, told, early, over>>
ReadFile(p) ==
    /\ At(p, "read")
    /\ \/ state.is \in Unreadable /\ kind.locked /\ Go(p, "unlock")
       \/ /\ state.is \in Unreadable /\ ~kind.locked
          /\ saver' = [saver EXCEPT ![p].pc = "write", ![p].mem = {}]
       \/ /\ state.is \notin Unreadable
          /\ saver' = [saver EXCEPT ![p].pc = "write",
                                    ![p].mem = IF kind.merges THEN state.has ELSE @]
    /\ UNCHANGED <<kind, state, lock, told, early, over>>

\* writeFileReplace: to a temp file of its own, which may fail ...
WriteTemp(p) ==
    /\ At(p, "write")
    /\ \E ok \in BOOLEAN :
         saver' = [saver EXCEPT ![p] =
             IF ~ok THEN [@ EXCEPT !.pc = "unlock"]
             ELSE [pc |-> IF kind.synced THEN "sync" ELSE "rename", mem |-> @.mem \cup {p},
                   safe |-> FALSE]]
    /\ UNCHANGED <<kind, state, lock, told, early, over>>

\* ... whose content is on the disk once Sync has returned ...
SyncTemp_notAwaited(p) ==
    /\ At(p, "sync") /\ Go(p, "rename")
    /\ UNCHANGED <<kind, state, lock, told, early, over>>
SyncTemp(p) ==
    /\ At(p, "sync")
    /\ \/ saver' = [saver EXCEPT ![p].pc = "rename", ![p].safe = TRUE]
       \/ Go(p, "unlock")
    /\ UNCHANGED <<kind, state, lock, told, early, over>>

\* ... and then over the file.  A directory that cannot be synced is an error,
\* of a save that was done.
RenameTemp(p) ==
    /\ At(p, "rename")
    /\ state' = [is |-> "whole", has |-> saver[p].mem, synced |-> saver[p].safe]
    /\ over' = IF state.is \in Unreadable THEN over \cup {p} ELSE over
    /\ told' \in {told \cup {p}} \cup {t \in {told} : kind.synced}
    /\ Go(p, "unlock")
    /\ UNCHANGED <<kind, lock, early>>

UnlockFile(p) ==
    /\ At(p, "unlock")
    /\ lock' = lock \ {p}
    /\ Go(p, "over")
    /\ UNCHANGED <<kind, state, told, early, over>>

-----------------------------------------------------------------------------
PastRead == {p \in Writers : saver[p].pc \in {"write", "sync", "rename"}}

\* The instance is killed.
Crash(p) ==
    /\ saver[p].pc \notin {"idle", "over"}
    /\ lock' = lock \ {p}
    /\ Go(p, "over")
    /\ UNCHANGED <<kind, state, told, early, over>>

\* The power fails: every save under way is over, and a rename may survive the
\* content that was not synced.
LosePower ==
    /\ saver' = [p \in Writers |->
         IF At(p, "idle") THEN saver[p] ELSE [saver[p] EXCEPT !.pc = "over"]]
    /\ lock' = {}
    /\ IF state.synced THEN UNCHANGED <<state, told, early, over>>
       ELSE /\ state' = [is |-> "torn", has |-> {}, synced |-> TRUE]
            /\ told' = {} /\ early' = {} /\ over' = {}
    /\ UNCHANGED kind

\* The kernel writes it out in its own time.
Flush ==
    /\ ~state.synced
    /\ state' = [state EXCEPT !.synced = TRUE]
    /\ UNCHANGED <<kind, lock, saver, told, early, over>>

\* The user edits the file, and it no longer decodes.
EditByHand ==
    /\ state.is = "whole"
    /\ state' = [is |-> "corrupt", has |-> {}, synced |-> TRUE]
    /\ told' = {} /\ early' = PastRead /\ over' = {}
    /\ UNCHANGED <<kind, lock, saver>>

-----------------------------------------------------------------------------
StateFilesNext ==
    \/ \E p \in Writers : \/ Save(p) \/ TakeLock(p) \/ GiveUp(p) \/ ReadFile(p)
                          \/ WriteTemp(p) \/ SyncTemp(p) \/ RenameTemp(p)
                          \/ UnlockFile(p) \/ Crash(p)
    \/ LosePower \/ Flush \/ EditByHand

StateFilesSpec == StateFilesInit /\ [][StateFilesNext]_fileVars

-----------------------------------------------------------------------------
\* A preference saved under the lock by read, change and write, and reported as
\* saved, is in the file whatever other instances save, crash or give up, until
\* the file is edited by hand or power is lost before it is synced.
NoUpdateLost == kind.locked /\ kind.merges => told \subseteq state.has

\* A save whose content is on the disk before it takes the name of the file
\* leaves no torn file, whatever other savers, crashes and the power do between
\* its steps (atomic_write.go:55-70).
SyncedIsWhole == kind.synced => state.is # "torn"

\* A file that cannot be read is left for the user to mend: only a save that had
\* read it before it became so may still take its place.
UnreadableIsKept == kind.locked => over \subseteq early
=============================================================================
