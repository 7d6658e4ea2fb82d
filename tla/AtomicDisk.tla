----------------------------- MODULE AtomicDisk -----------------------------
(***************************************************************************)
(* What the logging layer (log.c) promises to the file system above it:    *)
(* a disk whose contents change only by whole groups of operations.        *)
(*                                                                         *)
(* The file system works on "volatile", the blocks as bread() returns      *)
(* them.  The durable contents, "store", are what a reboot finds.  They    *)
(* change in one step, Commit, and only when no operation is under way, so *)
(* a reboot never sees a part of an operation.  The last operation of a    *)
(* group returns (Reopen) only after its group is durable.                 *)
(***************************************************************************)

CONSTANTS Procs,    \* processes that run file-system operations
          Blocks,   \* home block numbers
          Vals,     \* block contents
          Zero      \* the contents a fresh disk has in every block

VARIABLES store,    \* durable contents: what recovery would restore
          volatile, \* contents seen through the buffer cache
          active,   \* processes between begin_op and end_op
          sealed    \* the group is being committed; no operation may begin

avars == <<store, volatile, active, sealed>>

ATypeOK == /\ store \in [Blocks -> Vals]
           /\ volatile \in [Blocks -> Vals]
           /\ active \in SUBSET Procs
           /\ sealed \in BOOLEAN

AInit == /\ store = [b \in Blocks |-> Zero]
         /\ volatile = store
         /\ active = {}
         /\ sealed = FALSE

Begin(p) == /\ ~sealed
            /\ p \notin active
            /\ active' = active \cup {p}
            /\ UNCHANGED <<store, volatile, sealed>>

Write(p, b, v) == /\ p \in active
                  /\ volatile' = [volatile EXCEPT ![b] = v]
                  /\ UNCHANGED <<store, active, sealed>>

End(p) == /\ p \in active
          /\ active' = active \ {p}
          /\ sealed' = (active' = {})
          /\ UNCHANGED <<store, volatile>>

Commit == /\ sealed
          /\ store' = volatile
          /\ UNCHANGED <<volatile, active, sealed>>

Reopen == /\ sealed
          /\ store = volatile
          /\ sealed' = FALSE
          /\ UNCHANGED <<store, volatile, active>>

Crash == /\ volatile' = store
         /\ active' = {}
         /\ sealed' = FALSE
         /\ UNCHANGED store

ANext == \/ \E p \in Procs : Begin(p) \/ End(p)
         \/ \E p \in Procs, b \in Blocks, v \in Vals : Write(p, b, v)
         \/ Commit
         \/ Reopen
         \/ Crash

ASpec == AInit /\ [][ANext]_avars
=============================================================================
