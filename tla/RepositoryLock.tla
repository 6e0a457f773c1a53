---------------------------- MODULE RepositoryLock ----------------------------
(***************************************************************************)
(* The lock file of one repository: Storage.lock (src/src/storage.py),     *)
(* which create_worktree holds while it fetches the repository and adds a  *)
(* worktree to it.  Lockers are threads; the file holds the pid of the     *)
(* locker's process.  Each system call is a step; a process may die        *)
(* between any two of them and leaves its file behind.                     *)
(*                                                                         *)
(* The number of an inode is free for reuse once it is neither linked nor  *)
(* open.  Numbers of processes are not reused here: that could only make a *)
(* stale file look held.                                                   *)
(***************************************************************************)
EXTENDS Naturals

CONSTANTS
  Locker, Process,
  pid,    \* the process of each locker
  Inode

ASSUME LockAssumption == pid \in [Locker -> Process]

VARIABLES
  file,   \* what the path names: an inode and the pid in it, or nothing
  alive,  \* processes that run
  at,     \* the next system call of each locker
  inode,  \* the inode the locker saw, or created
  owner   \* the pid the locker read and is about to probe

vars == <<file, alive, at, inode, owner>>

None == "none"
NoFile == [inode |-> None]
Files == [inode : Inode, pid : Process \union {None}]

\* Outside; then the calls of an attempt; then those of a holder.
Attempt == {"stat", "read", "probe", "restat", "unlink", "create"}
Owning == {"write", "holding", "recheck", "remove"}
Places == {"open"} \union Attempt \union Owning

Init ==
  /\ file = NoFile
  /\ alive = Process
  /\ at = [l \in Locker |-> "open"]
  /\ inode = [l \in Locker |-> None]
  /\ owner = [l \in Locker |-> None]

-----------------------------------------------------------------------------
Goes(l, place) == at' = [at EXCEPT ![l] = place]
\* The inode of an attempt or of a section is forgotten with it.
Ends(l) == Goes(l, "open") /\ inode' = [inode EXCEPT ![l] = None]
Calls(l, place) == pid[l] \in alive /\ at[l] = place

\* Descriptors are open from the creation to the close that ends the section.
Open == {inode[l] : l \in {k \in Locker : pid[k] \in alive /\ at[k] \in {"write", "holding"}}}
Fresh == {i \in Inode : i \notin Open /\ i # file.inode}

\* open(O_CREAT | O_EXCL) when the path is free.
Creates(l) ==
  \E i \in Fresh :
    /\ file' = [inode |-> i, pid |-> None]
    /\ inode' = [inode EXCEPT ![l] = i]
    /\ Goes(l, "write")

TryOpen(l) ==
  /\ Calls(l, "open")
  /\ IF file = NoFile
     THEN Creates(l)
     ELSE Goes(l, "stat") /\ UNCHANGED <<file, inode>>
  /\ UNCHANGED <<alive, owner>>

Stat(l) ==
  /\ Calls(l, "stat")
  /\ inode' = [inode EXCEPT ![l] = file.inode]
  /\ Goes(l, "read")
  /\ UNCHANGED <<file, alive, owner>>

\* A missing or empty file has no owner, and no owner needs no probe.
NextAfter(o) == IF o = None THEN "restat" ELSE "probe"

Read(l) ==
  /\ Calls(l, "read")
  /\ LET o == IF file = NoFile THEN None ELSE file.pid IN
       /\ owner' = [owner EXCEPT ![l] = o]
       /\ Goes(l, NextAfter(o))
  /\ UNCHANGED <<file, alive, inode>>

\* kill(owner, 0).  Mutation: every owner refuses.
RefusesAny(p) == TRUE
Refuses(p) == p \in alive

Probe(l) ==
  /\ Calls(l, "probe")
  /\ IF Refuses(owner[l]) THEN Ends(l) ELSE Goes(l, "restat") /\ UNCHANGED inode
  /\ owner' = [owner EXCEPT ![l] = None]
  /\ UNCHANGED <<file, alive>>

SameFile(l) == file # NoFile /\ file.inode = inode[l]

Restat(l) ==
  /\ Calls(l, "restat")
  /\ Goes(l, IF SameFile(l) THEN "unlink" ELSE "create")
  /\ inode' = [inode EXCEPT ![l] = None]
  /\ UNCHANGED <<file, alive, owner>>

\* Removes whatever the path names by now.
Unlink(l) ==
  /\ Calls(l, "unlink")
  /\ file' = NoFile
  /\ Goes(l, "create")
  /\ UNCHANGED <<alive, inode, owner>>

\* The second open: RepositoryBusyError if somebody was faster.
Create(l) ==
  /\ Calls(l, "create")
  /\ IF file = NoFile
     THEN Creates(l)
     ELSE Ends(l) /\ UNCHANGED file
  /\ UNCHANGED <<alive, owner>>

\* The pid goes into the inode the locker created, linked or not.
Write(l) ==
  /\ Calls(l, "write")
  /\ file' = IF SameFile(l) THEN [file EXCEPT !.pid = pid[l]] ELSE file
  /\ Goes(l, "holding")
  /\ UNCHANGED <<alive, inode, owner>>

\* The section ends, well or badly, and the descriptor is closed.
Close(l) ==
  /\ Calls(l, "holding")
  /\ Goes(l, "recheck")
  /\ UNCHANGED <<file, alive, inode, owner>>

Recheck(l) ==
  /\ Calls(l, "recheck")
  /\ IF SameFile(l) THEN Goes(l, "remove") /\ UNCHANGED inode ELSE Ends(l)
  /\ UNCHANGED <<file, alive, owner>>

Remove(l) ==
  /\ Calls(l, "remove")
  /\ file' = NoFile
  /\ Ends(l)
  /\ UNCHANGED <<alive, owner>>

Die(p) ==
  /\ p \in alive
  /\ alive' = alive \ {p}
  /\ UNCHANGED <<file, at, inode, owner>>

Step(l) ==
  \/ TryOpen(l) \/ Stat(l) \/ Read(l) \/ Probe(l) \/ Restat(l) \/ Unlink(l)
  \/ Create(l) \/ Write(l) \/ Close(l) \/ Recheck(l) \/ Remove(l)

Next == (\E l \in Locker : Step(l)) \/ (\E p \in Process : Die(p))

\* A live thread is scheduled and its section ends (git has timeouts or ends);
\* a refused task is tried again by the worker loop.
Fairness == \A l \in Locker : WF_vars(Step(l))

Spec == Init /\ [][Next]_vars
FairSpec == Spec /\ Fairness

-----------------------------------------------------------------------------
\* A locker never probes without a pid to probe.
TypeOK ==
  /\ file \in Files \union {NoFile}
  /\ alive \in SUBSET Process
  /\ at \in [Locker -> Places]
  /\ inode \in [Locker -> Inode \union {None}]
  /\ owner \in [Locker -> Process \union {None}]
  /\ \A l \in Locker : at[l] = "probe" => owner[l] \in Process

\* A lock file is never left behind by a live process: it is empty or of a dead
\* process, hence free to be taken over, or its locker is still on the way to
\* remove it.  Otherwise the repository would be busy until that process is
\* restarted.
Reclaimable ==
  file # NoFile =>
    \/ file.pid = None \/ file.pid \notin alive
    \/ \E l \in Locker :
         /\ pid[l] = file.pid
         /\ at[l] \in Owning /\ inode[l] = file.inode

Holds(l) == Calls(l, "holding")

\* "Concurrent incidents wait for a busy repository lock" (README): no two live
\* lockers are in the section.
LockExcludes == \A k, l \in Locker : Holds(k) /\ Holds(l) => k = l

\* Whatever dead processes left behind, and however attempts get in each
\* other's way, somebody gets the lock again and again while a process lives.
LockProgress == []<>((\E l \in Locker : Holds(l)) \/ \A l \in Locker : pid[l] \notin alive)
=============================================================================
