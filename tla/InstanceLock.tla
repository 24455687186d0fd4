--------------------------- MODULE InstanceLock ---------------------------
(***************************************************************************)
(* The pid lock file with which the live consumer, both reconcilers, the   *)
(* paper runner and the strategy runner keep to one instance: created with *)
(* O_EXCL and then written, reclaimed when the pid in it is dead, removed  *)
(* on exit.  A process is a pid; it starts once, and a pid is not reused.  *)
(* Starts may overlap.  A history variable, robbed, records who lost the   *)
(* lock to a starter that had checked another one.                         *)
(***************************************************************************)
EXTENDS Naturals, FiniteSets

CONSTANTS
  Procs,        \* pids
  MaxCrashes    \* bound: processes killed

ASSUME LockAssumption == "nobody" \notin Procs /\ MaxCrashes \in Nat

VARIABLES
  lock,      \* the lock file: by whom, and whether the pid was written
  found,     \* the dead pid a starter read in the lock file
  pc,
  robbed,    \* history: processes whose lock file another one removed
  crashes

lockVars == <<lock, found, robbed, crashes>>

NoLock == [by |-> "nobody", written |-> FALSE]
LockFiles == {NoLock} \cup [by : Procs, written : BOOLEAN]

Starting == {"open", "check", "unlink", "reopen", "write"}
Ended == {"new", "dead"}

(* Labels of a process that holds the lock, as far as it knows. *)
Inside(p) == pc[p] \notin Starting \cup Ended

Alive(p) == pc[p] \notin Ended

LockInit ==
  /\ lock = NoLock
  /\ found = [p \in Procs |-> "nobody"]
  /\ pc = [p \in Procs |-> "new"]
  /\ robbed = {}
  /\ crashes = 0

Goto(p, l) == pc' = [pc EXCEPT ![p] = l]

-----------------------------------------------------------------------------
Launch(p) ==
  /\ pc[p] = "new"
  /\ Goto(p, "open")
  /\ UNCHANGED lockVars

(* os.open(O_CREAT | O_EXCL): the file exists from here on, still empty. *)
Create(p, from, other) ==
  /\ pc[p] = from
  /\ IF lock = NoLock
     THEN lock' = [by |-> p, written |-> FALSE] /\ Goto(p, "write")
     ELSE UNCHANGED lock /\ Goto(p, other)
  /\ UNCHANGED <<found, robbed, crashes>>

OpenLock(p) == Create(p, "open", "check")
ReopenLock(p) == Create(p, "reopen", "dead")

(* clean_stale_lock_file that does not ask whether the pid is alive. *)
CheckPidBlind(p) ==
  /\ pc[p] = "check"
  /\ IF lock # NoLock /\ lock.written
     THEN found' = [found EXCEPT ![p] = lock.by] /\ Goto(p, "unlink")
     ELSE UNCHANGED found /\ Goto(p, "dead")
  /\ UNCHANGED <<lock, robbed, crashes>>

(* clean_stale_lock_file: a lock that is gone, cannot be parsed or names a *)
(* live pid is left alone and the process gives up.                        *)
CheckPid(p) ==
  /\ pc[p] = "check"
  /\ IF lock # NoLock /\ lock.written /\ ~Alive(lock.by)
     THEN found' = [found EXCEPT ![p] = lock.by] /\ Goto(p, "unlink")
     ELSE UNCHANGED found /\ Goto(p, "dead")
  /\ UNCHANGED <<lock, robbed, crashes>>

(* A lock file is removed by its name, whosever it is by now. The loss is  *)
(* recorded where excuse accounts for it.                                  *)
RemoveLock(p, excuse) ==
  /\ lock' = NoLock
  /\ robbed' = robbed \cup {q \in Procs \ {p} : excuse /\ q = lock.by /\ Alive(q)}
  /\ UNCHANGED crashes

(* The lock file may no longer be the one of the dead pid. *)
UnlinkStale(p) ==
  /\ pc[p] = "unlink"
  /\ RemoveLock(p, lock.by # found[p])
  /\ found' = [found EXCEPT ![p] = "nobody"]
  /\ Goto(p, IF lock = NoLock THEN "dead" ELSE "reopen")

(* The pid goes into the file this process created, even if that has been *)
(* unlinked meanwhile.                                                     *)
WriteLock(p) ==
  /\ pc[p] = "write"
  /\ lock' = IF lock.by = p THEN [lock EXCEPT !.written = TRUE] ELSE lock
  /\ Goto(p, "run")
  /\ UNCHANGED <<found, robbed, crashes>>

(* The write fails: the lock file is removed and the error raised.         *)
WriteLockFails(p) ==
  /\ pc[p] = "write"
  /\ RemoveLock(p, p \in robbed)
  /\ Goto(p, "dead")
  /\ UNCHANGED found

(* _release_lock in the finally of the loop. *)
Release(p) ==
  /\ pc[p] = "run"
  /\ RemoveLock(p, p \in robbed)
  /\ Goto(p, "dead")
  /\ UNCHANGED found

Kill(p) ==
  /\ Alive(p) /\ crashes < MaxCrashes
  /\ crashes' = crashes + 1
  /\ Goto(p, "dead")
  /\ found' = [found EXCEPT ![p] = "nobody"]
  /\ UNCHANGED <<lock, robbed>>

LockStep(p) ==
  \/ Launch(p) \/ OpenLock(p) \/ ReopenLock(p) \/ CheckPid(p)
  \/ UnlinkStale(p) \/ WriteLock(p) \/ WriteLockFails(p) \/ Release(p)

LockSpec ==
  LockInit /\ [][\E p \in Procs : LockStep(p) \/ Kill(p)]_<<lockVars, pc>>

-----------------------------------------------------------------------------
(* A process that runs finds its own pid in the lock file: nobody else has *)
(* reclaimed or released it; except a process whose file was removed by a  *)
(* starter that had checked the file of a dead one before, or by one that  *)
(* lost its own in this way and then released the name.                    *)
HolderOwnsLock ==
  \A p \in Procs \ robbed : Inside(p) => lock = [by |-> p, written |-> TRUE]
=============================================================================
