-------------------------------- MODULE Fork --------------------------------
(***************************************************************************)
(* test2.js, which forks by util.mjs: two processes that print, one that   *)
(* ends by _exit(5) and one that waits for it.  console.log() writes to    *)
(* stdout by stdio, which may hold lines back when it is no terminal.        *)
(***************************************************************************)
EXTENDS ForkOutput

CONSTANT MaxKills   \* bound: processes that a signal ends

ASSUME ForkAssumption == MaxKills \in Nat

VARIABLES
  pid,        \* what fork() returned to the parent
  code,       \* the wait status of the child
  held,       \* per process: lines that stdio holds back
  printed     \* what the parent has printed for status[1] >> 8, or -1

vars == <<unbuffered, parent, child, pid, code, held, out, printed, kills>>

ChildPid == 2

\* console.log() of a line in process p.
Log(p, line) ==
  IF unbuffered THEN out' = Append(out, line) /\ UNCHANGED held
  ELSE held' = [held EXCEPT ![p] = Append(@, line)] /\ UNCHANGED out

\* exit() writes what stdio still holds.
Flush(p) == out' = out \o held[p] /\ held' = [held EXCEPT ![p] = <<>>]

\* A process has the status of how it ended in its second byte, or the signal in
\* the first.
Exited(n) == 256 * n
Killed(signal) == signal

-----------------------------------------------------------------------------

\* The child starts with a copy of what stdio holds.
Fork ==
  /\ parent = "fork"
  /\ pid' = ChildPid
  /\ child' = "log 1"
  /\ held' = [held EXCEPT !["child"] = held["parent"]]
  /\ parent' = "log"
  /\ UNCHANGED <<unbuffered, code, out, printed, kills>>

\* -1 is no 0: the program goes on as the parent of nobody.
ForkFails ==
  /\ parent = "fork"
  /\ pid' = -1
  /\ parent' = "log"
  /\ UNCHANGED <<unbuffered, child, code, held, out, printed, kills>>

ChildLogs ==
  /\ \/ child = "log 1" /\ child' = "log 2" /\ Log("child", "in child")
     \/ child = "log 2" /\ child' = "log 3" /\ Log("child", "parent is")
     \/ child = "log 3" /\ child' = "_exit" /\ Log("child", "_exit")
  /\ UNCHANGED <<unbuffered, parent, pid, code, printed, kills>>

\* A mutant of ChildExits: std.exit(5).
ChildExitsStd ==
  /\ child = "_exit"
  /\ child' = "zombie"
  /\ code' = Exited(5)
  /\ Flush("child")
  /\ UNCHANGED <<unbuffered, parent, pid, printed, kills>>

\* _exit(5) flushes nothing.
ChildExits ==
  /\ child = "_exit"
  /\ child' = "zombie"
  /\ code' = Exited(5)
  /\ held' = [held EXCEPT !["child"] = <<>>]
  /\ UNCHANGED <<unbuffered, parent, pid, out, printed, kills>>

ParentLogs ==
  /\ parent = "log"
  /\ Log("parent", "in parent")
  /\ parent' = "sleep"
  /\ UNCHANGED <<unbuffered, child, pid, code, printed, kills>>

\* os.sleep(1000), which says nothing of how far the child is.
Sleep ==
  /\ parent = "sleep"
  /\ parent' = "wait"
  /\ UNCHANGED <<unbuffered, child, pid, code, held, out, printed, kills>>

\* A mutant of WaitPid: it does not block.
WaitPidNow ==
  /\ parent = "wait"
  /\ child' = IF child = "zombie" THEN "reaped" ELSE child
  /\ printed' = (IF child = "zombie" THEN code ELSE 0) \div 256
  /\ Log("parent", "status")
  /\ parent' = "exit"
  /\ UNCHANGED <<unbuffered, pid, code, kills>>

\* os.waitpid(pid, 0) blocks until the child has ended; with no child it fails
\* at once, and the status is 0.
WaitPid ==
  /\ parent = "wait"
  /\ \/ /\ pid = ChildPid /\ child = "zombie"
        /\ child' = "reaped"
        /\ printed' = code \div 256
     \/ pid = -1 /\ printed' = 0 /\ UNCHANGED child
  /\ Log("parent", "status")
  /\ parent' = "exit"
  /\ UNCHANGED <<unbuffered, pid, code, kills>>

ParentExits ==
  /\ parent = "exit"
  /\ parent' = "ended"
  /\ Flush("parent")
  /\ UNCHANGED <<unbuffered, child, pid, code, printed, kills>>

\* A signal ends the child or the parent, whose child init reaps.
KillChild(signal) ==
  /\ child \in {"log 1", "log 2", "log 3", "_exit"}
  /\ kills < MaxKills /\ kills' = kills + 1
  /\ child' = "zombie"
  /\ code' = Killed(signal)
  /\ held' = [held EXCEPT !["child"] = <<>>]
  /\ UNCHANGED <<unbuffered, parent, pid, out, printed>>
KillParent ==
  /\ parent \notin {"ended", "killed"}
  /\ kills < MaxKills /\ kills' = kills + 1
  /\ parent' = "killed"
  /\ held' = [held EXCEPT !["parent"] = <<>>]
  /\ UNCHANGED <<unbuffered, child, pid, code, out, printed>>
InitReaps ==
  /\ parent \in {"ended", "killed"} /\ child = "zombie"
  /\ child' = "reaped"
  /\ UNCHANGED <<unbuffered, parent, pid, code, held, out, printed, kills>>

Init ==
  /\ unbuffered \in BOOLEAN
  /\ parent = "fork" /\ child = "none"
  /\ pid = 0 /\ code = 0
  /\ held = [p \in {"parent", "child"} |-> <<>>]
  /\ out = <<>> /\ printed = -1
  /\ kills = 0

Parent == Fork \/ ForkFails \/ ParentLogs \/ Sleep \/ WaitPid \/ ParentExits
Child == ChildLogs \/ ChildExits
Environment == (\E signal \in {2, 11} : KillChild(signal)) \/ KillParent \/ InitReaps

Next == Parent \/ Child \/ Environment

Spec == Init /\ [][Next]_vars

\* Both processes run.
FairSpec == Spec /\ WF_vars(Parent) /\ WF_vars(Child)

-----------------------------------------------------------------------------
(* Properties *)

\* The state has its types.
TypeOK ==
  /\ unbuffered \in BOOLEAN
  /\ parent \in {"fork", "log", "sleep", "wait", "exit", "ended", "killed"}
  /\ child \in {"none", "log 1", "log 2", "log 3", "_exit", "zombie", "reaped"}
  /\ pid \in {0, -1, ChildPid} /\ code \in {0, 2, 11, Exited(5)}
  /\ held \in [{"parent", "child"} -> Seq(Lines)] /\ out \in Seq(Lines)
  /\ printed \in {-1, 0, 5} /\ kills \in 0..MaxKills

\* The last line of test2.js prints 5, as it says it should, however the two
\* processes are scheduled: unless fork() failed or a process was killed.
PrintsFive == <>(printed = 5 \/ pid = -1 \/ kills > 0)
=============================================================================
