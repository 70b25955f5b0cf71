------------------------------ MODULE JsonJournal ------------------------------
(***************************************************************************)
(* JsonDecisionJournalRepository and its file_lock                         *)
(* (app/infrastructure/repositories/json_decision_journal_repository.py)   *)
(* on a POSIX system.                                                      *)
(*                                                                         *)
(* file_lock opens <journal>.lock, takes flock on it, and on the way out   *)
(* closes the file and removes its NAME.  flock belongs to the inode, so   *)
(* two processes that opened the name at different times can hold locks on *)
(* different inodes.  append and latest take the lock; list_recent, which  *)
(* the dashboard calls directly too, does not.  A new version is written   *)
(* to <journal>.tmp, one name for all writers, and renamed.                *)
(*                                                                         *)
(* Files are therefore modelled as inodes: names and handles refer to one, *)
(* and a rename moves a name.  A process may be killed at any point: its   *)
(* handles close and its flock is gone, names and contents stay.           *)
(***************************************************************************)
EXTENDS Naturals, Sequences

CONSTANTS
  Proc,        \* processes and dashboard threads
  NoProc,      \* no process
  Does,        \* Does[p]: the operations p calls, of "append", "latest", "list"
  Inode,       \* inode numbers, reused when nothing refers to them
  NoInode,     \* no inode: no such name, or no open handle
  MaxRecords,  \* max_stored_records
  MaxReports   \* bound: how many decisions are appended in a behaviour

ASSUME JsonAssumption ==
  /\ NoProc \notin Proc
  /\ NoInode \notin Inode
  /\ Does \in [Proc -> SUBSET {"append", "latest", "list"}]
  /\ MaxRecords \in Nat \ {0}
  /\ MaxReports \in Nat

VARIABLES
  pc,         \* where each process is
  op,         \* the operation it is in
  lockName,   \* the inode named <journal>.lock
  lockFile,   \* the lock file handle of each process
  flock,      \* the process that holds flock on each inode
  journal,    \* the inode named <journal>
  tmp,        \* the inode named <journal>.tmp
  data,       \* the contents of each inode
  handle,     \* the data file handle of each process
  reports,    \* what it has read
  report,     \* the decision it appends
  issued,     \* number of decisions made so far
  committed,  \* decisions whose rename happened, newest first (history)
  since       \* number of these when its operation began (history)

lockVars == <<lockName, lockFile, flock>>
fileVars == <<journal, tmp, data>>
vars == <<pc, op, lockName, lockFile, flock, journal, tmp, data, handle,
          reports, report, issued, committed, since>>

Report == 1 .. MaxReports

\* A file's contents: whole (valid JSON) or not, and the decisions in it.
Content == [whole : BOOLEAN, log : Seq(Report)]
Empty   == [whole |-> FALSE, log |-> <<>>]

Place == {"idle", "opening", "waiting", "loading", "reading", "tmp", "writing",
          "renaming", "closing", "unlinking"}

Init ==
  /\ pc = [p \in Proc |-> "idle"]
  /\ op = [p \in Proc |-> "list"]
  /\ lockName = NoInode
  /\ lockFile = [p \in Proc |-> NoInode]
  /\ flock = [i \in Inode |-> NoProc]
  /\ journal = NoInode
  /\ tmp = NoInode
  /\ data = [i \in Inode |-> Empty]
  /\ handle = [p \in Proc |-> NoInode]
  /\ reports = [p \in Proc |-> <<>>]
  /\ report = [p \in Proc |-> 0]
  /\ issued = 0
  /\ committed = <<>>
  /\ since = [p \in Proc |-> 0]

Unused(names, handles) ==
  CHOOSE i \in Inode : i \notin names \cup {handles[p] : p \in Proc}

Goto(p, place) == pc' = [pc EXCEPT ![p] = place]

\* reports[:max_stored_records]
Capped(l) == IF Len(l) > MaxRecords THEN SubSeq(l, 1, MaxRecords) ELSE l

-----------------------------------------------------------------------------
\* append, latest or list_recent is called.
Call(p) ==
  /\ pc[p] = "idle"
  /\ \E o \in Does[p] :
       /\ o = "append" => issued < MaxReports
       /\ op' = [op EXCEPT ![p] = o]
       /\ issued' = IF o = "append" THEN issued + 1 ELSE issued
       /\ report' = [report EXCEPT ![p] = IF o = "append" THEN issued' ELSE 0]
       /\ Goto(p, IF o = "list" THEN "loading" ELSE "opening")
  /\ reports' = [reports EXCEPT ![p] = <<>>]
  /\ since' = [since EXCEPT ![p] = Len(committed)]
  /\ UNCHANGED <<lockVars, fileVars, handle, committed>>

\* open(lock_path, "w"): the file of that name, or a new one.
OpenLock(p) ==
  /\ pc[p] = "opening"
  /\ lockName' = IF lockName = NoInode THEN Unused({}, lockFile) ELSE lockName
  /\ lockFile' = [lockFile EXCEPT ![p] = lockName']
  /\ Goto(p, "waiting")
  /\ UNCHANGED <<op, flock, fileVars, handle, reports, report, issued, committed, since>>

\* fcntl.flock(LOCK_EX) returns.
Flock(p) ==
  /\ pc[p] = "waiting"
  /\ flock[lockFile[p]] = NoProc
  /\ flock' = [flock EXCEPT ![lockFile[p]] = p]
  /\ Goto(p, "loading")
  /\ UNCHANGED <<op, lockName, lockFile, fileVars, handle, reports, report, issued,
                 committed, since>>

\* What follows the read: append writes, latest leaves the lock, list returns.
AfterRead(p) ==
  CASE op[p] = "append" -> "tmp" [] op[p] = "latest" -> "closing" [] OTHER -> "idle"

\* list_recent: no file yet means no decisions, else the file is opened.
Load(p) ==
  /\ pc[p] = "loading"
  /\ handle' = [handle EXCEPT ![p] = journal]
  /\ Goto(p, IF journal = NoInode THEN AfterRead(p) ELSE "reading")
  /\ UNCHANGED <<op, lockVars, fileVars, reports, report, issued, committed, since>>

\* json.load: what is in the file now; a file that is no JSON counts as empty.
Read(p) ==
  /\ pc[p] = "reading"
  /\ reports' = [reports EXCEPT ![p] =
                   IF data[handle[p]].whole THEN data[handle[p]].log ELSE <<>>]
  /\ handle' = [handle EXCEPT ![p] = NoInode]
  /\ Goto(p, AfterRead(p))
  /\ UNCHANGED <<op, lockVars, fileVars, report, issued, committed, since>>

\* How a bug would write: over the journal itself.
OpenTmpInPlace(p) ==
  /\ pc[p] = "tmp"
  /\ LET i == IF journal = NoInode THEN Unused({journal, tmp}, handle) ELSE journal
     IN  /\ tmp' = i
         /\ data' = [data EXCEPT ![i] = Empty]
         /\ handle' = [handle EXCEPT ![p] = i]
  /\ Goto(p, "writing")
  /\ UNCHANGED <<op, lockVars, journal, reports, report, issued, committed, since>>

\* temp_path.open("w"): the file of that name, truncated, or a new one.
OpenTmp(p) ==
  /\ pc[p] = "tmp"
  /\ LET i == IF tmp = NoInode THEN Unused({journal, tmp}, handle) ELSE tmp
     IN  /\ tmp' = i
         /\ data' = [data EXCEPT ![i] = Empty]
         /\ handle' = [handle EXCEPT ![p] = i]
  /\ Goto(p, "writing")
  /\ UNCHANGED <<op, lockVars, journal, reports, report, issued, committed, since>>

\* How a bug would add a decision: at the end.
AddedLast(p) == Capped(Append(reports[p], report[p]))

\* reports.insert(0, report)
AddedFirst(p) == Capped(<<report[p]>> \o reports[p])

\* json.dump and close.  Over another writer's text the result may be neither.
WriteTmp(p) ==
  /\ pc[p] = "writing"
  /\ LET new == [whole |-> TRUE, log |-> AddedFirst(p)]
     IN  \/ data' = [data EXCEPT ![handle[p]] = new]
         \/ /\ \/ data[handle[p]] # Empty
               \/ \E q \in Proc \ {p} : handle[q] = handle[p] /\ pc[q] = "writing"
            /\ data' = [data EXCEPT ![handle[p]] = Empty]
  /\ handle' = [handle EXCEPT ![p] = NoInode]
  /\ Goto(p, "renaming")
  /\ UNCHANGED <<op, lockVars, journal, tmp, reports, report, issued, committed, since>>

\* os.replace(temp_path, path).
Rename(p) ==
  /\ pc[p] = "renaming"
  /\ tmp # NoInode
  /\ journal' = tmp
  /\ tmp' = NoInode
  /\ committed' = <<report[p]>> \o committed
  /\ Goto(p, "closing")
  /\ UNCHANGED <<op, lockVars, data, handle, reports, report, issued, since>>

\* The write or the rename raises OSError: the temporary file is removed.
WriteFails(p) ==
  /\ pc[p] \in {"tmp", "writing", "renaming"}
  /\ tmp' = NoInode
  /\ handle' = [handle EXCEPT ![p] = NoInode]
  /\ Goto(p, "closing")
  /\ UNCHANGED <<op, lockVars, journal, data, reports, report, issued, committed, since>>

\* How a bug would leave: the handle stays open, and the lock with it.
CloseLeaks(p) ==
  /\ pc[p] = "closing"
  /\ lockFile' = [lockFile EXCEPT ![p] = NoInode]
  /\ Goto(p, "unlinking")
  /\ UNCHANGED <<op, lockName, flock, fileVars, handle, reports, report, issued,
                 committed, since>>

\* finally: lock_file.close() gives the flock up.
CloseLock(p) ==
  /\ pc[p] = "closing"
  /\ flock' = [flock EXCEPT ![lockFile[p]] = NoProc]
  /\ lockFile' = [lockFile EXCEPT ![p] = NoInode]
  /\ Goto(p, "unlinking")
  /\ UNCHANGED <<op, lockName, fileVars, handle, reports, report, issued, committed, since>>

\* The call is over: its locals are gone.
Return(p) ==
  /\ Goto(p, "idle")
  /\ reports' = [reports EXCEPT ![p] = <<>>]
  /\ report' = [report EXCEPT ![p] = 0]
  /\ since' = [since EXCEPT ![p] = 0]

\* os.remove(lock_path), whoever's file that is by now.
UnlinkLock(p) ==
  /\ pc[p] = "unlinking"
  /\ lockName' = NoInode
  /\ Return(p)
  /\ UNCHANGED <<op, lockFile, flock, fileVars, handle, issued, committed>>

\* p is killed: the kernel closes its files.
Kill(p) ==
  /\ pc[p] # "idle"
  /\ flock' = [i \in Inode |-> IF flock[i] = p THEN NoProc ELSE flock[i]]
  /\ lockFile' = [lockFile EXCEPT ![p] = NoInode]
  /\ handle' = [handle EXCEPT ![p] = NoInode]
  /\ Return(p)
  /\ UNCHANGED <<op, lockName, fileVars, issued, committed>>

Step(p) ==
  \/ OpenLock(p) \/ Flock(p) \/ Load(p) \/ Read(p)
  \/ OpenTmp(p) \/ WriteTmp(p) \/ Rename(p) \/ WriteFails(p)
  \/ CloseLock(p) \/ UnlinkLock(p)

Next == \E p \in Proc : Call(p) \/ Step(p) \/ Kill(p)

Spec == Init /\ [][Next]_vars

\* Operations that have begun go on, and the kernel hands a released flock to
\* each of its waiters in turn.
FairSpec ==
  /\ Spec
  /\ \A p \in Proc : WF_vars(Step(p)) /\ SF_vars(Flock(p))

-----------------------------------------------------------------------------
TypeOK ==
  /\ pc \in [Proc -> Place]
  /\ op \in [Proc -> {"append", "latest", "list"}]
  /\ lockName \in Inode \cup {NoInode}
  /\ lockFile \in [Proc -> Inode \cup {NoInode}]
  /\ flock \in [Inode -> Proc \cup {NoProc}]
  /\ {journal, tmp} \subseteq Inode \cup {NoInode}
  /\ data \in [Inode -> Content]
  /\ \A i \in Inode : Len(data[i].log) <= MaxRecords
  /\ handle \in [Proc -> Inode \cup {NoInode}]
  /\ reports \in [Proc -> Seq(Report)]
  /\ report \in [Proc -> 0 .. MaxReports]
  /\ issued \in 0 .. MaxReports
  /\ committed \in Seq(Report)
  /\ since \in [Proc -> 0 .. MaxReports]

\* The critical section of file_lock.
Inside(p) == op[p] # "list" /\ pc[p] \in {"loading", "reading", "tmp", "writing",
                                          "renaming", "closing"}

\* "Since file_lock is exclusive, it is safe against concurrent writes."
LockExclusive == \A p, q \in Proc : Inside(p) /\ Inside(q) => p = q

\* What a reader would find in the journal now.
Log == IF journal = NoInode \/ ~data[journal].whole THEN <<>> ELSE data[journal].log

\* The file implements the abstract journal: whatever readers do with the lock
\* and wherever the writer is killed or fails, it only ever goes from one
\* whole journal to that journal with one more decision.
Abstract == INSTANCE Journal WITH log <- Log
ImplementsJournal == Abstract!Spec

\* What the k oldest committed decisions left in the journal.
Window(k) == Capped(SubSeq(committed, Len(committed) - k + 1, Len(committed)))

\* Whoever reads, with the lock or without it, gets the journal as it was at
\* some moment of its call: neither torn, nor missing a decision whose append
\* had finished before the call, nor one that was never committed.
ReadsAreCurrent ==
  [][\A p \in Proc : Read(p) \/ (Load(p) /\ journal = NoInode)
       => \E k \in since[p] .. Len(committed) : reports'[p] = Window(k)]_vars

\* Nobody waits for the lock for ever, though its name is removed under those
\* who wait and its holder may be killed.
LockIsGranted == \A p \in Proc : pc[p] = "opening" ~> pc[p] \notin {"opening", "waiting"}
================================================================================
