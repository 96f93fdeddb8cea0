---------------------------- MODULE XtablesLocks ----------------------------
(***************************************************************************)
(* Who may edit the tables at one time.  The iptables commands of the node *)
(* take one of two locks: a file (1.6) or an abstract socket (1.4).        *)
(*                                                                         *)
(*   Restores     restoreInternal without --wait: both locks, each polled  *)
(*                for two seconds                                          *)
(*   BestEfforts  go-iptables before 1.4.20: the file, unless it is taken  *)
(*   News, Olds   iptables of other programs, which wait for the file or   *)
(*                for the socket                                           *)
(***************************************************************************)
EXTENDS Naturals

CONSTANTS Restores, BestEfforts, News, Olds, NobodyLocks, MaxLost

Commands == Restores \cup BestEfforts \cup News \cup Olds

ASSUME CommandsAssumption ==
  /\ NobodyLocks \notin Commands
  /\ Restores \cap (BestEfforts \cup News \cup Olds) = {}
  /\ BestEfforts \cap (News \cup Olds) = {} /\ News \cap Olds = {}

VARIABLES
  file, socket,   \* who holds the lock
  cmd,            \* where each command is
  openFiles,      \* descriptors of the lock file that a caller of go-iptables has open
  lost            \* history: how often tryLock did not lock the file

xvars == <<file, socket, cmd, openFiles, lost>>

LocksInit ==
  /\ file = NobodyLocks /\ socket = NobodyLocks
  /\ cmd = [c \in Commands |-> "idle"]
  /\ openFiles = [c \in BestEfforts |-> 0] /\ lost = [c \in BestEfforts |-> 0]

Goes(c, from, to) == cmd[c] = from /\ cmd' = [cmd EXCEPT ![c] = to]

TakeFile(c) == file = NobodyLocks /\ file' = c

TakeSocket(c) == socket = NobodyLocks /\ socket' = c

Opens(c) == openFiles' = [openFiles EXCEPT ![c] = @ + 1]

\* The socket is not taken.
GrabsFileOnly(c) ==
  /\ Goes(c, "file", "running")
  /\ UNCHANGED <<file, socket, openFiles, lost>>

\* grabIptablesLocks: first the file, then the socket.
grabFile(c) ==
  /\ Goes(c, "idle", "file") /\ TakeFile(c)
  /\ UNCHANGED <<socket, openFiles, lost>>

grabSocket(c) ==
  /\ Goes(c, "file", "running") /\ TakeSocket(c)
  /\ UNCHANGED <<file, openFiles, lost>>

\* The file stays locked.
GivesUpWithFile(c) ==
  /\ Goes(c, "file", "idle") /\ UNCHANGED <<file, socket, openFiles, lost>>

\* The socket cannot be had for two seconds: what was locked is closed.
grabTimeout(c) ==
  /\ Goes(c, "file", "idle") /\ file' = NobodyLocks
  /\ UNCHANGED <<socket, openFiles, lost>>

\* The command has ended: Close closes the file, then the socket.
closeFile(c) ==
  /\ Goes(c, "running", "closing") /\ file' = NobodyLocks
  /\ UNCHANGED <<socket, openFiles, lost>>

closeSocket(c) ==
  /\ Goes(c, "closing", "idle") /\ socket' = NobodyLocks
  /\ UNCHANGED <<file, openFiles, lost>>

\* newXtablesFileLock opens the file, tryLock locks it.
tryLock(c) ==
  /\ Goes(c, "idle", "running") /\ TakeFile(c) /\ Opens(c)
  /\ UNCHANGED <<socket, lost>>

\* The file is not locked, and nobody closes it.
NotLocked(c) ==
  /\ lost[c] < MaxLost /\ lost' = [lost EXCEPT ![c] = @ + 1]
  /\ Opens(c) /\ UNCHANGED <<file, socket>>

\* The lock is taken: the command runs without it.
tryLockRefused(c) == file # NobodyLocks /\ Goes(c, "idle", "unlocked") /\ NotLocked(c)

\* flock fails for another reason: the command does not run.
tryLockFails(c) == cmd[c] = "idle" /\ NotLocked(c) /\ UNCHANGED cmd

Unlock(c) ==
  /\ Goes(c, "running", "idle") /\ file' = NobodyLocks
  /\ openFiles' = [openFiles EXCEPT ![c] = @ - 1] /\ UNCHANGED <<socket, lost>>

nopUnlock(c) ==
  /\ Goes(c, "unlocked", "idle") /\ UNCHANGED <<file, socket, openFiles, lost>>

OtherNew(c) ==
  /\ \/ Goes(c, "idle", "running") /\ TakeFile(c)
     \/ Goes(c, "running", "idle") /\ file' = NobodyLocks
  /\ UNCHANGED <<socket, openFiles, lost>>

OtherOld(c) ==
  /\ \/ Goes(c, "idle", "running") /\ TakeSocket(c)
     \/ Goes(c, "running", "idle") /\ socket' = NobodyLocks
  /\ UNCHANGED <<file, openFiles, lost>>

LocksNext ==
  \/ \E c \in Restores :
       grabFile(c) \/ grabSocket(c) \/ grabTimeout(c) \/ closeFile(c) \/ closeSocket(c)
  \/ \E c \in BestEfforts :
       tryLock(c) \/ tryLockRefused(c) \/ tryLockFails(c) \/ Unlock(c) \/ nopUnlock(c)
  \/ \E c \in News : OtherNew(c)
  \/ \E c \in Olds : OtherOld(c)

LocksSpec == LocksInit /\ [][LocksNext]_xvars

-----------------------------------------------------------------------------

\* "iptables-restore and iptables" never step "on each other": while a restore runs, no
\* command runs that takes a lock, of whatever version, and no other restore.  A best
\* effort command that was refused the lock is the exception.
RestoreIsExclusive ==
  \A r \in Restores : cmd[r] = "running" => \A c \in Commands \ {r} : cmd[c] # "running"

\* No lock outlives its command, also when the second lock could not be had.  go-iptables
\* closes the lock file of every command that got the lock; each command that did not,
\* because it was refused or because flock failed, leaves one descriptor open for good.
LocksReleased ==
  /\ file # NobodyLocks => cmd[file] \in {"file", "running"}
  /\ socket # NobodyLocks => cmd[socket] \in {"running", "closing"}
  /\ \A c \in BestEfforts : openFiles[c] = lost[c] + (IF cmd[c] = "running" THEN 1 ELSE 0)

=============================================================================
