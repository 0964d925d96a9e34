-------------------------- MODULE DataDirectoryLock --------------------------
(***************************************************************************)
(* The file-based interlock of a data directory                            *)
(* (postgresql__data_directory_lock__*.patch: file_shmem.c, miscinit.c):   *)
(* a lock that the forked children of a postmaster inherit, the header     *)
(* file pg_dynshmem/postmaster.shmem, which names the control segment of   *)
(* the dynamic shared memory, and postmaster.pid.                          *)
(*                                                                         *)
(* Servers are postmasters that may be started on one data directory.      *)
(* Each system call on the lock or the files is a step; a postmaster may   *)
(* be killed between any two of them, and its children outlive it.         *)
(***************************************************************************)
EXTENDS Naturals

CONSTANTS
    Servers,
    Nobody,       \* no server
    Elsewhere,    \* a server on another data directory, of which this is a copy
    MaxChildren   \* children a postmaster may have at a time

ASSUME LockAssumption ==
    /\ Nobody \notin Servers /\ Elsewhere \notin Servers /\ Nobody # Elsewhere
    /\ MaxChildren \in Nat

VARIABLES
    phase,     \* how far each postmaster is
    children,  \* number of live children of each postmaster, dead or alive
    lock,      \* server whose open file description holds the lock
    pidfile,   \* server that postmaster.pid names
    header,    \* the header file
    segments   \* servers whose control segment exists

vars == <<phase, children, lock, pidfile, header, segments>>

(* "locked" to "record" are the startup in the order of its steps, "exit   *)
(* ..." the callbacks of proc_exit in theirs.                              *)
Startup == {"locked", "pid", "clean", "unlink", "create", "size", "fill", "segment", "record"}
Exit == {"exit segment", "exit header", "exit pid", "exit lock"}
Phases == {"down", "running"} \cup Startup \cup Exit

(* A file that was created but not sized, or sized but not filled in, does *)
(* not pass the validation; `home' is the directory its device and inode   *)
(* name, `dsm' the segment its dsm_control names.                          *)
Absent == [content |-> "absent", home |-> "this", dsm |-> Nobody]
Incomplete == [content |-> "incomplete", home |-> "this", dsm |-> Nobody]
Complete(home, dsm) == [content |-> "complete", home |-> home, dsm |-> dsm]

Headers == [content : {"absent", "incomplete", "complete"}, home : {"this", "other"},
            dsm : Servers \cup {Nobody, Elsewhere}]

TypeOK ==
    /\ phase \in [Servers -> Phases]
    /\ children \in [Servers -> 0 .. MaxChildren]
    /\ lock \in Servers \cup {Nobody}
    /\ pidfile \in Servers \cup {Nobody}
    /\ header \in Headers
    /\ segments \subseteq Servers \cup {Elsewhere}

(* A new data directory, or a copy of one whose server is running.         *)
Init ==
    /\ phase = [s \in Servers |-> "down"]
    /\ children = [s \in Servers |-> 0]
    /\ lock = Nobody
    /\ pidfile = Nobody
    /\ header \in {Absent, Complete("other", Elsewhere)}
    /\ segments = {Elsewhere}

Goto(s, p) == phase' = [phase EXCEPT ![s] = p]

At(s, p) == phase[s] = p

-----------------------------------------------------------------------------
(* Startup.                                                                *)

(* PGFileLockDataDirectory: without the lock the server is gone at once.   *)
TakeLock(s) ==
    /\ At(s, "down") /\ children[s] = 0
    /\ lock = Nobody
    /\ lock' = s
    /\ Goto(s, "locked")
    /\ UNCHANGED <<children, pidfile, header, segments>>

(* CreateLockFile: a live postmaster in postmaster.pid is the end, a dead  *)
(* one's file is removed and creating it is tried again.                   *)
CreatePidFile(s) ==
    /\ At(s, "locked")
    /\ \/ /\ pidfile = Nobody
          /\ pidfile' = s /\ Goto(s, "pid")
       \/ /\ pidfile # Nobody
          /\ IF At(pidfile, "down") \/ pidfile = s
             THEN pidfile' = Nobody /\ UNCHANGED phase
             ELSE Goto(s, "exit lock") /\ UNCHANGED pidfile
    /\ UNCHANGED <<children, lock, header, segments>>

(* Mutant: the device and the inode are not compared.                      *)
PassesIfComplete(file) == file.content = "complete"

Passes(file) == file.content = "complete" /\ file.home = "this"

(* Mutant: no file that is left over is recycled.                          *)
OpenHeaderNew(s) ==
    /\ At(s, "pid")
    /\ Goto(s, IF header = Absent THEN "create" ELSE "exit pid")
    /\ UNCHANGED <<children, lock, pidfile, header, segments>>

(* Look at the file a crash has left; FileShmemInvalid is fatal.           *)
OpenHeader(s) ==
    /\ At(s, "pid")
    /\ \/ header = Absent /\ Goto(s, "create")
       \/ header # Absent /\ Passes(header) /\ Goto(s, "clean")
       \/ header # Absent /\ ~Passes(header) /\ Goto(s, "exit pid")
    /\ UNCHANGED <<children, lock, pidfile, header, segments>>

(* dsm_cleanup_using_control_segment.                                      *)
CleanSegment(s) ==
    /\ At(s, "clean")
    /\ segments' = segments \ {header.dsm}
    /\ Goto(s, "unlink")
    /\ UNCHANGED <<children, lock, pidfile, header>>

UnlinkHeader(s) ==
    /\ At(s, "unlink")
    /\ header' = Absent
    /\ Goto(s, "create")
    /\ UNCHANGED <<children, lock, pidfile, segments>>

CreateHeader(s) ==
    /\ At(s, "create")
    /\ IF header = Absent
       THEN header' = Incomplete /\ Goto(s, "size")
       ELSE Goto(s, "exit pid") /\ UNCHANGED header
    /\ UNCHANGED <<children, lock, pidfile, segments>>

(* ftruncate and mmap.  From here on FileShmemDelete is registered.        *)
SizeHeader(s) ==
    /\ At(s, "size")
    /\ Goto(s, "fill")
    /\ UNCHANGED <<children, lock, pidfile, header, segments>>

(* One of them failed: the file is unlinked again before the fatal error.  *)
SizeHeaderFails(s) ==
    /\ At(s, "size")
    /\ Goto(s, "exit pid")
    /\ header' = Absent
    /\ UNCHANGED <<children, lock, pidfile, segments>>

(* Mutant: dsm_control is not initialised.                                 *)
FillHeaderPartly(s) ==
    /\ At(s, "fill")
    /\ header' = [content |-> "complete", home |-> "this"]
    /\ Goto(s, "segment")
    /\ UNCHANGED <<children, lock, pidfile, segments>>

FillHeader(s) ==
    /\ At(s, "fill")
    /\ header' = Complete("this", Nobody)
    /\ Goto(s, "segment")
    /\ UNCHANGED <<children, lock, pidfile, segments>>

(* dsm_postmaster_startup creates the control segment, registers           *)
(* dsm_postmaster_shutdown, and records the handle in the header.          *)
CreateSegment(s) ==
    /\ At(s, "segment")
    /\ segments' = segments \cup {s}
    /\ Goto(s, "record")
    /\ UNCHANGED <<children, lock, pidfile, header>>

RecordSegment(s) ==
    /\ At(s, "record")
    /\ header' = [header EXCEPT !.dsm = s]
    /\ Goto(s, "running")
    /\ UNCHANGED <<children, lock, pidfile, segments>>

-----------------------------------------------------------------------------
(* Children, and the end of a server.                                      *)

(* A child shares the open file description and none of the callbacks.     *)
Fork(s) ==
    /\ At(s, "running") /\ children[s] < MaxChildren
    /\ children' = [children EXCEPT ![s] = @ + 1]
    /\ UNCHANGED <<phase, lock, pidfile, header, segments>>

(* Mutant: a child runs FileShmemDelete too.                               *)
ChildExitsCleaning(s) ==
    /\ children[s] > 0
    /\ children' = [children EXCEPT ![s] = @ - 1]
    /\ lock' = IF children[s] = 1 /\ At(s, "down") THEN Nobody ELSE lock
    /\ header' = Absent
    /\ UNCHANGED <<phase, pidfile, segments>>

(* The lock goes with the last descriptor of the open file description.    *)
ChildExits(s) ==
    /\ children[s] > 0
    /\ children' = [children EXCEPT ![s] = @ - 1]
    /\ lock' = IF children[s] = 1 /\ At(s, "down") THEN Nobody ELSE lock
    /\ UNCHANGED <<phase, pidfile, header, segments>>

(* proc_exit: a shutdown, or a fatal error at any point, also with         *)
(* children alive.  What was registered last is run first.                 *)
BeginExit(s) ==
    /\ \/ phase[s] \in {"running", "record"} /\ Goto(s, "exit segment")
       \/ phase[s] \in {"segment", "fill"} /\ Goto(s, "exit header")
       \/ phase[s] \in {"create", "unlink", "clean", "pid"} /\ Goto(s, "exit pid")
       \/ phase[s] = "locked" /\ Goto(s, "exit lock")
    /\ UNCHANGED <<children, lock, pidfile, header, segments>>

(* Mutant: FileShmemDelete is run before dsm_postmaster_shutdown.          *)
DestroySegmentLate(s) ==
    /\ At(s, "exit segment")
    /\ IF header # Absent
       THEN header' = Absent /\ UNCHANGED <<segments, phase>>
       ELSE segments' = segments \ {s} /\ Goto(s, "exit header") /\ UNCHANGED header
    /\ UNCHANGED <<children, lock, pidfile>>

(* dsm_postmaster_shutdown destroys the segment and clears its handle.     *)
DestroySegment(s) ==
    /\ At(s, "exit segment")
    /\ segments' = segments \ {s}
    /\ header' = [header EXCEPT !.dsm = Nobody]
    /\ Goto(s, "exit header")
    /\ UNCHANGED <<children, lock, pidfile>>

(* FileShmemDelete.                                                        *)
DeleteHeader(s) ==
    /\ At(s, "exit header")
    /\ header' = Absent
    /\ Goto(s, "exit pid")
    /\ UNCHANGED <<children, lock, pidfile, segments>>

(* UnlinkLockFiles.                                                        *)
RemovePidFile(s) ==
    /\ At(s, "exit pid")
    /\ pidfile' = Nobody
    /\ Goto(s, "exit lock")
    /\ UNCHANGED <<children, lock, header, segments>>

(* Mutant: the lock is released explicitly.                                *)
CloseLockUnlocking(s) ==
    /\ At(s, "exit lock")
    /\ lock' = Nobody
    /\ Goto(s, "down")
    /\ UNCHANGED <<children, pidfile, header, segments>>

(* DataDirLockClose closes the descriptor without unlocking: children that *)
(* are still alive keep the lock.                                          *)
CloseLock(s) ==
    /\ At(s, "exit lock")
    /\ lock' = IF children[s] = 0 THEN Nobody ELSE lock
    /\ Goto(s, "down")
    /\ UNCHANGED <<children, pidfile, header, segments>>

(* A postmaster is killed: no callback is run.                             *)
Kill(s) ==
    /\ ~At(s, "down")
    /\ Goto(s, "down")
    /\ lock' = IF children[s] = 0 THEN Nobody ELSE lock
    /\ UNCHANGED <<children, pidfile, header, segments>>

(* The machine goes down: processes and segments are gone, and what was    *)
(* written to the header may be lost.  Segments of the type mmap are files *)
(* and survive, but need no header to be found: PostgreSQL removes them by *)
(* name when it starts again.                                              *)
Reboot ==
    /\ phase' = [s \in Servers |-> "down"]
    /\ children' = [s \in Servers |-> 0]
    /\ lock' = Nobody
    /\ segments' = {}
    /\ \/ UNCHANGED header
       \/ header = Complete("this", header.dsm) /\ header' = Incomplete
    /\ UNCHANGED pidfile

(* The hint of FileShmemInvalid: "Remove the file only after verifying     *)
(* that no old server processes remain."                                   *)
OperatorRemovesHeader ==
    /\ header # Absent /\ ~Passes(header)
    /\ \A s \in Servers : At(s, "down") /\ children[s] = 0
    /\ header' = Absent
    /\ UNCHANGED <<phase, children, lock, pidfile, segments>>

Start(s) ==
    \/ TakeLock(s) \/ CreatePidFile(s) \/ OpenHeader(s) \/ CleanSegment(s)
    \/ UnlinkHeader(s) \/ CreateHeader(s) \/ SizeHeader(s) \/ FillHeader(s)
    \/ CreateSegment(s) \/ RecordSegment(s)

End(s) == DestroySegment(s) \/ DeleteHeader(s) \/ RemovePidFile(s) \/ CloseLock(s)

Stop == Reboot \/ \E s \in Servers : SizeHeaderFails(s) \/ BeginExit(s) \/ Kill(s)

Next ==
    \/ Stop \/ OperatorRemovesHeader
    \/ \E s \in Servers : Start(s) \/ End(s) \/ Fork(s) \/ ChildExits(s)

Spec == Init /\ [][Next]_vars

(* Startup and shutdown go on; somebody starts a server again; a child     *)
(* exits when it finds its postmaster gone.                                *)
FairSpec ==
    /\ Spec
    /\ \A s \in Servers :
        /\ WF_vars(Start(s))
        /\ WF_vars(End(s))
        /\ WF_vars(At(s, "down") /\ ChildExits(s))

-----------------------------------------------------------------------------
(* Properties.                                                             *)

Uses(s) == ~At(s, "down") \/ children[s] > 0

(* Never two servers on one data directory, where a server includes the    *)
(* children that have outlived their postmaster: "the lock survives a      *)
(* postmaster crash until the last child exits".                           *)
MutualExclusion == \A s, t \in Servers : Uses(s) /\ Uses(t) => s = t

(* As long as a postmaster runs, postmaster.pid and the header are its     *)
(* own, whatever other servers tried to start meanwhile and whatever its   *)
(* predecessors left behind; so a later start finds what it has to clean.  *)
LiveServerKeepsFiles ==
    \A s \in Servers : At(s, "running") =>
        /\ pidfile = s
        /\ header = Complete("this", s)
        /\ s \in segments

(* A segment that the header names is not forgotten while it exists: the   *)
(* header is removed or changed only once the segment is gone, so that it  *)
(* is found and destroyed by the next start if not by its own server.      *)
SegmentsAreNotForgotten ==
    [][\A s \in Servers : s \in segments /\ header.dsm = s
            => s \notin segments' \/ header'.dsm = s]_vars

(* A copy of a data directory brings the header of a running server with   *)
(* it; no start on the copy destroys the segment of that server ("never    *)
(* replace a corrupt or foreign file automatically").                      *)
ForeignSegmentIsSpared ==
    [][(Elsewhere \in segments) => Elsewhere \in segments' \/ Reboot]_vars

(* A stop that is no step of a startup or a shutdown that comes to its end *)
(* by itself.                                                              *)
Interruption == Stop /\ ~\E s \in Servers : Start(s) \/ End(s)

(* Once nothing fails any more a server comes up and stays up, unless the  *)
(* header is one that the operator has to look at.                         *)
EventuallyServing ==
    <>[][~Interruption]_vars =>
        <>[](\/ \E s \in Servers : At(s, "running")
             \/ header # Absent /\ ~Passes(header))

======
