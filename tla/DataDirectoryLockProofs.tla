----------------------- MODULE DataDirectoryLockProofs -----------------------
(***************************************************************************)
(* Theorems about DataDirectoryLock, for any set of servers and any number *)
(* of children.                                                            *)
(*                                                                         *)
(* Who uses the directory holds the lock (HolderInv); so whatever step     *)
(* changes a file is one of the only server that is not down, and what a   *)
(* server has made of the files by each of its phases (PhaseInv) is not    *)
(* disturbed by another.                                                   *)
(***************************************************************************)
EXTENDS DataDirectoryLock, TLAPS

(* The lock belongs to the server that runs or has children.               *)
HolderInv == \A s \in Servers : Uses(s) => lock = s

(* The forms a header can have: a copied one names a segment elsewhere, an *)
(* incomplete one no segment.                                              *)
HeaderInv ==
    /\ header.content \in {"absent", "incomplete"} => header.dsm = Nobody
    /\ header.home = "this" => header.dsm # Elsewhere
    /\ header.home = "other" => header.dsm = Elsewhere

(* Phases in which postmaster.pid is the server's own.                     *)
Named == (Startup \ {"locked"}) \cup {"running", "exit segment", "exit header", "exit pid"}

(* What a server has made of the files by the phase it is in.              *)
Made(s) ==
    /\ phase[s] \in Named => pidfile = s
    /\ phase[s] = "clean" => header.home = "this"
    /\ phase[s] = "unlink" => header.dsm \notin segments
    /\ phase[s] \in {"create", "size", "fill", "segment", "record", "exit header"}
        => header.dsm = Nobody
    /\ phase[s] \in {"segment", "record"} => header = Complete("this", Nobody)
    /\ phase[s] \in {"record", "running"} => s \in segments
    /\ phase[s] = "running" => header = Complete("this", s)
    /\ phase[s] = "exit segment" => header.dsm \in {s, Nobody}

PhaseInv == \A s \in Servers : Made(s)

LockInv == TypeOK /\ HolderInv /\ HeaderInv /\ PhaseInv

-----------------------------------------------------------------------------
(* Steps of a server that has the lock and keeps it.                       *)

Files(s) ==
    \/ CreatePidFile(s) \/ OpenHeader(s) \/ CleanSegment(s) \/ UnlinkHeader(s)
    \/ CreateHeader(s) \/ SizeHeader(s) \/ SizeHeaderFails(s) \/ FillHeader(s)
    \/ CreateSegment(s) \/ RecordSegment(s)
    \/ BeginExit(s) \/ DestroySegment(s) \/ DeleteHeader(s) \/ RemovePidFile(s)

(* Every step is one of these, or takes the lock, gives it back or changes *)
(* the number of children, or is one of the machine or the operator.       *)
LEMMA Cases ==
    ASSUME Next
    PROVE  \/ \E s \in Servers : \/ Files(s) \/ TakeLock(s) \/ CloseLock(s) \/ Kill(s)
                                 \/ Fork(s) \/ ChildExits(s)
           \/ Reboot
           \/ OperatorRemovesHeader
BY DEF Next, Stop, Start, End, Files

(* Such a step is of a server that is not down, and moves only that.       *)
LEMMA FilesFrame ==
    ASSUME TypeOK, NEW s \in Servers, Files(s)
    PROVE  /\ ~At(s, "down")
           /\ children' = children
           /\ lock' = lock
           /\ phase' \in [Servers -> Phases]
           /\ \A t \in Servers \ {s} : phase'[t] = phase[t]
<1>1. CASE CreatePidFile(s)
  BY <1>1 DEF TypeOK, CreatePidFile, At, Goto, Phases, Startup, Exit
<1>2. CASE OpenHeader(s)
  BY <1>2 DEF TypeOK, OpenHeader, At, Goto, Phases, Startup, Exit
<1>3. CASE CleanSegment(s) \/ UnlinkHeader(s) \/ CreateHeader(s)
  BY <1>3 DEF TypeOK, CleanSegment, UnlinkHeader, CreateHeader, At, Goto, Phases, Startup, Exit
<1>4. CASE SizeHeader(s) \/ SizeHeaderFails(s) \/ FillHeader(s)
  BY <1>4 DEF TypeOK, SizeHeader, SizeHeaderFails, FillHeader, At, Goto, Phases, Startup, Exit
<1>5. CASE CreateSegment(s) \/ RecordSegment(s)
  BY <1>5 DEF TypeOK, CreateSegment, RecordSegment, At, Goto, Phases, Startup, Exit
<1>6. CASE BeginExit(s)
  BY <1>6 DEF TypeOK, BeginExit, At, Goto, Phases, Startup, Exit
<1>7. CASE DestroySegment(s) \/ DeleteHeader(s) \/ RemovePidFile(s)
  BY <1>7 DEF TypeOK, DestroySegment, DeleteHeader, RemovePidFile, At, Goto, Phases, Startup, Exit
<1>. QED
  BY <1>1, <1>2, <1>3, <1>4, <1>5, <1>6, <1>7 DEF Files

(* While a server uses the directory every other one is down and childless.*)
LEMMA OnlyUser ==
    ASSUME HolderInv, NEW s \in Servers, Uses(s), NEW t \in Servers, t # s
    PROVE  ~Uses(t)
BY DEF HolderInv


(* Setting the segment of a header leaves its other fields alone.          *)
LEMMA SetDsm ==
    ASSUME NEW h \in Headers, NEW x \in Servers \cup {Nobody, Elsewhere}
    PROVE  /\ [h EXCEPT !.dsm = x] = [content |-> h.content, home |-> h.home, dsm |-> x]
           /\ [h EXCEPT !.dsm = x] \in Headers
BY DEF Headers

-----------------------------------------------------------------------------
(* The type invariant.                                                     *)

(* Every file is left in one of its forms.                                 *)
LEMMA TypeOKStep ==
    ASSUME TypeOK, Next
    PROVE  TypeOK'
<1> USE LockAssumption
<1>1. ASSUME NEW s \in Servers, Files(s) PROVE TypeOK'
  <2>1. phase' \in [Servers -> Phases] /\ children' = children /\ lock' = lock
    BY <1>1, FilesFrame
  <2>2. pidfile' \in Servers \cup {Nobody} /\ segments' \subseteq Servers \cup {Elsewhere}
    <3>1. CASE CreatePidFile(s) \/ OpenHeader(s) \/ BeginExit(s)
      BY <3>1 DEF TypeOK, CreatePidFile, OpenHeader, BeginExit
    <3>2. CASE CleanSegment(s) \/ UnlinkHeader(s) \/ CreateHeader(s) \/ SizeHeader(s)
      BY <3>2 DEF TypeOK, CleanSegment, UnlinkHeader, CreateHeader, SizeHeader
    <3>3. CASE SizeHeaderFails(s) \/ FillHeader(s) \/ CreateSegment(s) \/ RecordSegment(s)
      BY <3>3 DEF TypeOK, SizeHeaderFails, FillHeader, CreateSegment, RecordSegment
    <3>4. CASE DestroySegment(s) \/ DeleteHeader(s) \/ RemovePidFile(s)
      BY <3>4 DEF TypeOK, DestroySegment, DeleteHeader, RemovePidFile
    <3>. QED BY <1>1, <3>1, <3>2, <3>3, <3>4 DEF Files
  <2>3. header' \in Headers
    <3>1. Absent \in Headers /\ Incomplete \in Headers /\ Complete("this", Nobody) \in Headers
      BY DEF Absent, Incomplete, Complete, Headers
    <3>2. CASE CreatePidFile(s) \/ OpenHeader(s) \/ BeginExit(s) \/ CleanSegment(s)
      BY <3>2 DEF TypeOK, CreatePidFile, OpenHeader, BeginExit, CleanSegment
    <3>3. CASE UnlinkHeader(s) \/ CreateHeader(s) \/ SizeHeader(s) \/ SizeHeaderFails(s)
      BY <3>1, <3>3 DEF TypeOK, UnlinkHeader, CreateHeader, SizeHeader, SizeHeaderFails
    <3>4. CASE FillHeader(s) \/ CreateSegment(s) \/ DeleteHeader(s) \/ RemovePidFile(s)
      BY <3>1, <3>4 DEF TypeOK, FillHeader, CreateSegment, DeleteHeader, RemovePidFile
    <3>5. CASE RecordSegment(s)
      BY <3>5, SetDsm DEF TypeOK, RecordSegment
    <3>6. CASE DestroySegment(s)
      BY <3>6, SetDsm DEF TypeOK, DestroySegment
    <3>. QED BY <1>1, <3>2, <3>3, <3>4, <3>5, <3>6 DEF Files
  <2>. QED BY <2>1, <2>2, <2>3 DEF TypeOK
<1>2. ASSUME NEW s \in Servers, TakeLock(s) \/ CloseLock(s) \/ Kill(s) PROVE TypeOK'
  BY <1>2 DEF TypeOK, TakeLock, CloseLock, Kill, At, Goto, Phases, Startup, Exit
<1>3. ASSUME NEW s \in Servers, Fork(s) PROVE TypeOK'
  BY <1>3 DEF TypeOK, Fork, At
<1>4. ASSUME NEW s \in Servers, ChildExits(s) PROVE TypeOK'
  BY <1>4 DEF TypeOK, ChildExits, At
<1>5. CASE Reboot
  <2>1. header' \in Headers
    BY <1>5 DEF TypeOK, Reboot, Incomplete, Headers
  <2>. QED BY <1>5, <2>1 DEF TypeOK, Reboot, Phases
<1>6. CASE OperatorRemovesHeader
  BY <1>6 DEF TypeOK, OperatorRemovesHeader, Absent, Headers
<1>. QED BY <1>1, <1>2, <1>3, <1>4, <1>5, <1>6, Cases

-----------------------------------------------------------------------------
(* The holder of the lock.                                                 *)

(* A server that is not down or has children has the lock, and no other    *)
(* one gets it until it is down and the last child is gone.                *)
LEMMA HolderInvStep ==
    ASSUME TypeOK, HolderInv, Next
    PROVE  HolderInv'
<1> USE LockAssumption
<1>1. ASSUME NEW s \in Servers, Files(s) PROVE HolderInv'
  BY <1>1, FilesFrame DEF HolderInv, Uses, At
<1>2. ASSUME NEW s \in Servers, TakeLock(s) PROVE HolderInv'
  BY <1>2 DEF TypeOK, HolderInv, Uses, TakeLock, At, Goto
<1>3. ASSUME NEW s \in Servers, CloseLock(s) \/ Kill(s) PROVE HolderInv'
  <2>1. lock = s
    BY <1>3 DEF HolderInv, Uses, CloseLock, Kill, At
  <2>2. \A t \in Servers \ {s} : ~Uses(t) /\ Uses(t)' = Uses(t)
    BY <1>3, <2>1 DEF TypeOK, HolderInv, Uses, CloseLock, Kill, At, Goto
  <2>3. children[s] = 0 \/ lock' = s
    BY <1>3, <2>1 DEF CloseLock, Kill
  <2>4. Uses(s)' => children[s] > 0
    BY <1>3 DEF TypeOK, Uses, CloseLock, Kill, At, Goto
  <2>. QED BY <2>2, <2>3, <2>4 DEF HolderInv
<1>4. ASSUME NEW s \in Servers, Fork(s) PROVE HolderInv'
  BY <1>4 DEF TypeOK, HolderInv, Uses, Fork, At
<1>5. ASSUME NEW s \in Servers, ChildExits(s) PROVE HolderInv'
  <2>1. lock = s
    BY <1>5 DEF HolderInv, Uses, ChildExits
  <2>2. \A t \in Servers \ {s} : ~Uses(t) /\ Uses(t)' = Uses(t)
    BY <1>5, <2>1 DEF TypeOK, HolderInv, Uses, ChildExits, At
  <2>3. Uses(s)' => lock' = s
    BY <1>5, <2>1 DEF TypeOK, Uses, ChildExits, At
  <2>. QED BY <2>2, <2>3 DEF HolderInv
<1>6. CASE Reboot
  BY <1>6 DEF HolderInv, Uses, Reboot, At
<1>7. CASE OperatorRemovesHeader
  BY <1>7 DEF HolderInv, Uses, OperatorRemovesHeader, At
<1>. QED BY <1>1, <1>2, <1>3, <1>4, <1>5, <1>6, <1>7, Cases

-----------------------------------------------------------------------------
(* The header.                                                             *)

(* A header keeps its form: whoever writes to one has created it.          *)
LEMMA HeaderInvStep ==
    ASSUME TypeOK, HeaderInv, PhaseInv, Next
    PROVE  HeaderInv'
<1> USE LockAssumption
<1>1. CASE header' = header
  BY <1>1 DEF HeaderInv
<1>2. CASE header' \in {Absent, Incomplete, Complete("this", Nobody)}
  BY <1>2 DEF HeaderInv, Absent, Incomplete, Complete
<1>3. ASSUME NEW s \in Servers, RecordSegment(s) PROVE HeaderInv'
  <2>1. header = Complete("this", Nobody)
    BY <1>3 DEF RecordSegment, At, PhaseInv, Made
  <2>2. header' = [content |-> header.content, home |-> header.home, dsm |-> s]
    BY <1>3, SetDsm DEF TypeOK, RecordSegment
  <2>. QED BY <2>1, <2>2 DEF HeaderInv, Complete
<1>4. ASSUME NEW s \in Servers, DestroySegment(s) PROVE HeaderInv'
  <2>1. header.dsm \in {s, Nobody}
    BY <1>4 DEF DestroySegment, At, PhaseInv, Made
  <2>2. header' = [content |-> header.content, home |-> header.home, dsm |-> Nobody]
    BY <1>4, SetDsm DEF TypeOK, DestroySegment
  <2>. QED BY <2>1, <2>2 DEF HeaderInv
<1>5. ASSUME NEW s \in Servers, Files(s)
      PROVE  \/ header' \in {header, Absent, Incomplete, Complete("this", Nobody)}
             \/ RecordSegment(s) \/ DestroySegment(s)
  <2>1. CASE CreatePidFile(s) \/ OpenHeader(s) \/ CleanSegment(s) \/ UnlinkHeader(s)
    BY <2>1 DEF CreatePidFile, OpenHeader, CleanSegment, UnlinkHeader
  <2>2. CASE CreateHeader(s) \/ SizeHeader(s) \/ SizeHeaderFails(s) \/ FillHeader(s)
    BY <2>2 DEF CreateHeader, SizeHeader, SizeHeaderFails, FillHeader
  <2>3. CASE CreateSegment(s) \/ BeginExit(s) \/ DeleteHeader(s) \/ RemovePidFile(s)
    BY <2>3 DEF CreateSegment, BeginExit, DeleteHeader, RemovePidFile
  <2>. QED BY <1>5, <2>1, <2>2, <2>3 DEF Files
<1>6. ASSUME NEW s \in Servers,
             TakeLock(s) \/ CloseLock(s) \/ Kill(s) \/ Fork(s) \/ ChildExits(s)
      PROVE  header' = header
  BY <1>6 DEF TakeLock, CloseLock, Kill, Fork, ChildExits
<1>7. Reboot \/ OperatorRemovesHeader => header' \in {header, Absent, Incomplete}
  BY DEF Reboot, OperatorRemovesHeader
<1>. QED BY <1>1, <1>2, <1>3, <1>4, <1>5, <1>6, <1>7, Cases

-----------------------------------------------------------------------------
(* The phases.                                                             *)

(* A server makes of the files what its next phase presupposes.            *)
LEMMA MadeByStep ==
    ASSUME TypeOK, HolderInv, HeaderInv, PhaseInv, NEW s \in Servers, Files(s)
    PROVE  Made(s)'
<1> USE LockAssumption
<1> USE DEF Made, Named, Startup, At, Goto
<1>1. Made(s)
  BY DEF PhaseInv
<1>2. CASE CreatePidFile(s)
  <2>1. phase[s] = "locked" /\ header' = header /\ segments' = segments
    BY <1>2 DEF CreatePidFile
  <2>2. \/ phase'[s] = "pid" /\ pidfile' = s
        \/ phase'[s] \in {"locked", "exit lock"}
    BY <1>2 DEF TypeOK, CreatePidFile
  <2>. QED BY <2>1, <2>2
<1>3. CASE OpenHeader(s)
  <2>1. pidfile' = s /\ header' = header /\ segments' = segments
    BY <1>1, <1>3 DEF OpenHeader
  <2>2. \/ phase'[s] = "create" /\ header = Absent
        \/ phase'[s] = "clean" /\ header.home = "this"
        \/ phase'[s] = "exit pid"
    BY <1>3 DEF TypeOK, OpenHeader, Passes
  <2>3. Absent.dsm = Nobody
    BY DEF Absent
  <2>. QED BY <2>1, <2>2, <2>3
<1>4. CASE CleanSegment(s)
  <2>1. /\ phase'[s] = "unlink"
        /\ pidfile' = s /\ header' = header /\ segments' = segments \ {header.dsm}
    BY <1>1, <1>4 DEF TypeOK, CleanSegment
  <2>. QED BY <2>1
<1>5. CASE UnlinkHeader(s)
  BY <1>1, <1>5 DEF TypeOK, UnlinkHeader, Absent
<1>6. CASE CreateHeader(s)
  <2>1. /\ pidfile' = s
        /\ \/ phase'[s] = "size" /\ header' = Incomplete
           \/ phase'[s] = "exit pid"
    BY <1>1, <1>6 DEF TypeOK, CreateHeader
  <2>2. Incomplete.dsm = Nobody
    BY DEF Incomplete
  <2>. QED BY <2>1, <2>2
<1>7. CASE SizeHeader(s)
  BY <1>1, <1>7 DEF TypeOK, SizeHeader
<1>8. CASE SizeHeaderFails(s)
  BY <1>1, <1>8 DEF TypeOK, SizeHeaderFails
<1>9. CASE FillHeader(s)
  BY <1>1, <1>9 DEF TypeOK, FillHeader, Complete
<1>10. CASE CreateSegment(s)
  BY <1>1, <1>10 DEF TypeOK, CreateSegment
<1>11. CASE RecordSegment(s)
  <2>1. header = Complete("this", Nobody) /\ s \in segments
    BY <1>1, <1>11 DEF RecordSegment
  <2>2. header' = [content |-> header.content, home |-> header.home, dsm |-> s]
    BY <1>11, SetDsm DEF TypeOK, RecordSegment
  <2>3. header' = Complete("this", s)
    BY <2>1, <2>2 DEF Complete
  <2>. QED BY <1>1, <1>11, <2>1, <2>3 DEF TypeOK, RecordSegment
<1>12. CASE BeginExit(s)
  <2>1. header' = header /\ segments' = segments /\ pidfile' = pidfile
    BY <1>12 DEF BeginExit
  <2>2. phase[s] \in {"running", "record"} => header.dsm \in {s, Nobody}
    <3>1. Complete("this", s).dsm = s
      BY DEF Complete
    <3>. QED BY <1>1, <3>1
  <2>3. phase[s] = "fill" => header.dsm = Nobody
    BY <1>1
  <2>. QED BY <1>1, <1>12, <2>1, <2>2, <2>3 DEF TypeOK, BeginExit, Complete
<1>13. CASE DestroySegment(s)
  <2>1. header' = [content |-> header.content, home |-> header.home, dsm |-> Nobody]
    BY <1>13, SetDsm DEF TypeOK, DestroySegment
  <2>2. header'.dsm = Nobody
    BY <2>1
  <2>. QED BY <1>1, <1>13, <2>2 DEF TypeOK, DestroySegment
<1>14. CASE DeleteHeader(s)
  BY <1>1, <1>14 DEF TypeOK, DeleteHeader
<1>15. CASE RemovePidFile(s)
  BY <1>15 DEF TypeOK, RemovePidFile
<1>. QED BY <1>2, <1>3, <1>4, <1>5, <1>6, <1>7, <1>8, <1>9, <1>10, <1>11, <1>12, <1>13, <1>14,
            <1>15 DEF Files

(* No step disturbs what another server has made: there is no other one.   *)
LEMMA PhaseInvStep ==
    ASSUME TypeOK, HolderInv, HeaderInv, PhaseInv, Next
    PROVE  PhaseInv'
<1>1. ASSUME NEW s \in Servers, phase[s] \in {"down", "locked", "exit lock"}
      PROVE  Made(s)
  BY <1>1 DEF Made, Named, Startup
<1>2. ASSUME NEW s \in Servers, Files(s) PROVE PhaseInv'
  <2>1. ASSUME NEW t \in Servers \ {s} PROVE Made(t)'
    <3>1. At(t, "down")
      BY <1>2, FilesFrame, OnlyUser DEF Uses
    <3>2. phase'[t] = "down"
      BY <1>2, <3>1, FilesFrame DEF At
    <3>. QED BY <3>2 DEF Made, Named, Startup
  <2>. QED BY <1>2, <2>1, MadeByStep DEF PhaseInv
<1>3. ASSUME NEW s \in Servers, TakeLock(s) \/ CloseLock(s) \/ Kill(s) PROVE PhaseInv'
  <2>1. /\ phase' = [phase EXCEPT ![s] = phase'[s]]
        /\ phase'[s] \in {"down", "locked"}
        /\ pidfile' = pidfile /\ header' = header /\ segments' = segments
    BY <1>3 DEF TypeOK, TakeLock, CloseLock, Kill, Goto
  <2>2. ASSUME NEW t \in Servers \ {s} PROVE Made(t)'
    <3>1. phase'[t] = phase[t]
      BY <2>1 DEF TypeOK
    <3>. QED BY <2>1, <3>1 DEF PhaseInv, Made
  <2>3. Made(s)'
    BY <2>1 DEF Made, Named, Startup
  <2>. QED BY <2>2, <2>3 DEF PhaseInv
<1>4. ASSUME NEW s \in Servers, Fork(s) \/ ChildExits(s) PROVE PhaseInv'
  BY <1>4 DEF PhaseInv, Made, Fork, ChildExits
<1>5. CASE Reboot
  BY <1>5 DEF PhaseInv, Made, Named, Startup, Reboot
<1>6. CASE OperatorRemovesHeader
  BY <1>6 DEF PhaseInv, Made, Named, Startup, OperatorRemovesHeader, At
<1>. QED BY <1>2, <1>3, <1>4, <1>5, <1>6, Cases

-----------------------------------------------------------------------------
(* The results.                                                            *)

(* What the servers have made of the directory, whatever was interrupted.  *)
THEOREM LockInvariant == Spec => []LockInv
<1> USE LockAssumption
<1>1. Init => LockInv
  <2> SUFFICES ASSUME Init PROVE LockInv
    OBVIOUS
  <2>1. TypeOK
    BY DEF Init, TypeOK, Phases, Headers, Absent, Complete
  <2>2. HolderInv
    BY DEF Init, HolderInv, Uses, At
  <2>3. HeaderInv
    BY DEF Init, HeaderInv, Absent, Complete
  <2>4. PhaseInv
    BY DEF Init, PhaseInv, Made, Named, Startup
  <2>. QED BY <2>1, <2>2, <2>3, <2>4 DEF LockInv
<1>2. LockInv /\ [Next]_vars => LockInv'
  <2>1. LockInv /\ Next => LockInv'
    BY TypeOKStep, HolderInvStep, HeaderInvStep, PhaseInvStep DEF LockInv
  <2>2. LockInv /\ UNCHANGED vars => LockInv'
    BY DEF LockInv, TypeOK, HolderInv, HeaderInv, PhaseInv, Made, Uses, At, vars
  <2>. QED BY <2>1, <2>2
<1>. QED BY <1>1, <1>2, PTL DEF Spec

(* The lock, postmaster.pid and the header keep their types (TypeOK).      *)
THEOREM TypeCorrect == Spec => []TypeOK
BY LockInvariant, PTL DEF LockInv

(* Two servers never use one data directory, the children that outlive a   *)
(* postmaster included: the data directory lock holds what it promises.    *)
THEOREM Exclusion == Spec => []MutualExclusion
<1>1. LockInv => MutualExclusion
  BY DEF LockInv, HolderInv, MutualExclusion
<1>. QED BY <1>1, LockInvariant, PTL

(* The files of a server that runs are its own, whatever other starts, the *)
(* crashes before them and the operator did.                               *)
THEOREM FilesAreKept == Spec => []LiveServerKeepsFiles
<1>1. LockInv => LiveServerKeepsFiles
  BY DEF LockInv, PhaseInv, Made, Named, LiveServerKeepsFiles, At
<1>. QED BY <1>1, LockInvariant, PTL

(* A header stops naming a segment only when the segment is gone.          *)
THEOREM SegmentsAreFound == Spec => SegmentsAreNotForgotten
<1> DEFINE Remembers == \A s \in Servers : s \in segments /\ header.dsm = s
                            => s \notin segments' \/ header'.dsm = s
<1>1. ASSUME LockInv, Next PROVE Remembers
  <2> USE LockAssumption
  <2>1. CASE header' = header
    BY <2>1
  <2>2. ASSUME NEW s \in Servers, Files(s), header' # header PROVE Remembers
    <3>1. Made(s)
      BY <1>1 DEF LockInv, PhaseInv
    <3>2. CASE UnlinkHeader(s)
      BY <3>1, <3>2 DEF Made, UnlinkHeader, At
    <3>3. CASE CreateHeader(s)
      <4>1. header = Absent
        BY <2>2, <3>3 DEF CreateHeader
      <4>2. Absent.dsm = Nobody
        BY DEF Absent
      <4>. QED BY <4>1, <4>2
    <3>4. CASE SizeHeaderFails(s) \/ FillHeader(s)
      BY <3>1, <3>4 DEF Made, SizeHeaderFails, FillHeader, At
    <3>5. CASE RecordSegment(s)
      BY <3>1, <3>5 DEF Made, RecordSegment, At
    <3>6. CASE DestroySegment(s)
      BY <3>1, <3>6 DEF Made, DestroySegment, At
    <3>7. CASE DeleteHeader(s)
      BY <3>1, <3>7 DEF Made, DeleteHeader, At
    <3>8. CASE CreatePidFile(s) \/ OpenHeader(s) \/ CleanSegment(s) \/ SizeHeader(s)
      BY <2>2, <3>8 DEF CreatePidFile, OpenHeader, CleanSegment, SizeHeader
    <3>9. CASE CreateSegment(s) \/ BeginExit(s) \/ RemovePidFile(s)
      BY <2>2, <3>9 DEF CreateSegment, BeginExit, RemovePidFile
    <3>. QED BY <2>2, <3>2, <3>3, <3>4, <3>5, <3>6, <3>7, <3>8, <3>9 DEF Files
  <2>3. ASSUME NEW s \in Servers,
               TakeLock(s) \/ CloseLock(s) \/ Kill(s) \/ Fork(s) \/ ChildExits(s)
        PROVE  header' = header
    BY <2>3 DEF TakeLock, CloseLock, Kill, Fork, ChildExits
  <2>4. CASE Reboot
    BY <2>4 DEF Reboot
  <2>5. CASE OperatorRemovesHeader
    BY <1>1, <2>5 DEF LockInv, TypeOK, HeaderInv, Headers, OperatorRemovesHeader, Passes
  <2>. QED BY <1>1, <2>1, <2>2, <2>3, <2>4, <2>5, Cases
<1>2. ASSUME UNCHANGED vars PROVE Remembers
  BY <1>2 DEF vars
<1>3. LockInv /\ [Next]_vars => [Remembers]_vars
  BY <1>1, <1>2
<1>. QED BY <1>3, LockInvariant, PTL DEF Spec, SegmentsAreNotForgotten

(* No start on a copy of a directory destroys a segment of the original.   *)
THEOREM CopiesAreHarmless == Spec => ForeignSegmentIsSpared
<1> DEFINE Spares == Elsewhere \in segments => Elsewhere \in segments' \/ Reboot
<1>1. ASSUME LockInv, Next PROVE Spares
  <2> USE LockAssumption
  <2>1. ASSUME NEW s \in Servers, Files(s), segments' # segments PROVE Spares
    <3>1. CASE CleanSegment(s)
      <4>1. header.home = "this"
        BY <1>1, <3>1 DEF LockInv, PhaseInv, Made, CleanSegment, At
      <4>2. header.dsm # Elsewhere
        BY <1>1, <4>1 DEF LockInv, HeaderInv
      <4>. QED BY <3>1, <4>2 DEF CleanSegment
    <3>2. CASE CreateSegment(s) \/ DestroySegment(s)
      BY <3>2 DEF CreateSegment, DestroySegment
    <3>3. CASE CreatePidFile(s) \/ OpenHeader(s) \/ UnlinkHeader(s) \/ CreateHeader(s)
      BY <2>1, <3>3 DEF CreatePidFile, OpenHeader, UnlinkHeader, CreateHeader
    <3>4. CASE SizeHeader(s) \/ SizeHeaderFails(s) \/ FillHeader(s) \/ RecordSegment(s)
      BY <2>1, <3>4 DEF SizeHeader, SizeHeaderFails, FillHeader, RecordSegment
    <3>5. CASE BeginExit(s) \/ DeleteHeader(s) \/ RemovePidFile(s)
      BY <2>1, <3>5 DEF BeginExit, DeleteHeader, RemovePidFile
    <3>. QED BY <2>1, <3>1, <3>2, <3>3, <3>4, <3>5 DEF Files
  <2>2. ASSUME NEW s \in Servers,
               TakeLock(s) \/ CloseLock(s) \/ Kill(s) \/ Fork(s) \/ ChildExits(s)
        PROVE  segments' = segments
    BY <2>2 DEF TakeLock, CloseLock, Kill, Fork, ChildExits
  <2>3. OperatorRemovesHeader => segments' = segments
    BY DEF OperatorRemovesHeader
  <2>. QED BY <1>1, <2>1, <2>2, <2>3, Cases
<1>2. ASSUME UNCHANGED vars PROVE Spares
  BY <1>2 DEF vars
<1>3. LockInv /\ [Next]_vars => [Spares]_vars
  BY <1>1, <1>2
<1>. QED BY <1>3, LockInvariant, PTL DEF Spec, ForeignSegmentIsSpared

=============================================================================
