---------------------------- MODULE ThreadProofs ----------------------------
(***************************************************************************)
(* Three components that are correct or not by the order in which threads  *)
(* run: the vCPU threads of a VM (VcpuThreads), the workers of a virtio    *)
(* device (VirtioWorkers) and the calls of the remote controller           *)
(* (SandboxController).  They share no state: each has its own section and *)
(* its own inductive invariant.                                            *)
(*                                                                         *)
(* For any number of vCPUs and whatever happens: a vCPU has one thread at  *)
(* most, one thread at a time is inside vcpu_states, and a pause stops     *)
(* every vCPU that was not about to clear the flag of the last pause.      *)
(***************************************************************************)
EXTENDS VcpuThreads, VirtioWorkers, SandboxController, TLAPS

(* Zenon settles most steps at once; the others get more than the default. *)
USE ZenonT(3), SMTT(20), ZenonT(20)

(* Where a vCPU thread holds the lock, and where the manager does. *)
EjectPCs == {"eject_wait", "eject_join", "eject_done"}
LockPCs  == {"resumed", "wait", "paused", "join"}

Types == /\ pc \in [VCpus -> PCs] /\ active \in [VCpus -> BOOLEAN]
         /\ mpc \in LockPCs \cup {"idle", "unpause", "unpark", "signal", "lock", "clock",
                                  "lockpaused", "lockjoin"}

(* The mutex of vcpu_states: remove_vcpu keeps it while it waits for the   *)
(* thread of the removed vCPU, resume while it waits for the vCPUs to      *)
(* leave the pause, signal_vcpus and shutdown while they wait.  At most    *)
(* one of them is in such a place.                                         *)
LockExclusive ==
  /\ \A v \in VCpus : pc[v] \in EjectPCs => lock = v
  /\ mpc \in LockPCs => lock = Manager

(* The operations that signal the vCPUs. *)
Signallers ==
  /\ mpc = "unpause" => op = "shutdown"
  /\ mpc = "unpark" => op \in {"resume", "shutdown"}
  /\ mpc \in {"signal", "lock", "wait"} => op \in {"pause", "nmi", "shutdown"}

IInv == Types /\ LockExclusive /\ NoOrphanThread /\ Signallers

-----------------------------------------------------------------------------
(* A signal takes a thread out of the guest and does nothing else. *)
LEMMA SignalKeeps ==
  ASSUME NEW v, Types
  PROVE  /\ AfterSignal(v) \in [VCpus -> PCs]
         /\ \A u \in VCpus : \/ AfterSignal(v)[u] = pc[u]
                             \/ active[u] /\ AfterSignal(v)[u] = "post"
BY DEF AfterSignal, Types, PCs, Running

(* The steps of a vCPU thread. *)
LEMMA VcpuKeeps ==
  ASSUME IInv, NEW v \in VCpus, VcpuStep(v) \/ GuestStep(v)
  PROVE  IInv'
<1> USE VcpuConstants, SignalKeeps
    DEF IInv, Types, LockExclusive, NoOrphanThread, Signallers, EjectPCs, LockPCs, PCs, Running,
        VCpus, Manager, Nobody, Goto, states, mgr
<1>1. CASE Top(v)
  BY <1>1 DEF Top, Go
<1>2. CASE Ack(v)
  BY <1>2 DEF Ack
<1>3. CASE MarkPaused(v)
  BY <1>3 DEF MarkPaused
<1>4. CASE CheckPause(v)
  BY <1>4 DEF CheckPause, Go
<1>5. CASE Unparked(v)
  BY <1>5 DEF Unparked
<1>6. CASE UnmarkPaused(v)
  BY <1>6 DEF UnmarkPaused
<1>7. CASE Unack(v)
  BY <1>7 DEF Unack
<1>8. CASE Kick(v)
  BY <1>8 DEF Kick
<1>9. CASE PreRun(v)
  BY <1>9 DEF PreRun, KillCheck
<1>10. CASE PostRun(v)
  BY <1>10 DEF PostRun, KillCheck
<1>11. CASE EnterGuest(v)
  BY <1>11 DEF EnterGuest, Go
<1>12. CASE ControllerRead(v)
  BY <1>12 DEF ControllerRead, Go
<1>13. CASE RemoveVcpu(v)
  BY <1>13, SMTT(30) DEF RemoveVcpu, AfterSignal
<1>14. CASE RemovalAcknowledged(v)
  BY <1>14 DEF RemovalAcknowledged, Go
<1>15. CASE RemovalSignalled(v)
  BY <1>15 DEF RemovalSignalled, AfterSignal
<1>16. CASE RemovalTimesOut(v)
  BY <1>16 DEF RemovalTimesOut, Go
<1>17. CASE RemovalJoins(v)
  BY <1>17 DEF RemovalJoins
<1>18. CASE RemovalDone(v)
  BY <1>18 DEF RemovalDone
<1>19. CASE GuestExit(v)
  BY <1>19 DEF GuestExit, Go
<1>20. CASE GuestAccess(v)
  BY <1>20 DEF GuestAccess, Go
<1>21. CASE GuestEnds(v)
  BY <1>21 DEF GuestEnds
<1>22. CASE GuestEjects(v)
  BY <1>22 DEF GuestEjects, Go
<1> QED BY <1>1, <1>2, <1>3, <1>4, <1>5, <1>6, <1>7, <1>8, <1>9, <1>10, <1>11, <1>12, <1>13, <1>14, <1>15, <1>16, <1>17, <1>18, <1>19, <1>20, <1>21, <1>22
        DEF VcpuStep, GuestStep

(* The steps of the manager. *)
LEMMA ManagerKeeps ==
  ASSUME IInv, Request \/ ManagerStep \/ SignalAgain
  PROVE  IInv'
<1> USE VcpuConstants, SignalKeeps
    DEF IInv, Types, LockExclusive, NoOrphanThread, Signallers, EjectPCs, LockPCs, PCs, Running,
        VCpus, Manager, Nobody, Idle
<1>1. CASE Pause
  BY <1>1 DEF Pause, Begin
<1>2. CASE Resume
  BY <1>2 DEF Resume, Begin
<1>3. CASE Nmi
  BY <1>3 DEF Nmi, Begin
<1>4. CASE Shutdown
  BY <1>4 DEF Shutdown, Begin
<1>5. CASE Shrink
  BY <1>5 DEF Shrink, mgr
<1>6. CASE Grow
  BY <1>6 DEF Grow, Goto, mgr, LastCpu
<1>7. CASE Unpause
  BY <1>7 DEF Unpause, At
<1>8. CASE UnparkThreads
  BY <1>8 DEF UnparkThreads, At
<1>9. CASE Resumed
  BY <1>9 DEF Resumed, Return, At
<1>10. CASE SignalThread
  BY <1>10 DEF SignalThread, At
<1>11. CASE LockForWait
  BY <1>11 DEF LockForWait, At
<1>12. CASE Acknowledged
  <2>1. lock = Manager /\ lock' = Nobody /\ UNCHANGED <<pc, active>>
    BY <1>12 DEF Acknowledged
  <2>2. \/ mpc' = "lock" /\ op' = op /\ mpc = "wait"
        \/ mpc' \in {"clock", "lockjoin", "idle"}
    BY <1>12 DEF Acknowledged, Return, At
  <2> QED BY <2>1, <2>2
<1>13. CASE SignalAgain
  BY <1>13 DEF SignalAgain, mgr
<1>14. CASE SignalTimesOut
  BY <1>14 DEF SignalTimesOut, Return, At
<1>15. CASE NotifyClock
  BY <1>15 DEF NotifyClock, At
<1>16. CASE LockForPaused
  BY <1>16 DEF LockForPaused, At
<1>17. CASE AllPaused
  BY <1>17 DEF AllPaused, Return, At
<1>18. CASE LockForJoin
  BY <1>18 DEF LockForJoin, At
<1>19. CASE AllJoined
  BY <1>19 DEF AllJoined, Return, At
<1>20. CASE PauseFails
  BY <1>20 DEF PauseFails, Return, At
<1> QED BY <1>1, <1>2, <1>3, <1>4, <1>5, <1>6, <1>7, <1>8, <1>9, <1>10, <1>11, <1>12, <1>13, <1>14, <1>15, <1>16, <1>17, <1>18, <1>19, <1>20
        DEF Request, ManagerStep

(* The invariant holds in every state. *)
THEOREM Inductive == Spec => []IInv
<1>1. Init => IInv
  BY DEF Init, IInv, Types, LockExclusive, NoOrphanThread, Signallers, EjectPCs, LockPCs, PCs, Running
<1>2. IInv /\ [Next]_vars => IInv'
  <2> SUFFICES ASSUME IInv, [Next]_vars PROVE IInv'
    OBVIOUS
  <2>1. CASE UNCHANGED vars
    BY <2>1 DEF vars, states, mgr, IInv, Types, LockExclusive, NoOrphanThread, Signallers
  <2> QED BY <2>1, VcpuKeeps, ManagerKeeps DEF Next
<1> QED BY <1>1, <1>2, PTL DEF Spec

(* A vCPU without a handle has no thread, for any number of vCPUs: a       *)
(* removal and a shutdown forget a handle only after the join.             *)
THEOREM NoOrphanThreadHolds == Spec => []NoOrphanThread
BY Inductive, PTL DEF IInv

(* No two threads are in a section of vcpu_states in which they wait for   *)
(* other threads.                                                          *)
THEOREM LockExclusiveHolds == Spec => []LockExclusive
BY Inductive, PTL DEF IInv

-----------------------------------------------------------------------------
(* The pause.  What a thread says with its paused flag: it is set only     *)
(* between mark and unmark.                                                *)
FlagTypes == paused \in [VCpus -> BOOLEAN]
FlagsOfPause == \A v \in VCpus : paused[v] => pc[v] \in {"check", "park", "unmark"}

(* Where the operations of the manager are. *)
OpPlaces ==
  /\ op = "none" <=> mpc = "idle"
  /\ op = "pause" => vm = "Running"
  /\ op = "resume" => vm = "Paused"
  /\ mpc = "resumed" => op = "resume"
  /\ mpc \in {"clock", "lockpaused", "paused"} => op = "pause"
  /\ mpc \in {"lockjoin", "join"} => op = "shutdown"

(* The manager is pausing the VM, or has: the flag is up, and only a vCPU  *)
(* that was leaving the last pause when this one began leaves one now.     *)
InPause == op = "pause" \/ (vm = "Paused" /\ op \in {"none", "nmi"})
NobodyLeaves == InPause => pause_signalled /\ \A v \in VCpus \ leaving : pc[v] # "unmark"

PauseInv == FlagTypes /\ FlagsOfPause /\ OpPlaces /\ NobodyLeaves /\ PausedStopsVcpus

(* A step of a vCPU thread leaves the manager and the shared flags alone.  *)
LEMMA VcpuFrame ==
  ASSUME NEW v \in VCpus, VcpuStep(v) \/ GuestStep(v)
  PROVE  UNCHANGED <<op, mpc, mi, vm, leaving, pause_signalled>>
BY DEF VcpuStep, GuestStep, Top, Ack, MarkPaused, CheckPause, Unparked, UnmarkPaused, Unack, Kick, PreRun, PostRun, EnterGuest, ControllerRead, RemoveVcpu, RemovalAcknowledged, RemovalSignalled, RemovalTimesOut, RemovalJoins, RemovalDone, GuestExit, GuestAccess, GuestEnds, GuestEjects,
       Go, KillCheck, flags, mgr

(* What it does to the places and the flags of the threads: another thread *)
(* is at most made to leave KVM_RUN, and the thread itself moves along the *)
(* loop, into the pause by the flag and out of it when the flag is down.   *)
LEMMA VcpuMoves ==
  ASSUME IInv, PauseInv, NEW v \in VCpus, VcpuStep(v) \/ GuestStep(v)
  PROVE  /\ FlagTypes'
         /\ \A u \in VCpus \ {v} :
              /\ paused'[u] = paused[u]
              /\ pc'[u] = pc[u] \/ (pc[u] = "guest" /\ pc'[u] = "post")
         /\ paused'[v] => pc'[v] \in {"check", "park", "unmark"}
         /\ pause_signalled => pc'[v] # "unmark"
         /\ pause_signalled /\ pc[v] \notin Running \cup {"unmark", "unack", "kick", "kill"} =>
              pc'[v] \in {"ack", "mark", "check", "park", "exited"}
<1> USE VcpuConstants DEF IInv, Types, PauseInv, FlagTypes, FlagsOfPause, PCs, Running,
        VCpus, Goto, states
<1>1. CASE Top(v)
  BY <1>1 DEF Top, Go
<1>2. CASE Ack(v)
  BY <1>2 DEF Ack
<1>3. CASE MarkPaused(v)
  BY <1>3 DEF MarkPaused
<1>4. CASE CheckPause(v)
  BY <1>4 DEF CheckPause, Go
<1>5. CASE Unparked(v)
  BY <1>5 DEF Unparked
<1>6. CASE UnmarkPaused(v)
  BY <1>6 DEF UnmarkPaused
<1>7. CASE Unack(v)
  BY <1>7 DEF Unack
<1>8. CASE Kick(v)
  BY <1>8 DEF Kick
<1>9. CASE PreRun(v)
  BY <1>9 DEF PreRun, KillCheck
<1>10. CASE PostRun(v)
  BY <1>10 DEF PostRun, KillCheck
<1>11. CASE EnterGuest(v)
  BY <1>11 DEF EnterGuest, Go
<1>12. CASE ControllerRead(v)
  BY <1>12 DEF ControllerRead, Go
<1>13. CASE RemoveVcpu(v)
  BY <1>13, SMTT(30) DEF RemoveVcpu, AfterSignal
<1>14. CASE RemovalAcknowledged(v)
  BY <1>14 DEF RemovalAcknowledged, Go
<1>15. CASE RemovalSignalled(v)
  BY <1>15 DEF RemovalSignalled, AfterSignal
<1>16. CASE RemovalTimesOut(v)
  BY <1>16 DEF RemovalTimesOut, Go
<1>17. CASE RemovalJoins(v)
  BY <1>17 DEF RemovalJoins
<1>18. CASE RemovalDone(v)
  BY <1>18 DEF RemovalDone
<1>19. CASE GuestExit(v)
  BY <1>19 DEF GuestExit, Go
<1>20. CASE GuestAccess(v)
  BY <1>20 DEF GuestAccess, Go
<1>21. CASE GuestEnds(v)
  BY <1>21 DEF GuestEnds
<1>22. CASE GuestEjects(v)
  BY <1>22 DEF GuestEjects, Go
<1> QED BY <1>1, <1>2, <1>3, <1>4, <1>5, <1>6, <1>7, <1>8, <1>9, <1>10, <1>11, <1>12, <1>13, <1>14, <1>15, <1>16, <1>17, <1>18, <1>19, <1>20, <1>21, <1>22
        DEF VcpuStep, GuestStep

LEMMA VcpuPauses ==
  ASSUME IInv, PauseInv, NEW v \in VCpus, VcpuStep(v) \/ GuestStep(v)
  PROVE  PauseInv'
<1>1. FlagTypes' /\ FlagsOfPause'
  BY VcpuMoves DEF PauseInv, FlagsOfPause
<1>2. OpPlaces'
  BY VcpuFrame DEF PauseInv, OpPlaces
<1>3. NobodyLeaves'
  BY VcpuFrame, VcpuMoves DEF PauseInv, NobodyLeaves, InPause
<1>4. PausedStopsVcpus'
  <2> SUFFICES ASSUME vm = "Paused", op \in {"none", "nmi"}, NEW u \in VCpus \ leaving
               PROVE  /\ pause_signalled
                      /\ pc'[u] \notin Running \cup {"unmark", "unack", "kick", "kill"}
    BY VcpuFrame DEF PauseInv, PausedStopsVcpus
  <2>1. pause_signalled /\ pc[u] \notin Running \cup {"unmark", "unack", "kick", "kill"}
    BY DEF PauseInv, PausedStopsVcpus
  <2>2. CASE u # v
    BY <2>1, <2>2, VcpuMoves DEF Running
  <2>3. CASE u = v
    BY <2>1, <2>3, VcpuMoves DEF Running
  <2> QED BY <2>2, <2>3
<1> QED BY <1>1, <1>2, <1>3, <1>4 DEF PauseInv

(* The manager's steps touch no flag of a thread, and move a thread only   *)
(* out of KVM_RUN, or to the top of the loop when it is started.           *)
LEMMA ManagerMoves ==
  ASSUME IInv, Request \/ ManagerStep \/ SignalAgain
  PROVE  /\ UNCHANGED paused
         /\ \A u \in VCpus : \/ pc'[u] = pc[u]
                             \/ pc[u] = "guest" /\ pc'[u] = "post"
                             \/ pc[u] = "exited" /\ pc'[u] = "top"
<1>1. UNCHANGED paused
  BY DEF Request, ManagerStep, Pause, Resume, Nmi, Shutdown, Shrink, Grow, Unpause, UnparkThreads, Resumed, SignalThread, LockForWait, Acknowledged, SignalAgain, SignalTimesOut, NotifyClock, LockForPaused, AllPaused, PauseFails, LockForJoin, AllJoined,
         Unchanged
<1>2. CASE UNCHANGED pc
  BY <1>1, <1>2
<1>3. CASE Grow
  BY <1>1, <1>3, VcpuConstants DEF Grow, Goto, LastCpu, VCpus, IInv, Types, NoOrphanThread
<1>4. CASE SignalThread \/ SignalAgain
  BY <1>1, <1>4 DEF SignalThread, SignalAgain, AfterSignal, IInv, Types
<1> QED BY <1>2, <1>3, <1>4
        DEF Request, ManagerStep, Pause, Resume, Nmi, Shutdown, Shrink, Unpause, UnparkThreads, Resumed, LockForWait, Acknowledged, SignalTimesOut, NotifyClock, LockForPaused, AllPaused, PauseFails, LockForJoin, AllJoined

LEMMA ManagerPlaces ==
  ASSUME IInv, OpPlaces, Request \/ ManagerStep \/ SignalAgain
  PROVE  OpPlaces'
<1> USE DEF IInv, Signallers, OpPlaces, Idle
<1>1. CASE Pause
  BY <1>1 DEF Pause, Begin
<1>2. CASE Resume
  BY <1>2 DEF Resume, Begin
<1>3. CASE Nmi
  BY <1>3 DEF Nmi, Begin
<1>4. CASE Shutdown
  BY <1>4 DEF Shutdown, Begin
<1>5. CASE Shrink
  BY <1>5 DEF Shrink, mgr, flags
<1>6. CASE Grow
  BY <1>6 DEF Grow, mgr, flags, Goto, LastCpu
<1>7. CASE Unpause
  BY <1>7 DEF Unpause, At
<1>8. CASE UnparkThreads
  BY <1>8 DEF UnparkThreads, At, flags
<1>9. CASE Resumed
  BY <1>9 DEF Resumed, Return, At, flags
<1>10. CASE SignalThread
  BY <1>10 DEF SignalThread, At, flags
<1>11. CASE LockForWait
  BY <1>11 DEF LockForWait, At, flags
<1>12. CASE Acknowledged
  BY <1>12 DEF Acknowledged, Return, At
<1>13. CASE SignalAgain
  BY <1>13 DEF SignalAgain, mgr, flags
<1>14. CASE SignalTimesOut
  BY <1>14 DEF SignalTimesOut, Return, At, flags
<1>15. CASE NotifyClock
  BY <1>15 DEF NotifyClock, At, flags
<1>16. CASE LockForPaused
  BY <1>16 DEF LockForPaused, At, flags
<1>17. CASE AllPaused
  BY <1>17 DEF AllPaused, Return, At, flags
<1>18. CASE LockForJoin
  BY <1>18 DEF LockForJoin, At, flags
<1>19. CASE AllJoined
  BY <1>19 DEF AllJoined, Return, At, flags
<1>20. CASE PauseFails
  BY <1>20 DEF PauseFails, Return, At, flags
<1> QED BY <1>1, <1>2, <1>3, <1>4, <1>5, <1>6, <1>7, <1>8, <1>9, <1>10, <1>11, <1>12, <1>13, <1>14, <1>15, <1>16, <1>17, <1>18, <1>19, <1>20
        DEF Request, ManagerStep

(* A pause begins and says who is leaving the last one. *)
LEMMA PauseBegins ==
  ASSUME Pause PROVE NobodyLeaves'
BY DEF Pause, Begin, NobodyLeaves

(* The steps of the manager that neither start nor end a pause. *)
LEMMA PauseGoesOn ==
  ASSUME IInv, PauseInv, Request \/ ManagerStep \/ SignalAgain,
         InPause' => InPause /\ leaving' = leaving /\ pause_signalled',
         vm' = "Paused" /\ op' \in {"none", "nmi"} => vm = "Paused" /\ op \in {"none", "nmi"}
  PROVE  NobodyLeaves' /\ PausedStopsVcpus'
<1>1. NobodyLeaves'
  BY ManagerMoves DEF PauseInv, NobodyLeaves
<1>2. PausedStopsVcpus'
  BY ManagerMoves DEF PauseInv, PausedStopsVcpus, InPause, Running
<1> QED BY <1>1, <1>2

LEMMA ManagerPauses ==
  ASSUME IInv, PauseInv, Request \/ ManagerStep \/ SignalAgain
  PROVE  PauseInv'
<1>1. FlagTypes' /\ FlagsOfPause'
  BY ManagerMoves DEF PauseInv, FlagTypes, FlagsOfPause
<1>2. OpPlaces'
  BY ManagerPlaces DEF PauseInv
<1>3. NobodyLeaves' /\ PausedStopsVcpus'
  <2>0. OpPlaces BY DEF PauseInv
  <2>00. NobodyLeaves BY DEF PauseInv
  <2>1. CASE Pause
    <3>1. op' = "pause" /\ vm' = "Running"
      BY <2>1 DEF Pause, Begin
    <3> QED BY <2>1, <3>1, PauseBegins DEF PausedStopsVcpus
  <2>2. CASE Nmi
    <3>1. op = "none" /\ op' = "nmi" /\ UNCHANGED <<vm, pause_signalled, leaving>>
      BY <2>0, <2>2 DEF Nmi, Begin, Idle, OpPlaces, IInv, Types
    <3> QED BY <2>00, <3>1, PauseGoesOn DEF InPause, NobodyLeaves
  <2>3. CASE Resume \/ Shutdown
    <3>1. op' \in {"resume", "shutdown"}
      BY <2>3 DEF Resume, Shutdown, Begin
    <3> QED BY <3>1 DEF InPause, NobodyLeaves, PausedStopsVcpus
  <2>4. CASE Unpause
    <3>1. op' = "shutdown"
      BY <2>4 DEF Unpause, At, IInv, Signallers
    <3> QED BY <3>1 DEF InPause, NobodyLeaves, PausedStopsVcpus
  <2>5. CASE Resumed \/ AllJoined
    <3>1. op' = "none" /\ vm' \in {"Running", "Shutdown"}
      BY <2>5 DEF Resumed, AllJoined, Return, At
    <3> QED BY <3>1 DEF InPause, NobodyLeaves, PausedStopsVcpus
  <2>6. CASE SignalTimesOut
    <3>1. /\ op' = "none" /\ UNCHANGED <<leaving, pause_signalled>>
          /\ vm' = IF op = "shutdown" THEN "Shutdown" ELSE vm
          /\ op \in {"pause", "nmi", "shutdown"}
      BY <2>6 DEF SignalTimesOut, Return, At, IInv, Signallers, flags
    <3> QED BY <2>0, <2>00, <3>1, PauseGoesOn DEF InPause, NobodyLeaves, OpPlaces
  <2>7. CASE Acknowledged
    <3>1. /\ UNCHANGED <<leaving, pause_signalled>> /\ op \in {"pause", "nmi", "shutdown"}
          /\ UNCHANGED <<op, vm>> \/ (op = "nmi" /\ op' = "none" /\ UNCHANGED vm)
      BY <2>7 DEF Acknowledged, Return, At, IInv, Signallers
    <3> QED BY <2>0, <2>00, <3>1, PauseGoesOn DEF InPause, NobodyLeaves, OpPlaces
  <2>8. CASE AllPaused
    <3>1. /\ op = "pause" /\ op' = "none" /\ vm' = "Paused" /\ UNCHANGED <<leaving, pause_signalled, pc>>
          /\ \A v \in VCpus : active[v] => paused[v]
      BY <2>0, <2>8 DEF AllPaused, Return, At, OpPlaces, flags
    <3>2. ASSUME NEW v \in VCpus \ leaving PROVE pc[v] \in {"check", "park", "exited"}
      BY <2>00, <3>1, <3>2 DEF PauseInv, FlagsOfPause, NobodyLeaves, InPause, IInv, NoOrphanThread, Types
    <3> QED BY <2>00, <3>1, <3>2 DEF InPause, NobodyLeaves, PausedStopsVcpus, Running
  <2>10. CASE PauseFails
    <3>1. op' = "none" /\ vm' = "Running"
      BY <2>0, <2>10 DEF PauseFails, Return, At, OpPlaces
    <3> QED BY <3>1 DEF InPause, NobodyLeaves, PausedStopsVcpus
  <2>9. CASE UNCHANGED <<op, vm, leaving, pause_signalled>>
    BY <2>00, <2>9, PauseGoesOn DEF InPause, NobodyLeaves
  <2> QED BY <2>1, <2>2, <2>3, <2>4, <2>5, <2>6, <2>7, <2>8, <2>9, <2>10
          DEF Request, ManagerStep, Shrink, Grow, UnparkThreads, SignalThread, LockForWait,
              SignalAgain, NotifyClock, LockForPaused, LockForJoin, At, flags, mgr
<1> QED BY <1>1, <1>2, <1>3 DEF PauseInv

(* While the VM is paused no vCPU runs guest code or can begin to, for any *)
(* number of vCPUs, whatever else happens: NMIs, failed pauses that are    *)
(* tried again, removal and addition of vCPUs, threads that end.  Excepted *)
(* are the vCPUs that were about to clear their paused flag when the pause *)
(* began.  The argument is about that flag, not about the acknowledgement, *)
(* which an old NMI can give.                                              *)
THEOREM PausedStops == Spec => []PausedStopsVcpus
<1>1. Init => PauseInv
  BY DEF Init, PauseInv, FlagTypes, FlagsOfPause, OpPlaces, NobodyLeaves, InPause, PausedStopsVcpus
<1>2. IInv /\ PauseInv /\ [Next]_vars => PauseInv'
  <2> SUFFICES ASSUME IInv, PauseInv, [Next]_vars PROVE PauseInv'
    OBVIOUS
  <2>1. CASE UNCHANGED vars
    BY <2>1 DEF vars, flags, states, mgr, PauseInv, FlagTypes, FlagsOfPause, OpPlaces, NobodyLeaves,
                InPause, PausedStopsVcpus
  <2> QED BY <2>1, VcpuPauses, ManagerPauses DEF Next
<1>3. PauseInv => PausedStopsVcpus
  BY DEF PauseInv
<1> QED BY <1>1, <1>2, <1>3, Inductive, PTL DEF Spec

-----------------------------------------------------------------------------
(* The pause protocol of a virtio device, for any number of workers.  The  *)
(* argument turns on the pause event, which stays signalled after the      *)
(* barrier until a worker drains it: until then every worker is in the     *)
(* part of the loop in which it parks, so none can take the event for a    *)
(* new pause.                                                              *)

(* A pause event that is left over finds every worker parking. *)
EventLeftOver ==
  pause_evt /\ device_pc # "barrier" => \A w \in Workers : worker_pc[w] \in {"check", "park", "drain"}

(* The flag and what the thread that holds the mutex does. *)
FlagOfCaller ==
  /\ device_pc \in {"write", "barrier"} => device_paused
  /\ device_pc \in {"unpark", "notify", "kill", "join"} => ~device_paused

NoWorkers == ~activated => device_pc \notin {"write", "barrier"} /\ \A w \in Workers : worker_pc[w] = "none"

(* The part of TypeOK the argument needs. *)
DevTypes == device_paused \in BOOLEAN /\ pause_evt \in BOOLEAN /\ activated \in BOOLEAN
         /\ worker_pc \in [Workers -> WorkerPCs]

DevInv == /\ DevTypes /\ EventLeftOver /\ FlagOfCaller /\ NoWorkers
        /\ BarrierForPause /\ QuietWhenPaused

(* The steps of the workers keep it. *)
LEMMA WorkerKeeps ==
  ASSUME DevInv, NEW w \in Workers, WorkerStep(w) \/ HandlerFails(w) \/ Notify(w)
  PROVE  DevInv'
<1> USE DEF DevInv, DevTypes, WorkerPCs, EventLeftOver, FlagOfCaller, NoWorkers, BarrierForPause, QuietWhenPaused,
            WorkerGoto, Device, events
<1>1. CASE ParkAtStart(w)
  <2>1. CASE worker_pc[w] = "start"
    <3>1. CASE device_paused
      BY <1>1, <2>1, <3>1 DEF ParkAtStart, Parks, WorkerGo
    <3>2. CASE ~device_paused
      BY <1>1, <2>1, <3>2 DEF ParkAtStart, Parks, WorkerGo
    <3> QED BY <3>1, <3>2
  <2>2. CASE worker_pc[w] = "startpark"
    BY <1>1, <2>2 DEF ParkAtStart, Parks, WorkerGo
  <2> QED BY <1>1, <2>1, <2>2 DEF ParkAtStart, Parks, WorkerGo
<1>2. CASE ParkInPause(w)
  <2>1. CASE worker_pc[w] = "check"
    <3>1. CASE device_paused
      BY <1>2, <2>1, <3>1 DEF ParkInPause, Parks, WorkerGo
    <3>2. CASE ~device_paused
      BY <1>2, <2>1, <3>2 DEF ParkInPause, Parks, WorkerGo
    <3> QED BY <3>1, <3>2
  <2>2. CASE worker_pc[w] = "park"
    BY <1>2, <2>2 DEF ParkInPause, Parks, WorkerGo
  <2> QED BY <1>2, <2>1, <2>2 DEF ParkInPause, Parks, WorkerGo
<1>3. CASE KillEvent(w)
  BY <1>3 DEF KillEvent, WorkerGo
<1>4. CASE PauseEvent(w)
  BY <1>4 DEF PauseEvent, WorkerGo
<1>5. CASE QueueEvent(w)
  BY <1>5 DEF QueueEvent
<1>6. CASE Handled(w) \/ HandlerFails(w)
  BY <1>6 DEF Handled, HandlerFails, WorkerGo
<1>7. CASE DrainPauseEvent(w)
  BY <1>7 DEF DrainPauseEvent
<1>8. CASE Notify(w)
  BY <1>8 DEF Notify
<1> QED BY <1>1, <1>2, <1>3, <1>4, <1>5, <1>6, <1>7, <1>8 DEF WorkerStep

(* So do the calls of the device. *)
LEMMA DeviceKeeps ==
  ASSUME DevInv, Activate \/ PauseDevice \/ ResumeDevice \/ Reset \/ DeviceStep
  PROVE  DevInv'
<1> USE DEF DevInv, DevTypes, WorkerPCs, EventLeftOver, FlagOfCaller, NoWorkers, BarrierForPause, QuietWhenPaused,
            events
<1>1. CASE Activate
  BY <1>1 DEF Activate
<1>2. CASE PauseDevice
  <2>1. CASE activated
    BY <1>2, <2>1 DEF PauseDevice
  <2>2. CASE ~activated
    BY <1>2, <2>2 DEF PauseDevice
  <2> QED BY <2>1, <2>2
<1>3. CASE ResumeDevice \/ Reset
  <2>1. device_pc = "idle" /\ device_pc' = "unpark" /\ device_paused' = FALSE /\ UNCHANGED <<events, activated, worker_pc>>
    BY <1>3 DEF ResumeDevice, Reset
  <2> QED BY <2>1
<1>4. CASE WritePauseEvent
  BY <1>4 DEF WritePauseEvent
<1>5. CASE Barrier
  BY <1>5 DEF Barrier
<1>6. CASE Unpark \/ NotifyQueues
  BY <1>6 DEF Unpark, NotifyQueues
<1>7. CASE Kill
  BY <1>7 DEF Kill
<1>8. CASE Join
  BY <1>8 DEF Join
<1> QED BY <1>1, <1>2, <1>3, <1>4, <1>5, <1>6, <1>7, <1>8 DEF DeviceStep

(* The invariant holds in every state of every device. *)
THEOREM DevInductive == WorkersSpec => []DevInv
<1>1. WorkersInit => DevInv
  BY DEF WorkersInit, DevInv, DevTypes, WorkerPCs, EventLeftOver, FlagOfCaller, NoWorkers, BarrierForPause, QuietWhenPaused
<1>2. DevInv /\ [WorkersNext]_device_vars => DevInv'
  <2> SUFFICES ASSUME DevInv, [WorkersNext]_device_vars PROVE DevInv'
    OBVIOUS
  <2>1. CASE UNCHANGED device_vars
    BY <2>1 DEF device_vars, events, DevInv, DevTypes, WorkerPCs, EventLeftOver, FlagOfCaller, NoWorkers,
                BarrierForPause, QuietWhenPaused
  <2> QED BY <2>1, WorkerKeeps, DeviceKeeps DEF WorkersNext
<1> QED BY <1>1, <1>2, PTL DEF WorkersSpec

(* Once pause has returned no worker serves a queue, however many workers  *)
(* the device has and whenever they were interrupted.                      *)
THEOREM QuietWhenPausedHolds == WorkersSpec => []QuietWhenPaused
BY DevInductive, PTL DEF DevInv

(* A worker waits at the barrier only for the pause that is in progress.   *)
THEOREM BarrierForPauseHolds == WorkersSpec => []BarrierForPause
BY DevInductive, PTL DEF DevInv

-----------------------------------------------------------------------------
(* The safety of stopRecord (remote-controller/main.go), for any number of *)
(* calls, ids and records.  A call that has passed get keeps its record    *)
(* while others stop and remove it; what orders the stops is the Once, and *)
(* OnceInv says how.                                                       *)

CtlInv == ControllerTypeOK /\ OnceInv

(* Initially nothing is stopped and nobody is stopping anything. *)
LEMMA InitCtl == ControllerInit => CtlInv
BY ControllerConstants
   DEF ControllerInit, CtlInv, ControllerTypeOK, OnceInv, IdleCall, CallAt, Stopping, BodyPCs, CallKinds

(* What a call in progress holds. *)
LEMMA CallTypes ==
  ASSUME ControllerTypeOK, NEW c \in Calls, call[c].pc # "idle"
  PROVE  /\ call[c].rec \in Records /\ call[c].rec \in made
         /\ call[c].id \in Ids
BY DEF ControllerTypeOK

(* A call that moves on or returns keeps the type of call. *)
LEMMA MoveTypes ==
  ASSUME ControllerTypeOK, made' = made, NEW c \in Calls,
         \/ CallReturn(c)
         \/ call[c].pc # "idle" /\ \E label \in BodyPCs : CallGoto(c, label)
  PROVE  /\ call' \in [Calls -> [pc : BodyPCs \cup {"idle"}, op : CallKinds \cup {"none"},
                                 id : Ids \cup {"none"}, rec : Records \cup {NoRecord}]]
         /\ \A d \in Calls : call'[d].pc # "idle" => call'[d].rec \in made' /\ call'[d].id \in Ids
<1>1. CASE CallReturn(c)
  BY <1>1 DEF ControllerTypeOK, CallReturn, IdleCall
<1>2. CASE call[c].pc # "idle" /\ \E label \in BodyPCs : CallGoto(c, label)
  BY <1>2 DEF ControllerTypeOK, CallGoto
<1> QED BY <1>1, <1>2

(* stopRecord leaves by a return, or goes on to Shutdown's delete. *)
LEMMA AfterStopMoves ==
  ASSUME NEW c \in Calls, AfterStop(c)
  PROVE  CallReturn(c) \/ CallGoto(c, "delete")
BY DEF AfterStop

(* OnceInv does not depend on what calls outside stopRecord do: a step     *)
(* that takes one of them elsewhere outside, and changes neither a Once    *)
(* nor an exit nor a channel, preserves it.                                *)
LEMMA OutsideStep ==
  ASSUME CtlInv, NEW c \in Calls, UNCHANGED <<once, exits, stopped>>,
         \A d \in Calls \ {c} : call'[d] = call[d],
         call'[c].pc \notin {"mark", "close"}
  PROVE  OnceInv'
<1> USE DEF CallAt, Stopping
<1>1. \A d \in Calls : call'[d].pc \in {"mark", "close"} => call'[d] = call[d]
  OBVIOUS
<1>2. \A d \in Calls : CallAt(d, "mark")' => once'[call'[d].rec] = "running" /\ exits'[call'[d].rec] = 0
  BY <1>1 DEF CtlInv, OnceInv
<1>3. \A d \in Calls : CallAt(d, "close")' => once'[call'[d].rec] = "running" /\ exits'[call'[d].rec] = 1
  BY <1>1 DEF CtlInv, OnceInv
<1>4. \A d, e \in Calls, r \in Records : Stopping(d, r)' /\ Stopping(e, r)' => d = e
  BY <1>1 DEF CtlInv, OnceInv
<1> QED BY <1>2, <1>3, <1>4 DEF CtlInv, OnceInv

(* How Return and Goto change the calls. *)
LEMMA Moves ==
  ASSUME ControllerTypeOK, NEW c \in Calls
  PROVE  /\ CallReturn(c) => /\ \A d \in Calls \ {c} : call'[d] = call[d]
                         /\ call'[c].pc = "idle"
         /\ \A label : CallGoto(c, label) => /\ \A d \in Calls \ {c} : call'[d] = call[d]
                                         /\ call'[c].pc = label
                                         /\ call'[c].rec = call[c].rec
BY DEF ControllerTypeOK, CallReturn, CallGoto, IdleCall

(* Create touches no call; get starts one outside stopRecord. *)
LEMMA CreateStep == ASSUME CtlInv, NEW i \in Ids, Create(i) PROVE CtlInv'
<1>1. ControllerTypeOK' BY DEF CtlInv, ControllerTypeOK, Create
<1>2. OnceInv' BY DEF CtlInv, OnceInv, Create, CallAt, Stopping
<1> QED BY <1>1, <1>2 DEF CtlInv

LEMMA GetStep ==
  ASSUME CtlInv, NEW c \in Calls, NEW kind \in Ops, NEW i \in Ids, Get(c, kind, i)
  PROVE  CtlInv'
<1>1. kind \in CallKinds /\ sandboxes[i] \in made /\ made \subseteq Records
  BY ControllerConstants DEF CtlInv, ControllerTypeOK, Get
<1>2. call' = [call EXCEPT ![c] = [pc |-> kind, op |-> kind, id |-> i, rec |-> sandboxes[i]]]
  BY DEF Get
<1>3. ControllerTypeOK' BY <1>1, <1>2 DEF CtlInv, ControllerTypeOK, Get, BodyPCs, record
<1>4. call'[c].pc = kind /\ \A d \in Calls \ {c} : call'[d] = call[d]
  BY <1>2 DEF CtlInv, ControllerTypeOK
<1>5. OnceInv' BY <1>1, <1>4, OutsideStep DEF Get, record, CallKinds
<1> QED BY <1>3, <1>5 DEF CtlInv

(* The steps of Start, Update, Wait and the queries, and the delete of     *)
(* Shutdown.                                                               *)
LEMMA PlainStep ==
  ASSUME CtlInv, NEW c \in Calls,
         \/ Start(c) \/ Update(c) \/ Query(c) \/ Delete(c)
         \/ WaitStopped(c) \/ WaitCancelled(c) \/ WaitReply(c)
  PROVE  CtlInv'
<1> USE DEF record, CallAt
<1>0. ControllerTypeOK BY DEF CtlInv
<1>1. call[c].pc # "idle" /\ made' = made
  BY DEF Start, Update, Query, Delete, WaitStopped, WaitCancelled, WaitReply
<1>2. CallReturn(c) \/ CallGoto(c, "reply")
  BY DEF Start, Update, Query, Delete, WaitStopped, WaitCancelled, WaitReply
<1>3. call[c].rec \in Records /\ call[c].id \in Ids
  BY <1>0, <1>1, CallTypes
<1>4. /\ call' \in [Calls -> [pc : BodyPCs \cup {"idle"}, op : CallKinds \cup {"none"},
                              id : Ids \cup {"none"}, rec : Records \cup {NoRecord}]]
      /\ \A d \in Calls : call'[d].pc # "idle" => call'[d].rec \in made' /\ call'[d].id \in Ids
  BY <1>0, <1>1, <1>2, MoveTypes DEF BodyPCs
<1>5. ControllerTypeOK'
  BY <1>0, <1>1, <1>3, <1>4
  DEF ControllerTypeOK, Start, Update, Query, Delete, WaitStopped, WaitCancelled, WaitReply
<1>6. UNCHANGED <<once, exits, stopped>>
  BY DEF Start, Update, Query, Delete, WaitStopped, WaitCancelled, WaitReply
<1>7. /\ \A d \in Calls \ {c} : call'[d] = call[d]
      /\ call'[c].pc \notin {"mark", "close"}
  BY <1>0, <1>2 DEF ControllerTypeOK, CallReturn, CallGoto, IdleCall
<1>8. OnceInv' BY <1>6, <1>7, OutsideStep
<1> QED BY <1>5, <1>8 DEF CtlInv

(* The first call takes the Once; a later one finds it done. *)
LEMMA OnceDoStep == ASSUME CtlInv, NEW c \in Calls, OnceDo(c) PROVE CtlInv'
<1> DEFINE r == call[c].rec
<1>0. ControllerTypeOK BY DEF CtlInv
<1>1. call[c].pc \in {"stop", "shutdown"} /\ made' = made
  BY DEF OnceDo
<1>2. r \in Records BY <1>0, <1>1, CallTypes
<1>3. CASE once[r] = "new" /\ once' = [once EXCEPT ![r] = "running"] /\ CallGoto(c, "mark")
  <2>1. ControllerTypeOK'
    BY <1>0, <1>1, <1>2, <1>3, MoveTypes DEF ControllerTypeOK, OnceDo, BodyPCs
  <2>2. /\ \A d \in Calls \ {c} : call'[d] = call[d]
        /\ call'[c].pc = "mark" /\ call'[c].rec = r
    BY <1>0, <1>3, Moves
  <2>3. UNCHANGED <<exits, stopped>> BY DEF OnceDo
  <2>4. once'[r] = "running" /\ \A q \in Records \ {r} : once'[q] = once[q]
    BY <1>0, <1>2, <1>3 DEF ControllerTypeOK
  <2>5. exits[r] = 0 /\ ~stopped[r]
    BY <1>2, <1>3 DEF CtlInv, OnceInv
  <2>6. \A d \in Calls : ~Stopping(d, r)
    BY <1>3 DEF CtlInv, OnceInv, Stopping, CallAt
  <2>7. \A q \in Records :
          /\ once'[q] = "new" => exits'[q] = 0 /\ ~stopped'[q]
          /\ once'[q] = "running" => exits'[q] \in {0, 1} /\ ~stopped'[q]
          /\ once'[q] = "done" => exits'[q] = 1 /\ stopped'[q]
    BY <2>3, <2>4, <2>5 DEF CtlInv, OnceInv
  <2>8. \A d \in Calls :
          /\ CallAt(d, "mark")' => once'[call'[d].rec] = "running" /\ exits'[call'[d].rec] = 0
          /\ CallAt(d, "close")' => once'[call'[d].rec] = "running" /\ exits'[call'[d].rec] = 1
    <3> SUFFICES ASSUME NEW d \in Calls
                 PROVE  /\ CallAt(d, "mark")' => once'[call'[d].rec] = "running" /\ exits'[call'[d].rec] = 0
                        /\ CallAt(d, "close")' => once'[call'[d].rec] = "running" /\ exits'[call'[d].rec] = 1
      OBVIOUS
    <3>1. CASE d = c BY <3>1, <2>2, <2>3, <2>4, <2>5 DEF CallAt
    <3>2. CASE d # c
      <4>1. call[d].pc # "idle" => call[d].rec \in Records BY <1>0, CallTypes
      <4> QED BY <3>2, <4>1, <2>2, <2>3, <2>4, <2>6 DEF CtlInv, OnceInv, CallAt, Stopping
    <3> QED BY <3>1, <3>2
  <2>9. \A d, e \in Calls, q \in Records : Stopping(d, q)' /\ Stopping(e, q)' => d = e
    <3>1. \A d, e \in Calls, q \in Records : Stopping(d, q) /\ Stopping(e, q) => d = e
      BY DEF CtlInv, OnceInv
    <3> QED BY <3>1, <2>2, <2>6 DEF Stopping, CallAt
  <2> QED BY <2>1, <2>7, <2>8, <2>9 DEF CtlInv, OnceInv
<1>4. CASE once[r] = "done" /\ UNCHANGED once /\ AfterStop(c)
  <2>1. CallReturn(c) \/ CallGoto(c, "delete") BY <1>4, AfterStopMoves
  <2>2. ControllerTypeOK'
    BY <1>0, <1>1, <1>4, <2>1, MoveTypes DEF ControllerTypeOK, OnceDo, BodyPCs
  <2>3. OnceInv'
    <3>1. /\ \A d \in Calls \ {c} : call'[d] = call[d]
          /\ call'[c].pc \notin {"mark", "close"}
      BY <1>0, <2>1 DEF ControllerTypeOK, CallReturn, CallGoto, IdleCall
    <3>2. UNCHANGED <<once, exits, stopped>> BY <1>4 DEF OnceDo
    <3> QED BY <3>1, <3>2, OutsideStep
  <2> QED BY <2>2, <2>3 DEF CtlInv
<1> QED BY <1>3, <1>4 DEF OnceDo

(* The one call inside records the exit. *)
LEMMA MarkStep == ASSUME CtlInv, NEW c \in Calls, Mark(c) PROVE CtlInv'
<1> DEFINE r == call[c].rec
<1>0. ControllerTypeOK BY DEF CtlInv
<1>1. call[c].pc = "mark" /\ made' = made BY DEF Mark, CallAt
<1>2. r \in Records BY <1>0, <1>1, CallTypes
<1>3. CallGoto(c, "close") BY DEF Mark
<1>4. once[r] = "running" /\ exits[r] = 0 /\ ~stopped[r]
  BY <1>1, <1>2 DEF CtlInv, OnceInv, CallAt
<1>5. exits'[r] = 1 /\ \A q \in Records \ {r} : exits'[q] = exits[q]
  BY <1>0, <1>2, <1>4 DEF ControllerTypeOK, Mark
<1>6. UNCHANGED <<once, stopped>> BY DEF Mark
<1>7. ControllerTypeOK'
  <2>1. /\ state' \in [Records -> {"SANDBOX_READY", "SANDBOX_NOTREADY"}]
        /\ exits' \in [Records -> Nat]
    BY <1>0, <1>2, <1>4 DEF ControllerTypeOK, Mark
  <2>2. UNCHANGED <<sandboxes, made, started, updated, once, stopped, server>>
    BY DEF Mark
  <2> QED BY <1>0, <1>1, <1>3, <2>1, <2>2, MoveTypes DEF ControllerTypeOK, BodyPCs
<1>8. /\ \A d \in Calls \ {c} : call'[d] = call[d]
      /\ call'[c].pc = "close" /\ call'[c].rec = r
  BY <1>0, <1>3, Moves
<1>9. \A d \in Calls \ {c} : ~Stopping(d, r)
  BY <1>1, <1>2 DEF CtlInv, OnceInv, Stopping
<1>10. \A q \in Records :
         /\ once'[q] = "new" => exits'[q] = 0 /\ ~stopped'[q]
         /\ once'[q] = "running" => exits'[q] \in {0, 1} /\ ~stopped'[q]
         /\ once'[q] = "done" => exits'[q] = 1 /\ stopped'[q]
  BY <1>4, <1>5, <1>6 DEF CtlInv, OnceInv
<1>11. \A d \in Calls :
         /\ CallAt(d, "mark")' => once'[call'[d].rec] = "running" /\ exits'[call'[d].rec] = 0
         /\ CallAt(d, "close")' => once'[call'[d].rec] = "running" /\ exits'[call'[d].rec] = 1
  <2> SUFFICES ASSUME NEW d \in Calls
               PROVE  /\ CallAt(d, "mark")' => once'[call'[d].rec] = "running" /\ exits'[call'[d].rec] = 0
                      /\ CallAt(d, "close")' => once'[call'[d].rec] = "running" /\ exits'[call'[d].rec] = 1
    OBVIOUS
  <2>1. CASE d = c BY <2>1, <1>4, <1>5, <1>6, <1>8 DEF CallAt
  <2>2. CASE d # c
    <3>1. call[d].pc # "idle" => call[d].rec \in Records BY <1>0, CallTypes
    <3> QED BY <2>2, <3>1, <1>5, <1>6, <1>8, <1>9 DEF CtlInv, OnceInv, CallAt, Stopping
  <2> QED BY <2>1, <2>2
<1>12. \A d, e \in Calls, q \in Records : Stopping(d, q)' /\ Stopping(e, q)' => d = e
  <2>1. \A d, e \in Calls, q \in Records : Stopping(d, q) /\ Stopping(e, q) => d = e
    BY DEF CtlInv, OnceInv
  <2> QED BY <2>1, <1>8, <1>9 DEF Stopping, CallAt
<1> QED BY <1>7, <1>10, <1>11, <1>12 DEF CtlInv, OnceInv

(* ... and closes the channel. *)
LEMMA CloseStep == ASSUME CtlInv, NEW c \in Calls, Close(c) PROVE CtlInv'
<1> DEFINE r == call[c].rec
<1>0. ControllerTypeOK BY DEF CtlInv
<1>1. call[c].pc = "close" /\ made' = made BY DEF Close, CallAt
<1>2. r \in Records BY <1>0, <1>1, CallTypes
<1>3. CallReturn(c) \/ CallGoto(c, "delete") BY AfterStopMoves DEF Close
<1>4. once[r] = "running" /\ exits[r] = 1
  BY <1>1 DEF CtlInv, OnceInv, CallAt
<1>5. /\ once'[r] = "done" /\ stopped'[r] = TRUE
      /\ \A q \in Records \ {r} : once'[q] = once[q] /\ stopped'[q] = stopped[q]
  BY <1>0, <1>2 DEF ControllerTypeOK, Close
<1>6. UNCHANGED exits BY DEF Close
<1>7. ControllerTypeOK'
  BY <1>0, <1>1, <1>2, <1>3, MoveTypes DEF ControllerTypeOK, Close, BodyPCs
<1>8. /\ \A d \in Calls \ {c} : call'[d] = call[d]
      /\ call'[c].pc \notin {"mark", "close"}
  BY <1>0, <1>3 DEF ControllerTypeOK, CallReturn, CallGoto, IdleCall
<1>9. \A d \in Calls \ {c} : ~Stopping(d, r)
  BY <1>1, <1>2 DEF CtlInv, OnceInv, Stopping
<1>10. \A q \in Records :
         /\ once'[q] = "new" => exits'[q] = 0 /\ ~stopped'[q]
         /\ once'[q] = "running" => exits'[q] \in {0, 1} /\ ~stopped'[q]
         /\ once'[q] = "done" => exits'[q] = 1 /\ stopped'[q]
  BY <1>4, <1>5, <1>6 DEF CtlInv, OnceInv
<1>11. \A d \in Calls :
         /\ CallAt(d, "mark")' => once'[call'[d].rec] = "running" /\ exits'[call'[d].rec] = 0
         /\ CallAt(d, "close")' => once'[call'[d].rec] = "running" /\ exits'[call'[d].rec] = 1
  <2> SUFFICES ASSUME NEW d \in Calls, d # c
               PROVE  /\ CallAt(d, "mark")' => once'[call'[d].rec] = "running" /\ exits'[call'[d].rec] = 0
                      /\ CallAt(d, "close")' => once'[call'[d].rec] = "running" /\ exits'[call'[d].rec] = 1
    BY <1>8 DEF CallAt
  <2>1. call[d].pc # "idle" => call[d].rec \in Records BY <1>0, CallTypes
  <2>2. call'[d] = call[d] BY <1>8
  <2>3. /\ CallAt(d, "mark") => once[call[d].rec] = "running" /\ exits[call[d].rec] = 0
        /\ CallAt(d, "close") => once[call[d].rec] = "running" /\ exits[call[d].rec] = 1
    BY DEF CtlInv, OnceInv
  <2>4. CallAt(d, "mark") \/ CallAt(d, "close") => call[d].rec \in Records \ {r}
    BY <2>1, <1>9 DEF CallAt, Stopping
  <2> QED BY <2>2, <2>3, <2>4, <1>5, <1>6 DEF CallAt
<1>12. \A d, e \in Calls, q \in Records : Stopping(d, q)' /\ Stopping(e, q)' => d = e
  BY <1>8 DEF CtlInv, OnceInv, Stopping
<1> QED BY <1>7, <1>10, <1>11, <1>12 DEF CtlInv, OnceInv

(* The server's own steps touch neither records nor calls. *)
LEMMA ServerStep == ASSUME CtlInv, Signal \/ Drained \/ UNCHANGED controller_vars PROVE CtlInv'
<1>1. UNCHANGED <<sandboxes, record, call>> /\ server' \in {server, "draining", "stopped"}
  BY DEF Signal, Drained, controller_vars, record
<1>2. ControllerTypeOK' BY <1>1 DEF CtlInv, ControllerTypeOK, record
<1>3. OnceInv' BY <1>1 DEF CtlInv, OnceInv, record, CallAt, Stopping
<1> QED BY <1>2, <1>3 DEF CtlInv

(* Every step preserves the invariant. *)
LEMMA NextCtl == CtlInv /\ [ControllerNext]_controller_vars => CtlInv'
<1> SUFFICES ASSUME CtlInv, [ControllerNext]_controller_vars PROVE CtlInv'
  OBVIOUS
<1>1. CASE \E i \in Ids : Create(i) BY <1>1, CreateStep
<1>2. CASE \E c \in Calls, kind \in Ops, i \in Ids : Get(c, kind, i) BY <1>2, GetStep
<1>3. ASSUME NEW c \in Calls, Run(c) \/ WaitCancelled(c) PROVE CtlInv'
  BY <1>3, PlainStep, OnceDoStep, MarkStep, CloseStep DEF Run
<1>4. CASE Signal \/ Drained \/ UNCHANGED controller_vars BY <1>4, ServerStep
<1> QED BY <1>1, <1>2, <1>3, <1>4 DEF ControllerNext

(* The state of every record's Once, exit and channel agree, for any       *)
(* number of racing Stops and Shutdowns.                                   *)
THEOREM CtlInductive == ControllerSpec => []CtlInv
BY InitCtl, NextCtl, PTL DEF ControllerSpec

(* The exit is recorded once, before the channel that Wait selects on is   *)
(* closed: a Wait never reports an exit that has not been recorded.        *)
THEOREM ExitRecorded == ControllerSpec => []ExitBeforeClose
<1>1. CtlInv => ExitBeforeClose
  BY DEF CtlInv, ControllerTypeOK, OnceInv, ExitBeforeClose
<1> QED BY <1>1, CtlInductive, PTL

(* No two stops of a sandbox close its channel, so the server does not     *)
(* panic.                                                                  *)
THEOREM CloseSafe == ControllerSpec => []NeverClosedTwice
<1>1. CtlInv => NeverClosedTwice
  BY CallTypes DEF CtlInv, OnceInv, NeverClosedTwice, CallAt
<1> QED BY <1>1, CtlInductive, PTL

-----------------------------------------------------------------------------
(* Removal from the map.  Shutdown's delete names an id, not a record.  A  *)
(* record is never under another id than the one it was looked up by: what *)
(* the id stands for when the delete runs is the record the call stopped,  *)
(* or that record has left the map.                                        *)
DeleteAfterStop ==
  \A c \in Calls : CallAt(c, "delete") => call[c].op = "shutdown" /\ stopped[call[c].rec]
OneId == \A i, j \in Ids : sandboxes[i] = sandboxes[j] /\ sandboxes[i] # NoRecord => i = j
UnderItsId ==
  \A c \in Calls : call[c].pc # "idle" => \A j \in Ids : sandboxes[j] = call[c].rec => j = call[c].id

RemovalInv == DeleteAfterStop /\ OneId /\ UnderItsId

(* Nothing is in the map and no call is in progress. *)
LEMMA InitRemoval == ControllerInit => RemovalInv
BY DEF ControllerInit, RemovalInv, DeleteAfterStop, OneId, UnderItsId, CallAt, IdleCall

(* A step of one call that leaves the map alone and unstops nothing: the   *)
(* call ends, or it goes on with the same id and record, and comes to the  *)
(* delete only as a Shutdown whose record is stopped.                      *)
LEMMA RemovalMoves ==
  ASSUME CtlInv, RemovalInv, NEW c \in Calls, UNCHANGED sandboxes,
         \A r \in Records : stopped[r] => stopped'[r],
         \A d \in Calls \ {c} : call'[d] = call[d],
         \/ call'[c].pc = "idle"
         \/ /\ call[c].pc # "idle" /\ call'[c].op = call[c].op /\ call'[c].id = call[c].id
            /\ call'[c].rec = call[c].rec
            /\ call'[c].pc = "delete" => call[c].op = "shutdown" /\ stopped'[call[c].rec]
  PROVE  RemovalInv'
<1>1. DeleteAfterStop'
  <2> SUFFICES ASSUME NEW d \in Calls, call'[d].pc = "delete"
               PROVE  call'[d].op = "shutdown" /\ stopped'[call'[d].rec]
    BY DEF DeleteAfterStop, CallAt
  <2>1. CASE d = c BY <2>1
  <2>2. CASE d # c
    <3>1. call'[d] = call[d] /\ call[d].pc = "delete" BY <2>2
    <3>2. call[d].rec \in Records BY <3>1, CallTypes DEF CtlInv
    <3> QED BY <3>1, <3>2 DEF RemovalInv, DeleteAfterStop, CallAt
  <2> QED BY <2>1, <2>2
<1>2. OneId' BY DEF RemovalInv, OneId
<1>3. UnderItsId'
  <2> SUFFICES ASSUME NEW d \in Calls, call'[d].pc # "idle", NEW j \in Ids, sandboxes[j] = call'[d].rec
               PROVE  j = call'[d].id
    BY DEF UnderItsId
  <2>1. CASE d = c BY <2>1 DEF RemovalInv, UnderItsId
  <2>2. CASE d # c BY <2>2 DEF RemovalInv, UnderItsId
  <2> QED BY <2>1, <2>2
<1> QED BY <1>1, <1>2, <1>3 DEF RemovalInv

(* A new record is in no call and under no other id. *)
LEMMA CreateRemoval ==
  ASSUME CtlInv, RemovalInv, NEW i \in Ids, Create(i) PROVE RemovalInv'
<1>1. PICK r \in Records \ made : sandboxes' = [sandboxes EXCEPT ![i] = r]
  BY DEF Create
<1>2. UNCHANGED <<call, stopped>> BY DEF Create
<1>3. /\ sandboxes'[i] = r /\ \A j \in Ids \ {i} : sandboxes'[j] = sandboxes[j]
      /\ \A j \in Ids : sandboxes[j] # r /\ \A c \in Calls : call[c].pc # "idle" => call[c].rec # r
  BY <1>1, ControllerConstants DEF CtlInv, ControllerTypeOK
<1>4. DeleteAfterStop' BY <1>2 DEF RemovalInv, DeleteAfterStop, CallAt
<1>5. OneId' BY <1>3 DEF RemovalInv, OneId
<1>6. UnderItsId' BY <1>2, <1>3 DEF RemovalInv, UnderItsId
<1> QED BY <1>4, <1>5, <1>6 DEF RemovalInv

(* get: the record is under the id it is looked up by. *)
LEMMA GetRemoval ==
  ASSUME CtlInv, RemovalInv, NEW c \in Calls, NEW kind \in Ops, NEW i \in Ids, Get(c, kind, i)
  PROVE  RemovalInv'
<1>1. call' = [call EXCEPT ![c] = [pc |-> kind, op |-> kind, id |-> i, rec |-> sandboxes[i]]]
  BY DEF Get
<1>2. /\ call'[c].pc = kind /\ call'[c].id = i /\ call'[c].rec = sandboxes[i]
      /\ \A d \in Calls \ {c} : call'[d] = call[d]
  BY <1>1 DEF CtlInv, ControllerTypeOK
<1>3. UNCHANGED <<sandboxes, stopped>> /\ kind # "delete" /\ sandboxes[i] # NoRecord
  BY ControllerConstants DEF Get, record, CallKinds
<1>4. DeleteAfterStop' BY <1>2, <1>3 DEF RemovalInv, DeleteAfterStop, CallAt
<1>5. OneId' BY <1>3 DEF RemovalInv, OneId
<1>6. UnderItsId'
  <2> SUFFICES ASSUME NEW d \in Calls, call'[d].pc # "idle", NEW j \in Ids, sandboxes[j] = call'[d].rec
               PROVE  j = call'[d].id
    BY <1>3 DEF UnderItsId
  <2>1. CASE d = c BY <1>2, <1>3, <2>1 DEF RemovalInv, OneId
  <2>2. CASE d # c BY <1>2, <2>2 DEF RemovalInv, UnderItsId
  <2> QED BY <2>1, <2>2
<1> QED BY <1>4, <1>5, <1>6 DEF RemovalInv

(* The delete ends the call and puts no record under an id. *)
LEMMA DeleteRemoval == ASSUME CtlInv, RemovalInv, NEW c \in Calls, Delete(c) PROVE RemovalInv'
<1>1. call[c].pc = "delete" /\ call[c].id \in Ids
  BY CallTypes DEF Delete, CallAt, CtlInv
<1>2. /\ \A j \in Ids : sandboxes'[j] \in {NoRecord, sandboxes[j]}
      /\ call'[c].pc = "idle" /\ \A d \in Calls \ {c} : call'[d] = call[d]
      /\ UNCHANGED stopped
  BY <1>1 DEF Delete, CallReturn, record, IdleCall, CtlInv, ControllerTypeOK
<1>3. \A d \in Calls : call[d].pc # "idle" => call[d].rec # NoRecord
  BY ControllerConstants DEF CtlInv, ControllerTypeOK
<1>4. DeleteAfterStop' BY <1>2 DEF RemovalInv, DeleteAfterStop, CallAt
<1>5. OneId' BY <1>2 DEF RemovalInv, OneId
<1>6. UnderItsId' BY <1>2, <1>3 DEF RemovalInv, UnderItsId
<1> QED BY <1>4, <1>5, <1>6 DEF RemovalInv

(* Every step preserves it. *)
LEMMA NextRemoval ==
  ASSUME CtlInv, RemovalInv, [ControllerNext]_controller_vars PROVE RemovalInv'
<1>1. CASE \E i \in Ids : Create(i) BY <1>1, CreateRemoval
<1>2. CASE \E c \in Calls, kind \in Ops, i \in Ids : Get(c, kind, i) BY <1>2, GetRemoval
<1>3. ASSUME NEW c \in Calls, Run(c) \/ WaitCancelled(c) PROVE RemovalInv'
  <2>1. CASE Delete(c) BY <2>1, DeleteRemoval
  <2>2. CASE ~Delete(c)
    <3>1. /\ call \in [Calls -> [pc : BodyPCs \cup {"idle"}, op : CallKinds \cup {"none"},
                                  id : Ids \cup {"none"}, rec : Records \cup {NoRecord}]]
          /\ stopped \in [Records -> BOOLEAN]
          /\ \A r \in Records : once[r] = "done" => stopped[r]
      BY DEF CtlInv, ControllerTypeOK, OnceInv
    <3>2. UNCHANGED sandboxes /\ \A r \in Records : stopped[r] => stopped'[r]
      <4>1. UNCHANGED stopped \/ stopped' = [stopped EXCEPT ![call[c].rec] = TRUE]
        BY <1>3, <2>2
        DEF Run, Start, Update, Query, OnceDo, Mark, Close, WaitStopped, WaitReply, WaitCancelled, record
      <4>2. UNCHANGED sandboxes
        BY <1>3, <2>2
        DEF Run, Start, Update, Query, OnceDo, Mark, Close, WaitStopped, WaitReply, WaitCancelled, record
      <4> QED BY <3>1, <4>1, <4>2
    <3>3. \/ CallReturn(c)
          \/ CallGoto(c, "mark") /\ call[c].pc \in {"stop", "shutdown"}
          \/ CallGoto(c, "close") /\ call[c].pc = "mark"
          \/ CallGoto(c, "delete") /\ call[c].pc # "idle" /\ call[c].op = "shutdown" /\ stopped'[call[c].rec]
          \/ CallGoto(c, "reply") /\ call[c].pc = "wait"
      <4>1. CASE OnceDo(c)
        <5>1. call[c].rec \in Records BY <4>1, CallTypes DEF OnceDo, CtlInv
        <5> QED BY <4>1, <5>1, <3>1 DEF OnceDo, AfterStop
      <4>2. CASE Close(c)
        <5>1. call[c].rec \in Records BY <4>2, CallTypes DEF Close, CtlInv, CallAt
        <5>2. stopped'[call[c].rec] BY <4>2, <5>1, <3>1 DEF Close
        <5> QED BY <4>2, <5>2 DEF Close, AfterStop, CallAt
      <4>3. CASE Mark(c) BY <4>3 DEF Mark, CallAt
      <4>4. CASE WaitStopped(c) BY <4>4 DEF WaitStopped, CallAt
      <4> QED BY <1>3, <2>2, <4>1, <4>2, <4>3, <4>4
              DEF Run, Start, Update, Query, WaitReply, WaitCancelled
    <3>4. \/ call'[c].pc = "idle"
          \/ /\ call[c].pc # "idle" /\ call'[c].op = call[c].op /\ call'[c].id = call[c].id
             /\ call'[c].rec = call[c].rec
             /\ call'[c].pc = "delete" => call[c].op = "shutdown" /\ stopped'[call[c].rec]
      BY <3>1, <3>3 DEF CallReturn, CallGoto, IdleCall
    <3>5. \A d \in Calls \ {c} : call'[d] = call[d]
      BY <3>1, <3>3 DEF CallReturn, CallGoto
    <3> QED BY <3>2, <3>4, <3>5, RemovalMoves
  <2> QED BY <2>1, <2>2
<1>4. CASE Signal \/ Drained \/ UNCHANGED controller_vars
  <2>1. UNCHANGED <<sandboxes, stopped, call>>
    BY <1>4 DEF Signal, Drained, controller_vars, record
  <2> QED BY <2>1 DEF RemovalInv, DeleteAfterStop, OneId, UnderItsId, CallAt
<1> QED BY <1>1, <1>2, <1>3, <1>4 DEF ControllerNext

(* Only Create and Shutdown's delete change the map. *)
LEMMA MapChanges ==
  ASSUME CtlInv, [ControllerNext]_controller_vars, NEW i \in Ids, sandboxes[i] \notin {NoRecord, sandboxes'[i]}
  PROVE  \E c \in Calls : Delete(c) /\ call[c].id = i
<1>1. CASE \E j \in Ids : Create(j)
  BY <1>1 DEF Create, CtlInv, ControllerTypeOK
<1>2. ASSUME NEW c \in Calls, Delete(c) PROVE call[c].id = i
  BY <1>2 DEF Delete, CtlInv, ControllerTypeOK
<1>3. CASE UNCHANGED sandboxes
  BY <1>3
<1> QED BY <1>1, <1>2, <1>3 DEF ControllerNext, controller_vars, Get, Run, Start, Update, Query, OnceDo, Mark,
   Close, WaitStopped, WaitReply, WaitCancelled, Signal, Drained

(* A sandbox leaves the map only by the delete of a Shutdown that stopped  *)
(* it, or that stopped what the id stood for before and lost it to another *)
(* Shutdown, for any number of calls, overlapping or not, of sandboxes and *)
(* of records.                                                             *)
THEOREM RemovedStopped == ControllerSpec => RemovedIsStopped
<1>1. CtlInv /\ RemovalInv /\ [ControllerNext]_controller_vars => RemovalInv' BY NextRemoval
<1>2. CtlInv /\ RemovalInv /\ [ControllerNext]_controller_vars =>
        [\A i \in Ids : sandboxes[i] \notin {NoRecord, sandboxes'[i]} =>
           \E c \in Calls :
             /\ CallAt(c, "delete") /\ call'[c].pc = "idle"
             /\ call[c].op = "shutdown" /\ call[c].id = i /\ stopped[call[c].rec]
             /\ \/ sandboxes[i] = call[c].rec
                \/ \A j \in Ids : sandboxes[j] # call[c].rec]_controller_vars
  <2> SUFFICES ASSUME CtlInv, RemovalInv, [ControllerNext]_controller_vars,
                      NEW i \in Ids, sandboxes[i] \notin {NoRecord, sandboxes'[i]}
               PROVE  \E c \in Calls :
                        /\ CallAt(c, "delete") /\ call'[c].pc = "idle"
                        /\ call[c].op = "shutdown" /\ call[c].id = i /\ stopped[call[c].rec]
                        /\ \/ sandboxes[i] = call[c].rec
                           \/ \A j \in Ids : sandboxes[j] # call[c].rec
    OBVIOUS
  <2>1. PICK c \in Calls : Delete(c) /\ call[c].id = i
    BY MapChanges
  <2>2. CallAt(c, "delete") /\ call'[c].pc = "idle"
    BY <2>1 DEF Delete, CallReturn, IdleCall, CtlInv, ControllerTypeOK
  <2>3. call[c].op = "shutdown" /\ stopped[call[c].rec]
    BY <2>2 DEF RemovalInv, DeleteAfterStop
  <2>4. \A j \in Ids : sandboxes[j] = call[c].rec => j = i
    BY <2>1, <2>2 DEF RemovalInv, UnderItsId, CallAt
  <2> QED BY <2>1, <2>2, <2>3, <2>4
<1> QED BY <1>1, <1>2, InitRemoval, CtlInductive, PTL DEF ControllerSpec, RemovedIsStopped
=============================================================================
