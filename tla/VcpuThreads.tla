---------------------------- MODULE VcpuThreads ----------------------------
(***************************************************************************)
(* Pausing, resuming, interrupting and stopping the vCPU threads of a VM:  *)
(* CpuManager of cloud-hypervisor/vmm/src/cpu.rs, the loop of a vCPU       *)
(* thread, and the ACPI hotplug controller, which runs on vCPU threads and *)
(* shares the mutex of vcpu_states with the manager.                       *)
(*                                                                         *)
(* The guest decides when a vCPU leaves KVM_RUN by itself.  A signal makes *)
(* a thread that is in KVM_RUN leave it; the handler does nothing else, so *)
(* a signal that finds the thread in user space has no effect.             *)
(***************************************************************************)
EXTENDS Integers, FiniteSets

CONSTANTS
  NCpus,        (* vCPUs 0 .. NCpus - 1, all present at boot               *)
  Kinds         (* the sets of things that happen besides pause and resume *)

VCpus == 0 .. NCpus - 1
Nobody == -1
Manager == NCpus

(* "nmi": the NMI request.  "hotplug": the guest reads the CPU hotplug     *)
(* controller.  "resize": vCPUs are removed and added.  "exit": a vCPU     *)
(* thread ends because the guest resets, shuts down or KVM_RUN fails.      *)
AllOps == {"nmi", "hotplug", "resize", "exit"}

ASSUME VcpuConstants == NCpus \in Nat \ {0} /\ Kinds \subseteq SUBSET AllOps

VARIABLES
  ops,          (* what happens in this behaviour                          *)
  (* the flags shared by all threads *)
  pause_signalled, kick_signalled, kill_signalled,
  (* VcpuState, per vCPU *)
  kill,         (* the thread is to exit                                   *)
  interrupted,  (* vcpu_run_interrupted                                    *)
  paused,       (* the thread's acknowledgement of the pause               *)
  active,       (* there is a handle: the thread has not been joined       *)
  lock,         (* who holds vcpu_states: Nobody, Manager or a vCPU        *)
  (* the threads *)
  pc,           (* where a vCPU thread is                                  *)
  token,        (* the token of thread::park                               *)
  removing,     (* the vCPUs the guest has been asked to eject             *)
  (* the manager, on the VMM's thread *)
  op,           (* the operation in progress, or "none"                    *)
  mpc, mi,      (* where it is, and the vCPU its loop has reached          *)
  vm,           (* "Running", "Paused" or "Shutdown"                       *)
  stale,        (* history: the vCPUs that, when the last operation began, *)
                (* had interrupted set, by an NMI or an earlier pause, or  *)
                (* were in a pause that was over; and of the last pause,   *)
                (* while the VM is paused                                  *)
  leaving       (* history: the vCPUs that were about to clear their       *)
                (* paused flag when the last pause began                   *)

flags  == <<pause_signalled, kick_signalled, kill_signalled>>
states == <<kill, interrupted, paused, active>>
mgr    == <<op, mpc, mi, vm, stale, leaving>>
vars   == <<ops, flags, states, lock, pc, token, removing, mgr>>

(* Outside these places the thread does not hold the mutex of its vCPU.    *)
Running == {"entry", "guest", "mmio", "eject", "eject_wait", "eject_join", "eject_done", "post"}
PCs == {"top", "ack", "mark", "check", "park", "unmark", "unack", "kick", "kill", "exited"}
       \cup Running

TypeOK ==
  /\ ops \in Kinds
  /\ flags \in BOOLEAN \X BOOLEAN \X BOOLEAN
  /\ \A f \in {kill, interrupted, paused, active, token} : f \in [VCpus -> BOOLEAN]
  /\ lock \in {Nobody, Manager} \cup VCpus
  /\ pc \in [VCpus -> PCs]
  /\ removing \subseteq VCpus
  /\ op \in {"none", "pause", "resume", "nmi", "shutdown"}
  /\ mpc \in {"idle", "unpause", "unpark", "resumed", "signal", "lock", "wait", "clock",
              "lockpaused", "paused", "lockjoin", "join"}
  /\ mi \in 0 .. NCpus
  /\ vm \in {"Running", "Paused", "Shutdown"}
  /\ stale \subseteq VCpus /\ leaving \subseteq VCpus

Init ==
  /\ ops \in Kinds
  /\ pause_signalled = FALSE /\ kick_signalled = FALSE /\ kill_signalled = FALSE
  /\ kill = [v \in VCpus |-> FALSE]
  /\ interrupted = [v \in VCpus |-> FALSE]
  /\ paused = [v \in VCpus |-> FALSE]
  /\ active = [v \in VCpus |-> TRUE]
  /\ lock = Nobody
  /\ pc = [v \in VCpus |-> "top"]
  /\ token = [v \in VCpus |-> FALSE]
  /\ removing = {}
  /\ op = "none" /\ mpc = "idle" /\ mi = 0
  /\ vm = "Running"
  /\ stale = {} /\ leaving = {}

(* Where a vCPU thread is when it has seen the pause. *)
Stopped == {"ack", "mark", "check", "park", "exited"}

(* pthread_kill(SIGRTMIN). *)
AfterSignal(v) == [pc EXCEPT ![v] = IF active[v] /\ @ = "guest" THEN "post" ELSE @]

-----------------------------------------------------------------------------
(* The loop of a vCPU thread *)

Goto(v, label) == pc' = [pc EXCEPT ![v] = label]

(* A step of v that only moves on. *)
Go(v, from, to) ==
  /\ pc[v] = from
  /\ Goto(v, to)
  /\ UNCHANGED <<ops, flags, states, lock, token, removing, mgr>>

(* The pause check.  KVM_RUN with immediate_exit completes a pending exit; *)
(* if it returns anything else the loop ends, and nothing is acknowledged. *)
Top(v) ==
  \/ Go(v, "top", IF pause_signalled THEN "ack" ELSE "kick")
  \/ pause_signalled /\ "exit" \in ops /\ Go(v, "top", "exited")
Ack(v) ==
  /\ pc[v] = "ack" /\ Goto(v, "mark")
  /\ interrupted' = [interrupted EXCEPT ![v] = TRUE]
  /\ UNCHANGED <<ops, flags, kill, paused, active, lock, token, removing, mgr>>
MarkPaused(v) ==
  /\ pc[v] = "mark" /\ Goto(v, "check")
  /\ paused' = [paused EXCEPT ![v] = TRUE]
  /\ UNCHANGED <<ops, flags, kill, interrupted, active, lock, token, removing, mgr>>

(* while pause_signalled { park() } *)
CheckPause(v) == Go(v, "check", IF pause_signalled THEN "park" ELSE "unmark")
Unparked(v) ==
  /\ pc[v] = "park" /\ token[v]
  /\ token' = [token EXCEPT ![v] = FALSE]
  /\ Goto(v, "check")
  /\ UNCHANGED <<ops, flags, states, lock, removing, mgr>>

UnmarkPaused(v) ==
  /\ pc[v] = "unmark" /\ Goto(v, "unack")
  /\ paused' = [paused EXCEPT ![v] = FALSE]
  /\ UNCHANGED <<ops, flags, kill, interrupted, active, lock, token, removing, mgr>>
Unack(v) ==
  /\ pc[v] = "unack" /\ Goto(v, "kick")
  /\ interrupted' = [interrupted EXCEPT ![v] = FALSE]
  /\ UNCHANGED <<ops, flags, kill, paused, active, lock, token, removing, mgr>>

(* An NMI is injected, or the loop ends because it cannot be; interrupted  *)
(* stays set until the next pause ends.                                    *)
Kick(v) ==
  /\ pc[v] = "kick"
  /\ Goto(v, "kill") \/ (kick_signalled /\ Goto(v, "exited"))
  /\ interrupted' = [interrupted EXCEPT ![v] = @ \/ kick_signalled]
  /\ UNCHANGED <<ops, flags, kill, paused, active, lock, token, removing, mgr>>

(* The two checks of the kill flags, before and after the run. *)
KillCheck(v, from, to) ==
  /\ pc[v] = from
  /\ Goto(v, IF kill_signalled \/ kill[v] THEN "exited" ELSE to)
  /\ interrupted' = [interrupted EXCEPT ![v] = @ \/ kill_signalled \/ kill[v]]
  /\ UNCHANGED <<ops, flags, kill, paused, active, lock, token, removing, mgr>>
PreRun(v) == KillCheck(v, "kill", "entry")
PostRun(v) == KillCheck(v, "post", "top")

(* KVM_RUN, and the exits the guest causes. *)
EnterGuest(v) == Go(v, "entry", "guest")
GuestExit(v) == Go(v, "guest", "post")
GuestAccess(v) == "hotplug" \in ops /\ Go(v, "guest", "mmio")
GuestEnds(v) ==
  /\ "exit" \in ops
  /\ pc[v] = "guest" /\ Goto(v, "exited")
  /\ interrupted' = [interrupted EXCEPT ![v] = TRUE]
  /\ UNCHANGED <<ops, flags, kill, paused, active, lock, token, removing, mgr>>
GuestEjects(v) == removing \ {v} # {} /\ Go(v, "guest", "eject")

(* The hotplug controller, under the lock; remove_vcpu keeps it until the  *)
(* thread of the removed vCPU has ended.                                   *)
ControllerRead(v) == lock = Nobody /\ Go(v, "mmio", "post")
EjectedCpu == CHOOSE w \in removing : TRUE
RemoveVcpu(v) ==
  /\ pc[v] = "eject" /\ lock = Nobody
  /\ lock' = v
  /\ IF removing = {}
       THEN Goto(v, "eject_done") /\ UNCHANGED kill
       ELSE /\ kill' = [kill EXCEPT ![EjectedCpu] = TRUE]
            /\ pc' = [AfterSignal(EjectedCpu) EXCEPT ![v] = "eject_wait"]
  /\ UNCHANGED <<ops, flags, interrupted, paused, active, token, removing, mgr>>
RemovalAcknowledged(v) == Go(v, "eject_wait", "eject_join") /\ interrupted[EjectedCpu]
RemovalSignalled(v) ==
  /\ pc[v] = "eject_wait" /\ pc' = AfterSignal(EjectedCpu)
  /\ UNCHANGED <<ops, flags, states, lock, token, removing, mgr>>
RemovalTimesOut(v) == Go(v, "eject_wait", "eject_done") /\ ~interrupted[EjectedCpu]
(* Mutant: the handle is forgotten and the thread not joined. *)
RemovalForgets(v) ==
  /\ pc[v] = "eject_join"
  /\ active' = [active EXCEPT ![EjectedCpu] = FALSE]
  /\ kill' = [kill EXCEPT ![EjectedCpu] = FALSE]
  /\ removing' = removing \ {EjectedCpu}
  /\ Goto(v, "eject_done")
  /\ UNCHANGED <<ops, flags, interrupted, paused, lock, token, mgr>>
RemovalJoins(v) ==
  /\ pc[v] = "eject_join" /\ pc[EjectedCpu] = "exited"
  /\ active' = [active EXCEPT ![EjectedCpu] = FALSE]
  /\ kill' = [kill EXCEPT ![EjectedCpu] = FALSE]
  /\ removing' = removing \ {EjectedCpu}
  /\ Goto(v, "eject_done")
  /\ UNCHANGED <<ops, flags, interrupted, paused, lock, token, mgr>>
RemovalDone(v) ==
  /\ pc[v] = "eject_done" /\ Goto(v, "post")
  /\ lock' = Nobody
  /\ UNCHANGED <<ops, flags, states, token, removing, mgr>>

VcpuStep(v) ==
  \/ Top(v) \/ Ack(v) \/ MarkPaused(v) \/ CheckPause(v) \/ Unparked(v)
  \/ UnmarkPaused(v) \/ Unack(v) \/ Kick(v) \/ PreRun(v) \/ PostRun(v) \/ EnterGuest(v)
  \/ ControllerRead(v) \/ RemoveVcpu(v) \/ RemovalAcknowledged(v) \/ RemovalSignalled(v)
  \/ RemovalTimesOut(v) \/ RemovalJoins(v) \/ RemovalDone(v)
GuestStep(v) == GuestExit(v) \/ GuestAccess(v) \/ GuestEnds(v) \/ GuestEjects(v)

-----------------------------------------------------------------------------
(* The manager *)

Unchanged == UNCHANGED <<ops, kill, interrupted, paused>>

(* The manager's operation o goes on at label, with vCPU i. *)
At(o, label, i) == op' = o /\ mpc' = label /\ mi' = i /\ UNCHANGED <<stale, leaving>>
Begin(o, label) ==
  /\ op' = o /\ mpc' = label /\ mi' = 0
  /\ stale' = {v \in VCpus :
                 \/ /\ interrupted[v] \/ pc[v] = "ack"
                    /\ pc[v] \notin IF pause_signalled THEN Stopped ELSE {"exited"}
                 \/ vm = "Paused" /\ v \in stale}
  /\ leaving' = CASE o = "pause" -> {v \in VCpus : pc[v] = "unmark"}
                  [] o = "nmi" -> leaving
                  [] OTHER -> {}
Return(state) == At("none", "idle", 0) /\ vm' = state

Idle == mpc = "idle" /\ vm # "Shutdown"

Pause ==
  /\ Idle /\ vm = "Running"
  /\ pause_signalled' = TRUE
  /\ Begin("pause", "signal")
  /\ UNCHANGED <<kick_signalled, kill_signalled, active, lock, pc, token, removing, vm>> /\ Unchanged
Resume ==
  /\ Idle /\ vm = "Paused"
  /\ pause_signalled' = FALSE
  /\ Begin("resume", "unpark")
  /\ UNCHANGED <<kick_signalled, kill_signalled, active, lock, pc, token, removing, vm>> /\ Unchanged
Nmi ==
  /\ Idle /\ "nmi" \in ops
  /\ kick_signalled' = TRUE
  /\ Begin("nmi", "signal")
  /\ UNCHANGED <<pause_signalled, kill_signalled, active, lock, pc, token, removing, vm>> /\ Unchanged
Shutdown ==
  /\ Idle
  /\ kill_signalled' = TRUE
  /\ Begin("shutdown", "unpause")
  /\ UNCHANGED <<pause_signalled, kick_signalled, active, lock, pc, token, removing, vm>> /\ Unchanged

(* resize: the last vCPU is marked for removal, or started again.  *)
LastCpu == NCpus - 1
Shrink ==
  /\ Idle /\ "resize" \in ops
  /\ lock = Nobody /\ active[LastCpu] /\ LastCpu > 0
  /\ removing' = {LastCpu}
  /\ UNCHANGED <<flags, active, lock, pc, token, mgr>> /\ Unchanged
Grow ==
  /\ Idle
  /\ lock = Nobody /\ ~active[LastCpu]
  /\ active' = [active EXCEPT ![LastCpu] = TRUE]
  /\ token' = [token EXCEPT ![LastCpu] = FALSE]
  /\ Goto(LastCpu, "top")
  /\ UNCHANGED <<flags, lock, removing, mgr>> /\ Unchanged

(* shutdown's second store. *)
Unpause ==
  /\ mpc = "unpause"
  /\ pause_signalled' = FALSE
  /\ At(op, "unpark", 0)
  /\ UNCHANGED <<kick_signalled, kill_signalled, active, lock, pc, token, removing, vm>> /\ Unchanged

(* resume keeps the lock until every vCPU has left the pause. *)
UnparkThreads ==
  /\ mpc = "unpark" /\ lock = Nobody
  /\ token' = [v \in VCpus |-> token[v] \/ active[v]]
  /\ IF op = "resume" THEN At(op, "resumed", 0) /\ lock' = Manager
                      ELSE At(op, "signal", 0) /\ UNCHANGED lock
  /\ UNCHANGED <<flags, active, pc, removing, vm>> /\ Unchanged
Resumed ==
  /\ mpc = "resumed" /\ \A v \in VCpus : ~paused[v]
  /\ lock' = Nobody
  /\ Return("Running")
  /\ UNCHANGED <<flags, active, pc, token, removing>> /\ Unchanged

(* signal_vcpus: the loop that signals, and the loop that waits. *)
SignalThread ==
  /\ mpc = "signal" /\ lock = Nobody
  /\ pc' = AfterSignal(mi)
  /\ IF mi = LastCpu THEN At(op, "lock", 0) ELSE At(op, "signal", mi + 1)
  /\ UNCHANGED <<flags, active, lock, token, removing, vm>> /\ Unchanged
LockForWait ==
  /\ mpc = "lock" /\ lock = Nobody
  /\ lock' = Manager
  /\ At(op, "wait", mi)
  /\ UNCHANGED <<flags, active, pc, token, removing, vm>> /\ Unchanged
Acknowledged ==
  /\ mpc = "wait" /\ (active[mi] => interrupted[mi])
  /\ lock' = Nobody
  /\ IF mi < LastCpu THEN At(op, "lock", mi + 1) /\ UNCHANGED <<kick_signalled, vm>>
     ELSE CASE op = "pause"    -> At(op, "clock", 0) /\ UNCHANGED <<kick_signalled, vm>>
            [] op = "shutdown" -> At(op, "lockjoin", 0) /\ UNCHANGED <<kick_signalled, vm>>
            [] op = "nmi"      -> Return(vm) /\ kick_signalled' = FALSE
  /\ UNCHANGED <<pause_signalled, kill_signalled, active, pc, token, removing>> /\ Unchanged
SignalAgain ==
  /\ mpc = "wait" /\ active[mi] /\ ~interrupted[mi]
  /\ pc' = AfterSignal(mi)
  /\ UNCHANGED <<flags, active, lock, token, removing, mgr>> /\ Unchanged
(* Mutant: the wait for an answer has no limit. *)
RetriesForEver == FALSE
(* SignalAcknowledgeTimeout: the operation fails where it is.  After a     *)
(* shutdown that fails the VMM has dropped the VM.                         *)
SignalTimesOut ==
  /\ mpc = "wait" /\ active[mi] /\ ~interrupted[mi]
  /\ lock' = Nobody
  /\ Return(IF op = "shutdown" THEN "Shutdown" ELSE vm)
  /\ UNCHANGED <<flags, active, pc, token, removing>> /\ Unchanged

(* notify_guest_clock_paused takes the mutex of every vCPU. *)
NotifyClock ==
  /\ mpc = "clock" /\ pc[mi] \notin Running
  /\ IF mi = LastCpu THEN At(op, "lockpaused", 0) ELSE At(op, "clock", mi + 1)
  /\ UNCHANGED <<flags, active, lock, pc, token, removing, vm>> /\ Unchanged
LockForPaused ==
  /\ mpc = "lockpaused" /\ lock = Nobody
  /\ lock' = Manager
  /\ At(op, "paused", 0)
  /\ UNCHANGED <<flags, active, pc, token, removing, vm>> /\ Unchanged
(* Mutant: pause does not look at the paused flags. *)
PausedUnseen ==
  /\ mpc = "paused"
  /\ lock' = Nobody
  /\ Return("Paused")
  /\ UNCHANGED <<flags, active, pc, token, removing>> /\ Unchanged
AllPaused ==
  /\ mpc = "paused" /\ \A v \in VCpus : active[v] => paused[v]
  /\ lock' = Nobody
  /\ Return("Paused")
  /\ UNCHANGED <<flags, active, pc, token, removing>> /\ Unchanged

(* The pause fails with the vCPUs stopped: notify_guest_clock_paused does, *)
(* or, once they have parked, the devices' pause or the hypervisor's.  The *)
(* VM's state stays Running.                                               *)
PauseFails ==
  /\ \/ mpc = "clock" /\ pc[mi] \notin Running /\ UNCHANGED lock
     \/ /\ mpc = "paused" /\ (\A v \in VCpus : active[v] => paused[v])
        /\ lock' = Nobody
  /\ Return(vm)
  /\ UNCHANGED <<flags, active, pc, token, removing>> /\ Unchanged

(* shutdown joins every thread under the lock. *)
LockForJoin ==
  /\ mpc = "lockjoin" /\ lock = Nobody
  /\ lock' = Manager
  /\ At(op, "join", 0)
  /\ UNCHANGED <<flags, active, pc, token, removing, vm>> /\ Unchanged
AllJoined ==
  /\ mpc = "join" /\ \A v \in VCpus : active[v] => pc[v] = "exited"
  /\ active' = [v \in VCpus |-> FALSE]
  /\ lock' = Nobody
  /\ Return("Shutdown")
  /\ UNCHANGED <<flags, pc, token, removing>> /\ Unchanged

Request == Pause \/ Resume \/ Nmi \/ Shutdown \/ Shrink \/ Grow
ManagerStep ==
  \/ Unpause \/ UnparkThreads \/ Resumed \/ SignalThread \/ LockForWait \/ Acknowledged
  \/ SignalTimesOut \/ NotifyClock \/ LockForPaused \/ AllPaused \/ PauseFails
  \/ LockForJoin \/ AllJoined

Next == Request \/ ManagerStep \/ SignalAgain \/ \E v \in VCpus : VcpuStep(v) \/ GuestStep(v)

Spec == Init /\ [][Next]_vars

(* Every thread the kernel may run is run, and time passes for a manager   *)
(* that waits for an answer; the guest need not leave KVM_RUN by itself,   *)
(* and nobody need make a request.                                         *)
FairSpec ==
  /\ Spec
  /\ \A v \in VCpus : WF_vars(VcpuStep(v))
  /\ WF_vars(ManagerStep) /\ WF_vars(SignalAgain)

-----------------------------------------------------------------------------
(* Properties *)

(* While the VM is paused and nobody is resuming or stopping it, no vCPU   *)
(* runs guest code and none can begin to: Vm::snapshot and the migration   *)
(* read registers and memory in this state.  An acknowledgement left by an *)
(* NMI, or a failed pause before, makes no difference.  The one exception  *)
(* is a vCPU that, when the pause began, had left the pause before and not *)
(* yet cleared its paused flag, which answers for it.  It takes a vCPU     *)
(* added while the VM was paused: resume does not wait for one that has    *)
(* not yet set the flag.                                                   *)
PausedStopsVcpus ==
  vm = "Paused" /\ op \in {"none", "nmi"} =>
    /\ pause_signalled
    /\ \A v \in VCpus \ leaving : pc[v] \notin Running \cup {"unmark", "unack", "kick", "kill"}

(* A vCPU without a handle has no thread: remove_vcpu and shutdown forget  *)
(* a handle only after the thread has ended, so activate_vcpus never       *)
(* starts a second thread for a vCPU that still has one.                   *)
NoOrphanThread == \A v \in VCpus : ~active[v] => pc[v] = "exited"

(* What may keep a request from returning: an acknowledgement left by an   *)
(* NMI or by an earlier pause, for the signal that was lost is then not    *)
(* repeated; a removal, which waits under the lock for a thread that may   *)
(* be parked.                                                              *)
Removal == \E v \in VCpus : pc[v] \in {"eject_wait", "eject_join"}
Obstructed == stale # {} \/ kick_signalled \/ Removal

(* CpuManager::pause returns, with an error if a vCPU does not answer in   *)
(* time, although the guest may never leave KVM_RUN by itself and may be   *)
(* waiting for vcpu_states in the hotplug controller.  Besides the above,  *)
(* a vCPU thread that has ended by itself keeps it from returning: its     *)
(* handle is still there and it never says it is paused.                   *)
PauseReturns ==
  op = "pause" ~> \/ op # "pause" \/ Obstructed
                  \/ \E v \in VCpus : active[v] /\ pc[v] = "exited"

(* CpuManager::resume returns: no vCPU misses its wake-up.  A vCPU that    *)
(* sees the flag before it parks may remove another that is still parked   *)
(* before resume has the lock.                                             *)
ResumeReturns == op = "resume" ~> op # "resume" \/ Removal

(* CpuManager::shutdown returns, also when vCPU threads have ended by      *)
(* themselves and when the VM is paused.                                   *)
ShutdownReturns == op = "shutdown" ~> op # "shutdown" \/ Obstructed

(* No request on the vCPUs leaves the manager waiting for ever.            *)
RequestsReturn == PauseReturns /\ ResumeReturns /\ ShutdownReturns
=============================================================================
