----------------------------- MODULE Migration -----------------------------
(***************************************************************************)
(* Live migration of a running VM: Vmm::vm_send_migration at the source    *)
(* and Vmm::vm_receive_migration at the destination, vmm/src/lib.rs.  The  *)
(* source sends a request on the main connection and waits for the answer; *)
(* memory goes over the main connection or over the workers' ones.  The    *)
(* guest runs, and writes its memory, until the source pauses it.          *)
(***************************************************************************)
EXTENDS MemorySender

CONSTANTS
  Failures,       (* the operations that may fail                          *)
  MaxIterations   (* bound on the pre-copy iterations; then time is up     *)

AllFailures == {"handle", "connection", "send", "pause", "snapshot", "stop_dirty_log",
                "complete_migration", "resume"}

ASSUME MigrationConstants == Failures \subseteq AllFailures /\ MaxIterations \in Nat

VARIABLES
  local,        (* the memory is shared by file descriptor                 *)
  spc,          (* where the source is                                     *)
  vm,           (* VmState at the source: "Running" or "Paused"            *)
  signalled,    (* vcpus_pause_signalled at the source: vCPUs park         *)
  locked,       (* the source holds the locks of the disk images           *)
  log,          (* pages written since the dirty log was last read         *)
  table,        (* pages of the iteration that have not been handed over   *)
  remaining,    (* the table of the iteration that converged               *)
  iteration,
  final,        (* the iteration is the last, with the VM paused           *)
  chan,         (* the request or the answer on the main connection        *)
  broken,       (* the connection is lost                                  *)
  stuck,        (* history: stop_dirty_log or resume failed while the      *)
                (* failed migration was undone                             *)
  half,         (* history: Vm::pause failed after the vCPUs were told to  *)
                (* park; VmState is still Running                          *)
  late,         (* history: the source failed after it had sent Complete   *)
  state,        (* ReceiveMigrationState                                   *)
  dvm,          (* the VM at the destination: "None", "Paused", "Running"  *)
  dlocked       (* the destination holds the locks of the disk images      *)

source == <<local, vm, signalled, locked, log, table, remaining, iteration, final, stuck, half, late>>
dest   == <<state, dvm, dlocked>>
vars   == <<source, spc, chan, broken, dest, sender, stale>>

Requests == {"Start", "MemoryFd", "Config", "Memory", "State", "Complete"}

TypeOK ==
  /\ SenderTypeOK
  /\ vm \in {"Running", "Paused"}
  /\ log \subseteq Pages /\ table \subseteq Pages /\ remaining \subseteq Pages
  /\ iteration \in 0 .. MaxIterations
  /\ chan \in Requests \cup {"none", "ok", "error"}
  /\ state \in {"Established", "Started", "MemoryFdsReceived", "Configured", "StateReceived",
                "Completed", "Aborted", "Error"}
  /\ dvm \in {"None", "Paused", "Running"}
  /\ \A b \in {local, signalled, locked, final, broken, stuck, half, late, dlocked} : b \in BOOLEAN

Init ==
  /\ SenderInit
  /\ local \in BOOLEAN /\ (local => threads = {})
  /\ spc = "Start" /\ vm = "Running" /\ signalled = FALSE /\ locked = TRUE
  /\ log = {} /\ table = {} /\ remaining = {} /\ iteration = 0 /\ final = FALSE
  /\ chan = "none" /\ broken = FALSE /\ stuck = FALSE /\ half = FALSE /\ late = FALSE
  /\ state = "Established" /\ dvm = "None" /\ dlocked = FALSE

-----------------------------------------------------------------------------
(* The guest, and the network *)

(* A write is logged by KVM or by the VMM's own bitmap.  The memory of a   *)
(* local migration is one.  After a pause that failed half way a vCPU may  *)
(* write until its next exit.                                              *)
GuestWrites(p) ==
  /\ vm = "Running" /\ spc \notin {"done", "failed"}
  /\ log' = log \cup {p}
  /\ stale' = stale \cup {p}
  /\ UNCHANGED <<local, vm, signalled, locked, table, remaining, iteration, final, stuck, half, late>>
  /\ UNCHANGED <<spc, chan, broken, dest, sender>>

ConnectionLost ==
  /\ "connection" \in Failures /\ ~broken
  /\ broken' = TRUE
  /\ UNCHANGED <<source, spc, chan, dest, sender, stale>>

-----------------------------------------------------------------------------
(* The destination *)

(* The commands a state accepts, and the state each leads to. *)
Step(s, req) ==
  CASE s = "Established" /\ req = "Start" -> "Started"
    [] s \in {"Started", "MemoryFdsReceived"} /\ req = "MemoryFd" -> "MemoryFdsReceived"
    [] s \in {"Started", "MemoryFdsReceived"} /\ req = "Config" -> "Configured"
    [] s = "Configured" /\ req = "Memory" -> "Configured"
    [] s = "Configured" /\ req = "State" -> "StateReceived"
    [] s = "StateReceived" /\ req = "Complete" -> "Completed"
    [] OTHER -> "Aborted"

Finished == state \in {"Completed", "Aborted", "Error"}

(* Vm::restore needs the locks of the disk images.                         *)
Accepted == Step(state, chan) # "Aborted" /\ (chan = "State" => ~locked)

(* Mutant: the VM is resumed when its state has arrived. *)
ResumedByState ==
  /\ ~Finished /\ chan \in Requests /\ Accepted
  /\ state' = Step(state, chan) /\ chan' = "ok"
  /\ dvm' = IF chan \in {"State", "Complete"} THEN "Running" ELSE dvm
  /\ dlocked' = (dlocked \/ chan = "State")
  /\ stale' = IF chan = "Memory" THEN stale \ table ELSE stale
  /\ UNCHANGED <<source, spc, broken, sender>>
(* Mutant: the restored VM takes no locks. *)
RestoredUnlocked ==
  /\ ~Finished /\ chan \in Requests /\ Accepted
  /\ state' = Step(state, chan) /\ chan' = "ok"
  /\ dvm' = IF chan = "State" THEN "Paused" ELSE IF chan = "Complete" THEN "Running" ELSE dvm
  /\ UNCHANGED dlocked
  /\ stale' = IF chan = "Memory" THEN stale \ table ELSE stale
  /\ UNCHANGED <<source, spc, broken, sender>>
(* Vm::restore takes the locks; Complete resumes the VM.  A request that   *)
(* has arrived is handled even if the connection is lost by then.          *)
HandleRequest ==
  /\ ~Finished /\ chan \in Requests /\ Accepted
  /\ state' = Step(state, chan) /\ chan' = "ok"
  /\ dvm' = IF chan = "State" THEN "Paused" ELSE IF chan = "Complete" THEN "Running" ELSE dvm
  /\ dlocked' = (dlocked \/ chan = "State")
  /\ stale' = IF chan = "Memory" THEN stale \ table ELSE stale
  /\ UNCHANGED <<source, spc, broken, sender>>

(* A command that is not accepted, or fails; the VM is dropped. *)
AbortRequest ==
  /\ ~Finished /\ chan \in Requests
  /\ Accepted => "handle" \in Failures
  /\ state' = "Aborted" /\ chan' = "error"
  /\ dvm' = "None" /\ dlocked' = FALSE
  /\ UNCHANGED <<source, spc, broken, sender, stale>>

(* The connection is lost: the error is returned, and nothing is undone. *)
ReceiveFails ==
  /\ ~Finished /\ broken
  /\ state' = "Error"
  /\ UNCHANGED <<source, spc, chan, broken, dvm, dlocked, sender, stale>>

-----------------------------------------------------------------------------
(* The source *)

Quiet == UNCHANGED <<local, signalled, half, late, dest>>

(* send_migration returns an error: the socket is dropped. *)
Fails ==
  /\ spc' = "undo" /\ broken' = TRUE
  /\ UNCHANGED <<vm, locked, log, table, remaining, iteration, final, chan, stuck>>

(* What a request, a step of the main thread, leaves alone. *)
Goes(label) ==
  /\ spc' = label
  /\ UNCHANGED <<vm, locked, log, table, remaining, iteration, final, chan, broken, stuck>>

SendRequest ==
  /\ spc \in Requests /\ chan = "none" /\ ~broken
  /\ chan' = spc
  /\ UNCHANGED <<source, spc, broken, dest, sender, stale>>

AfterAnswer ==
  CASE spc = "Start"    -> IF local THEN "MemoryFd" ELSE "Config"
    [] spc = "MemoryFd" -> "Config"
    [] spc = "Config"   -> IF local THEN "pause" ELSE "start_dirty_log"
    [] spc = "Memory"   -> "sent"
    [] spc = "State"    -> "Complete"
    [] spc = "Complete" -> IF local THEN "complete_migration" ELSE "stop_dirty_log"
Answered ==
  /\ spc \in Requests /\ chan = "ok"
  /\ chan' = "none" /\ spc' = AfterAnswer
  /\ UNCHANGED <<source, broken, dest, sender, stale>>
RequestFails ==
  /\ spc \in Requests /\ (chan = "error" \/ broken)
  /\ late' = (spc = "Complete" /\ chan # "none")
  /\ Fails /\ UNCHANGED <<local, signalled, half, dest, sender, stale>>

(* do_memory_migration *)
StartDirtyLog ==
  /\ spc = "start_dirty_log"
  /\ spc' = "iterate" /\ log' = {}
  /\ UNCHANGED <<vm, locked, table, remaining, iteration, final, chan, broken, stuck, sender, stale>>
  /\ Quiet

(* One reading of the dirty log, which empties it. *)
IterationTable == IF iteration = 0 THEN Pages ELSE log
Iterate ==
  /\ spc = "iterate" /\ IterationTable # {} /\ iteration < MaxIterations
  /\ table' = IterationTable
  /\ log' = IF iteration = 0 THEN log ELSE {}
  /\ spc' = "send"
  /\ UNCHANGED <<vm, locked, remaining, iteration, final, chan, broken, stuck, sender, stale>> /\ Quiet
(* No page is dirty, the downtime is met, or time is up and ignored. *)
Converged ==
  /\ spc = "iterate"
  /\ remaining' = IterationTable
  /\ log' = IF iteration = 0 THEN log ELSE {}
  /\ spc' = "pause"
  /\ UNCHANGED <<vm, locked, table, iteration, final, chan, broken, stuck, sender, stale>> /\ Quiet
(* TimeoutStrategy::Cancel. *)
TimeoutCancels ==
  /\ spc = "iterate" /\ IterationTable # {}
  /\ Goes("cleanup") /\ UNCHANGED <<sender, stale>> /\ Quiet

PauseVm ==
  /\ spc = "pause"
  /\ vm' = "Paused" /\ signalled' = TRUE
  /\ spc' = IF local THEN "release" ELSE "final"
  /\ UNCHANGED <<locked, log, table, remaining, iteration, final, chan, broken, stuck, sender, stale>>
  /\ UNCHANGED <<local, half, late, dest>>
(* Vm::pause fails before it tells the vCPUs to park, or after: then they  *)
(* stay parked, because VmState, which is set last, is still Running.      *)
PauseFails ==
  /\ spc = "pause" /\ "pause" \in Failures
  /\ \/ UNCHANGED <<signalled, half>>
     \/ signalled' = TRUE /\ half' = TRUE
  /\ Goes(IF local THEN "undo" ELSE "cleanup") /\ UNCHANGED <<local, late, dest, sender, stale>>

(* Mutant: the last table forgets what was left over. *)
FinalTableLogOnly ==
  /\ spc = "final"
  /\ table' = log
  /\ log' = {} /\ final' = TRUE
  /\ spc' = "send"
  /\ UNCHANGED <<vm, locked, remaining, iteration, chan, broken, stuck, sender, stale>> /\ Quiet
FinalTable ==
  /\ spc = "final"
  /\ table' = log \cup remaining
  /\ log' = {} /\ final' = TRUE
  /\ spc' = "send"
  /\ UNCHANGED <<vm, locked, remaining, iteration, chan, broken, stuck, sender, stale>> /\ Quiet

(* send_memory: an empty table, one connection, or the workers. *)
SendMemory ==
  /\ spc = "send"
  /\ Goes(IF table = {} THEN "sent" ELSE IF threads = {} THEN "Memory" ELSE "chunks")
  /\ UNCHANGED <<sender, stale>> /\ Quiet
SendChunk(p) ==
  /\ spc = "chunks" /\ ~worker_error /\ p \in table
  /\ Push(p)
  /\ table' = table \ {p}
  /\ UNCHANGED <<spc, vm, locked, log, remaining, iteration, final, chan, broken, stuck, stale>>
  /\ UNCHANGED <<threads, busy, ended, worker_error, at_gate, open, dropped>> /\ Quiet
ChunksQueued ==
  /\ spc = "chunks" /\ table = {}
  /\ Goes("gates")
  /\ open' = FALSE /\ at_gate' = 0
  /\ UNCHANGED <<threads, queue, busy, ended, worker_error, dropped, stale>> /\ Quiet
ChunkSeesError ==
  /\ spc = "chunks" /\ worker_error /\ table # {}
  /\ Goes("cleanup") /\ UNCHANGED <<sender, stale>> /\ Quiet

(* wait_for_pending_data: a gate for every worker, then their answers. *)
GatesOut == Cardinality({i \in 1 .. Len(queue) : queue[i] = Gate}) + at_gate
SendGate ==
  /\ spc = "gates" /\ GatesOut < Cardinality(threads) /\ ~(threads \subseteq ended)
  /\ Push(Gate)
  /\ UNCHANGED <<spc, vm, locked, log, table, remaining, iteration, final, chan, broken, stuck, stale>>
  /\ UNCHANGED <<threads, busy, ended, worker_error, at_gate, open, dropped>> /\ Quiet
SendGateFails ==
  /\ spc = "gates" /\ GatesOut < Cardinality(threads) /\ threads \subseteq ended
  /\ Goes("cleanup") /\ UNCHANGED <<sender, stale>> /\ Quiet
AllAtGate ==
  /\ spc = "gates" /\ at_gate = Cardinality(threads)
  /\ OpenGate
  /\ Goes("sent")
  /\ UNCHANGED <<threads, queue, ended, worker_error, at_gate, dropped, stale>> /\ Quiet
(* Mutant: the gate is not opened on an error. *)
GateStaysClosed ==
  /\ spc = "gates" /\ GatesOut = Cardinality(threads) /\ worker_error
  /\ Goes("cleanup")
  /\ UNCHANGED <<sender, stale>> /\ Quiet
GateSeesError ==
  /\ spc = "gates" /\ GatesOut = Cardinality(threads) /\ worker_error
  /\ OpenGate
  /\ Goes("cleanup")
  /\ UNCHANGED <<threads, queue, ended, worker_error, at_gate, dropped, stale>> /\ Quiet

MemorySent ==
  /\ spc = "sent"
  /\ table' = {}
  /\ spc' = IF final THEN "cleanup" ELSE "iterate"
  /\ iteration' = IF final THEN iteration ELSE iteration + 1
  /\ UNCHANGED <<vm, locked, log, remaining, final, chan, broken, stuck, sender, stale>> /\ Quiet

(* cleanup: the workers are told to end and joined; it fails if one did.   *)
(* Before the last iteration it is called because of an error.             *)
Cleanup ==
  /\ spc = "cleanup"
  /\ CleanupSends
  /\ Goes("join")
  /\ UNCHANGED <<threads, busy, ended, worker_error, at_gate, open, stale>> /\ Quiet
Join ==
  /\ spc = "join" /\ threads \subseteq ended
  /\ threads' = {}
  /\ IF final /\ ~worker_error THEN Goes("release") ELSE Fails
  /\ UNCHANGED <<queue, busy, ended, worker_error, at_gate, open, dropped, stale>> /\ Quiet
(* The locks are released for the destination, and the state is captured. *)
ReleaseDiskLocks ==
  /\ spc = "release"
  /\ locked' = FALSE
  /\ spc' = "State"
  /\ UNCHANGED <<vm, log, table, remaining, iteration, final, chan, broken, stuck, sender, stale>> /\ Quiet
SnapshotFails ==
  /\ spc = "State" /\ chan = "none" /\ "snapshot" \in Failures
  /\ Fails /\ UNCHANGED <<sender, stale>> /\ Quiet

(* The steps after Complete has been answered, and their failures. *)
StopDirtyLog ==
  /\ spc = "stop_dirty_log" /\ Goes("complete_migration")
  /\ UNCHANGED <<sender, stale>> /\ Quiet
CompleteMigration ==
  /\ spc = "complete_migration" /\ Goes("done")
  /\ UNCHANGED <<sender, stale>> /\ Quiet
LateFailure ==
  /\ spc \in {"stop_dirty_log", "complete_migration"} \cap Failures
  /\ late' = TRUE
  /\ Fails /\ UNCHANGED <<local, signalled, half, dest, sender, stale>>

(* Mutant: the VM is not resumed. *)
UndoPaused ==
  /\ spc = "undo"
  /\ spc' = "failed" /\ broken' = TRUE
  /\ UNCHANGED <<vm, stuck, locked, log, table, remaining, iteration, final, chan, sender, stale>> /\ Quiet
(* vm_send_migration: a migration that failed is undone.  Vm::resume is    *)
(* called when VmState is Paused.                                          *)
Undo ==
  /\ spc = "undo"
  /\ \/ /\ ~local /\ "stop_dirty_log" \in Failures
        /\ stuck' = TRUE /\ UNCHANGED <<vm, signalled>>
     \/ /\ vm = "Paused" /\ "resume" \in Failures
        /\ stuck' = TRUE /\ UNCHANGED <<vm, signalled>>
     \/ /\ vm = "Paused"
        /\ vm' = "Running" /\ signalled' = FALSE /\ UNCHANGED stuck
     \/ /\ vm = "Running"
        /\ UNCHANGED <<vm, signalled, stuck>>
  /\ spc' = "failed" /\ broken' = TRUE
  /\ UNCHANGED <<locked, log, table, remaining, iteration, final, chan, sender, stale>>
  /\ UNCHANGED <<local, half, late, dest>>

MainStep ==
  \/ SendRequest \/ Answered \/ RequestFails \/ StartDirtyLog \/ Iterate \/ Converged
  \/ TimeoutCancels \/ PauseVm \/ PauseFails \/ FinalTable \/ SendMemory
  \/ (\E p \in Pages : SendChunk(p)) \/ ChunksQueued \/ ChunkSeesError \/ SendGate
  \/ SendGateFails \/ AllAtGate \/ GateSeesError \/ MemorySent \/ Cleanup \/ Join
  \/ ReleaseDiskLocks \/ SnapshotFails \/ StopDirtyLog \/ CompleteMigration \/ LateFailure
  \/ Undo

DestStep == HandleRequest \/ AbortRequest \/ ReceiveFails

WorkerStep(w) ==
  /\ SenderWorker(w)
  /\ UNCHANGED <<source, spc, chan, broken, dest>>
WorkerFails(w) ==
  /\ "send" \in Failures /\ SendFails(w)
  /\ UNCHANGED <<source, spc, chan, broken, dest>>

Next ==
  \/ MainStep \/ DestStep \/ ConnectionLost
  \/ \E p \in Pages : GuestWrites(p)
  \/ \E w \in Workers : WorkerStep(w) \/ WorkerFails(w)

Spec == Init /\ [][Next]_vars

(* The threads of both sides run; the guest need not write, and nothing    *)
(* need fail.                                                              *)
FairSpec == Spec /\ WF_vars(MainStep) /\ WF_vars(DestStep) /\ \A w \in Workers : WF_vars(WorkerStep(w))

-----------------------------------------------------------------------------
(* Properties *)

(* What the destination runs is what the source paused: when the           *)
(* destination has the state, every page of the memory has arrived as it   *)
(* was when the source paused its VM, whatever the guest wrote between the *)
(* reading of the log and the sending of a page.                           *)
MemoryComplete ==
  ~local /\ dvm # "None" /\ vm = "Paused" => stale = {}

(* A migration that fails before the source has sent Complete leaves one   *)
(* VM running, the source's, however late the destination handles what it  *)
(* was sent.  After Complete it may be two: the answer may be lost, and    *)
(* stop_dirty_log and complete_migration may fail when the destination has *)
(* already resumed; vm_send_migration resumes the source in each case.     *)
OneRuns == vm = "Running" /\ dvm = "Running" => late

(* The guest survives: when vm_send_migration has returned, its vCPUs run  *)
(* at one of the ends.  Two failures, and no other, can leave it stopped:  *)
(* undoing the failed migration failed in turn, or Vm::pause failed after  *)
(* it had told the vCPUs to park, which vm_send_migration does not undo    *)
(* because VmState is not Paused.                                          *)
VmSurvives ==
  spc \in {"done", "failed"} =>
    (vm = "Running" /\ ~signalled) \/ dvm = "Running" \/ stuck \/ half

(* The source has released the locks when the destination takes them, and  *)
(* a VM that runs at the destination holds them.                           *)
LocksHandedOver == ~(locked /\ dlocked) /\ (dvm = "Running" => dlocked)

(* vm_send_migration returns, whatever fails, unless a Disconnect did not  *)
(* fit into the channel and a worker waits for a message for ever.         *)
SendReturns == <>(spc \in {"done", "failed"} \/ dropped)
=============================================================================
