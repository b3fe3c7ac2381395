--------------------------- MODULE VirtioWorkers ---------------------------
(***************************************************************************)
(* The worker threads of a virtio device: their epoll loop in              *)
(* virtio-devices/src/epoll_helper.rs, and activation, pause, resume and   *)
(* reset of the device in virtio-devices/src/device.rs.  The workers share *)
(* one pause event, one kill event and one barrier, which counts the       *)
(* workers and the thread that pauses the device; each has a queue event.  *)
(* Events are level-triggered: they stay until they are read.              *)
(***************************************************************************)
EXTENDS FiniteSets

CONSTANTS Workers

VARIABLES
  device_paused,  (* the device's flag, paused                             *)
  pause_evt, kill_evt,   (* the events are signalled                       *)
  queue_evt,    (* per worker                                              *)
  activated,    (* pause_evt and the workers exist                         *)
  worker_pc,    (* where a worker is                                       *)
  worker_token, (* the token of thread::park                               *)
  device_pc,    (* where the thread is that holds the device's mutex       *)
  resetting,    (* its resume is a part of reset                           *)
  hasty         (* history: the pause in progress began before every       *)
                (* worker had left the last one                            *)

events == <<pause_evt, kill_evt, queue_evt>>
device_vars == <<device_paused, events, activated, worker_pc, worker_token, device_pc, resetting, hasty>>

WorkerPCs == {"none", "start", "startpark", "wait", "handle", "barrier", "check", "park", "drain", "exited"}

WorkersTypeOK ==
  /\ device_paused \in BOOLEAN /\ activated \in BOOLEAN /\ pause_evt \in BOOLEAN /\ kill_evt \in BOOLEAN
  /\ resetting \in BOOLEAN /\ hasty \in BOOLEAN
  /\ queue_evt \in [Workers -> BOOLEAN]
  /\ worker_pc \in [Workers -> WorkerPCs]
  /\ worker_token \in [Workers -> BOOLEAN]
  /\ device_pc \in {"idle", "write", "barrier", "unpark", "notify", "kill", "join"}

(* A device that is not activated; that of a restored VM is paused. *)
WorkersInit ==
  /\ device_paused \in BOOLEAN
  /\ pause_evt = FALSE /\ kill_evt = FALSE
  /\ queue_evt = [w \in Workers |-> FALSE]
  /\ activated = FALSE
  /\ worker_pc = [w \in Workers |-> "none"]
  /\ worker_token = [w \in Workers |-> FALSE]
  /\ device_pc = "idle" /\ resetting = FALSE /\ hasty = FALSE

-----------------------------------------------------------------------------
(* run_with_timeout *)

WorkerGoto(w, label) == worker_pc' = [worker_pc EXCEPT ![w] = label]
Device == <<device_paused, activated, device_pc, resetting, hasty>>
WorkerGo(w, from, to) ==
  worker_pc[w] = from /\ WorkerGoto(w, to) /\ UNCHANGED <<Device, events, worker_token>>

(* The two loops that park while the device is paused. *)
Parks(w, test, park, out) ==
  \/ WorkerGo(w, test, IF device_paused THEN park ELSE out)
  \/ /\ worker_pc[w] = park /\ worker_token[w]
     /\ worker_token' = [worker_token EXCEPT ![w] = FALSE]
     /\ WorkerGoto(w, test)
     /\ UNCHANGED <<Device, events>>
ParkAtStart(w) == Parks(w, "start", "startpark", "wait")
ParkInPause(w) == Parks(w, "check", "park", "drain")

(* epoll_wait, and the event it returns. *)
KillEvent(w) == kill_evt /\ WorkerGo(w, "wait", "exited")
(* Mutant: the first worker to see the event reads it. *)
PauseEventRead(w) ==
  /\ pause_evt /\ worker_pc[w] = "wait" /\ WorkerGoto(w, "barrier")
  /\ pause_evt' = FALSE
  /\ UNCHANGED <<Device, kill_evt, queue_evt, worker_token>>
PauseEvent(w) == pause_evt /\ WorkerGo(w, "wait", "barrier")
QueueEvent(w) ==
  /\ worker_pc[w] = "wait" /\ queue_evt[w]
  /\ queue_evt' = [queue_evt EXCEPT ![w] = FALSE]
  /\ WorkerGoto(w, "handle")
  /\ UNCHANGED <<Device, pause_evt, kill_evt, worker_token>>
Handled(w) == WorkerGo(w, "handle", "wait")
HandlerFails(w) == WorkerGo(w, "handle", "exited")

DrainPauseEvent(w) ==
  /\ worker_pc[w] = "drain" /\ WorkerGoto(w, "wait")
  /\ pause_evt' = FALSE
  /\ UNCHANGED <<Device, kill_evt, queue_evt, worker_token>>

WorkerStep(w) ==
  \/ ParkAtStart(w) \/ ParkInPause(w) \/ KillEvent(w) \/ PauseEvent(w)
  \/ QueueEvent(w) \/ Handled(w) \/ DrainPauseEvent(w)

-----------------------------------------------------------------------------
(* The device *)

(* New events, a new barrier and new threads. *)
Activate ==
  /\ device_pc = "idle" /\ ~activated
  /\ activated' = TRUE
  /\ pause_evt' = FALSE /\ kill_evt' = FALSE
  /\ queue_evt' = [w \in Workers |-> FALSE]
  /\ worker_pc' = [w \in Workers |-> "start"]
  /\ worker_token' = [w \in Workers |-> FALSE]
  /\ UNCHANGED <<device_paused, device_pc, resetting, hasty>>

(* The guest notifies a queue; its vCPUs stop before its devices do. *)
Notify(w) ==
  /\ activated /\ ~(device_paused /\ device_pc = "idle")
  /\ queue_evt' = [queue_evt EXCEPT ![w] = TRUE]
  /\ UNCHANGED <<Device, pause_evt, kill_evt, worker_pc, worker_token>>

(* pause returns at once when the device is paused or not activated. *)
PauseDevice ==
  /\ device_pc = "idle" /\ ~device_paused
  /\ device_paused' = TRUE
  /\ device_pc' = IF activated THEN "write" ELSE "idle"
  /\ hasty' = \E w \in Workers : worker_pc[w] \in {"start", "startpark", "check", "park", "drain"}
  /\ UNCHANGED <<events, activated, worker_pc, worker_token, resetting>>
WritePauseEvent ==
  /\ device_pc = "write"
  /\ pause_evt' = TRUE
  /\ device_pc' = "barrier"
  /\ UNCHANGED <<device_paused, kill_evt, queue_evt, activated, worker_pc, worker_token, resetting, hasty>>
(* Mutant: pause does not wait at the barrier. *)
BarrierSkipped ==
  /\ device_pc = "barrier"
  /\ worker_pc' = [w \in Workers |-> IF worker_pc[w] = "barrier" THEN "check" ELSE worker_pc[w]]
  /\ device_pc' = "idle"
  /\ UNCHANGED <<device_paused, events, activated, worker_token, resetting, hasty>>
Barrier ==
  /\ device_pc = "barrier" /\ \A w \in Workers : worker_pc[w] = "barrier"
  /\ worker_pc' = [w \in Workers |-> "check"]
  /\ device_pc' = "idle"
  /\ UNCHANGED <<device_paused, events, activated, worker_token, resetting, hasty>>

ResumeDevice ==
  /\ device_pc = "idle"
  /\ device_paused' = FALSE
  /\ device_pc' = "unpark"
  /\ UNCHANGED <<events, activated, worker_pc, worker_token, resetting, hasty>>
(* Mutant: only one worker is unparked. *)
UnparkOne ==
  /\ device_pc = "unpark"
  /\ \E u \in Workers : worker_token' = [worker_token EXCEPT ![u] = activated]
  /\ device_pc' = "notify"
  /\ UNCHANGED <<device_paused, events, activated, worker_pc, resetting, hasty>>
Unpark ==
  /\ device_pc = "unpark"
  /\ worker_token' = [w \in Workers |-> activated]
  /\ device_pc' = "notify"
  /\ UNCHANGED <<device_paused, events, activated, worker_pc, resetting, hasty>>
(* reset has cleared queue_evts. *)
NotifyQueues ==
  /\ device_pc = "notify"
  /\ queue_evt' = [w \in Workers |-> queue_evt[w] \/ (activated /\ ~resetting)]
  /\ device_pc' = IF resetting THEN "kill" ELSE "idle"
  /\ UNCHANGED <<device_paused, pause_evt, kill_evt, activated, worker_pc, worker_token, resetting, hasty>>

(* reset resumes the workers, kills them and joins them. *)
Reset ==
  /\ device_pc = "idle" /\ activated
  /\ device_paused' = FALSE
  /\ device_pc' = "unpark" /\ resetting' = TRUE
  /\ UNCHANGED <<events, activated, worker_pc, worker_token, hasty>>
Kill ==
  /\ device_pc = "kill"
  /\ kill_evt' = TRUE
  /\ device_pc' = "join"
  /\ UNCHANGED <<device_paused, pause_evt, queue_evt, activated, worker_pc, worker_token, resetting, hasty>>
Join ==
  /\ device_pc = "join" /\ \A w \in Workers : worker_pc[w] = "exited"
  /\ activated' = FALSE
  /\ worker_pc' = [w \in Workers |-> "none"]
  /\ device_pc' = "idle" /\ resetting' = FALSE
  /\ UNCHANGED <<device_paused, events, worker_token, hasty>>

DeviceStep == WritePauseEvent \/ Barrier \/ Unpark \/ NotifyQueues \/ Kill \/ Join

WorkersNext ==
  \/ Activate \/ PauseDevice \/ ResumeDevice \/ Reset \/ DeviceStep
  \/ \E w \in Workers : WorkerStep(w) \/ HandlerFails(w) \/ Notify(w)

WorkersSpec == WorkersInit /\ [][WorkersNext]_device_vars

(* A worker that has an event is run and picks it up at last, whatever     *)
(* other events it also has.                                               *)
WorkersFairSpec ==
  /\ WorkersSpec /\ WF_device_vars(DeviceStep)
  /\ \A w \in Workers :
       /\ WF_device_vars(WorkerStep(w)) /\ SF_device_vars(PauseEvent(w))
       /\ SF_device_vars(KillEvent(w)) /\ SF_device_vars(QueueEvent(w))

-----------------------------------------------------------------------------
(* Properties *)

(* Once pause has returned no worker serves a queue until the device is    *)
(* resumed: the queues and the device's state that a snapshot stores are   *)
(* at rest.                                                                *)
QuietWhenPaused ==
  device_paused /\ device_pc = "idle" =>
    \A w \in Workers : worker_pc[w] \notin {"wait", "handle", "drain", "barrier"}

(* A worker is at the barrier only for the pause in progress: a pause      *)
(* event that one worker has left behind never stops another.              *)
BarrierForPause ==
  \A w \in Workers : worker_pc[w] = "barrier" => device_paused /\ device_pc = "barrier"

(* pause returns.  It does not when a worker has ended with an error, or   *)
(* when it begins before every worker has left the last pause: a worker    *)
(* that finds the flag set again parks without coming to the barrier, and  *)
(* one that drains the event late drains the new one.                      *)
DevicePauseReturns ==
  device_pc = "barrier" ~> device_pc # "barrier" \/ hasty \/ \E w \in Workers : worker_pc[w] = "exited"

(* A notification of a queue is served, or its worker ends or is paused;   *)
(* a device that is resumed goes on serving.                               *)
QueueServed ==
  \A w \in Workers :
    queue_evt[w] ~> ~queue_evt[w] \/ device_paused \/ worker_pc[w] \in {"none", "exited"}

(* reset returns, from a paused device too.                                *)
ResetReturns == resetting ~> ~resetting

(* Neither pause nor reset leaves its caller waiting for ever.             *)
DeviceRequestsReturn == DevicePauseReturns /\ ResetReturns
=============================================================================
