-------------------------- MODULE SandboxController --------------------------
(***************************************************************************)
(* The remote sandbox controller: remote-controller/main.go.               *)
(*                                                                         *)
(* Calls run concurrently.  All but Create look their record up under the  *)
(* mutex (get), let it go, and take it again to work on the record, which  *)
(* may have been stopped or removed from the map meanwhile.  Stopping goes *)
(* through a sync.Once and ends by closing the channel that Wait selects   *)
(* on.                                                                     *)
(***************************************************************************)
EXTENDS Integers

CONSTANTS
  Calls,     (* slots for calls in progress                                *)
  Ids,       (* sandbox ids                                                *)
  Records,   (* bound: the records Create can make                         *)
  Ops,       (* which calls are made, see CallKinds                        *)
  NoRecord

(* "query" is Platform, Metrics or Status: they change nothing. *)
CallKinds == {"start", "stop", "wait", "shutdown", "update", "query"}

ASSUME ControllerConstants ==
  /\ Ops \subseteq CallKinds
  /\ NoRecord \notin Records

VARIABLES
  sandboxes,  (* the map: per id a record or NoRecord                      *)
  made,       (* the records Create has made                               *)
  state,      (* rec.state                                                 *)
  started,    (* createdAt and pid are set                                 *)
  exits,      (* how often exitStatus and exitedAt were set                *)
  updated,    (* info has updated_fields                                   *)
  once,       (* stopOnce: "new", "running" or "done"                      *)
  stopped,    (* the channel is closed                                     *)
  call,       (* per slot: where the call is, which call, id and record    *)
  server      (* "serving", "draining" (GracefulStop) or "stopped"         *)

record == <<made, state, started, exits, updated, once, stopped>>
controller_vars == <<sandboxes, made, state, started, exits, updated, once, stopped, call, server>>

IdleCall == [pc |-> "idle", op |-> "none", id |-> "none", rec |-> NoRecord]
BodyPCs == CallKinds \cup {"mark", "close", "delete", "reply"}

ControllerTypeOK ==
  /\ sandboxes \in [Ids -> made \cup {NoRecord}]
  /\ made \subseteq Records
  /\ state \in [Records -> {"SANDBOX_READY", "SANDBOX_NOTREADY"}]
  /\ started \in [Records -> BOOLEAN] /\ exits \in [Records -> Nat]
  /\ updated \in [Records -> BOOLEAN]
  /\ once \in [Records -> {"new", "running", "done"}]
  /\ stopped \in [Records -> BOOLEAN]
  /\ call \in [Calls -> [pc : BodyPCs \cup {"idle"}, op : CallKinds \cup {"none"},
                         id : Ids \cup {"none"}, rec : Records \cup {NoRecord}]]
  /\ \A c \in Calls : call[c].pc # "idle" => call[c].rec \in made /\ call[c].id \in Ids
  /\ server \in {"serving", "draining", "stopped"}

ControllerInit ==
  /\ sandboxes = [i \in Ids |-> NoRecord] /\ made = {}
  /\ state = [r \in Records |-> "SANDBOX_NOTREADY"]
  /\ started = [r \in Records |-> FALSE] /\ exits = [r \in Records |-> 0]
  /\ updated = [r \in Records |-> FALSE]
  /\ once = [r \in Records |-> "new"] /\ stopped = [r \in Records |-> FALSE]
  /\ call = [c \in Calls |-> IdleCall]
  /\ server = "serving"

-----------------------------------------------------------------------------
CallAt(c, label) == call[c].pc = label
CallGoto(c, label) == call' = [call EXCEPT ![c].pc = label]
CallReturn(c) == call' = [call EXCEPT ![c] = IdleCall]

(* One call of its own: the mutex is held throughout. *)
Create(i) ==
  /\ server = "serving" /\ sandboxes[i] = NoRecord
  /\ \E r \in Records \ made :
       /\ sandboxes' = [sandboxes EXCEPT ![i] = r]
       /\ made' = made \cup {r}
  /\ UNCHANGED <<state, started, exits, updated, once, stopped, call, server>>

(* get, of every other call.  An unknown id is an error and changes        *)
(* nothing.                                                                *)
Get(c, op, i) ==
  /\ server = "serving" /\ CallAt(c, "idle") /\ op \in Ops
  /\ sandboxes[i] # NoRecord
  /\ call' = [call EXCEPT ![c] = [pc |-> op, op |-> op, id |-> i, rec |-> sandboxes[i]]]
  /\ UNCHANGED <<sandboxes, record, server>>

(* The second critical section of Start. *)
Start(c) ==
  LET r == call[c].rec
  IN  /\ CallAt(c, "start")
      /\ started' = [started EXCEPT ![r] = TRUE]
      /\ state' = [state EXCEPT ![r] = "SANDBOX_READY"]
      /\ CallReturn(c)
      /\ UNCHANGED <<sandboxes, made, exits, updated, once, stopped, server>>

Update(c) ==
  /\ CallAt(c, "update")
  /\ updated' = [updated EXCEPT ![call[c].rec] = TRUE]
  /\ CallReturn(c)
  /\ UNCHANGED <<sandboxes, made, state, started, exits, once, stopped, server>>

Query(c) ==
  /\ CallAt(c, "query")
  /\ CallReturn(c)
  /\ UNCHANGED <<sandboxes, record, server>>

-----------------------------------------------------------------------------
(* stopRecord, of Stop and Shutdown *)

(* What follows stopRecord in the call. *)
AfterStop(c) == IF call[c].op = "shutdown" THEN CallGoto(c, "delete") ELSE CallReturn(c)

(* Mutant: whether the record is stopped is checked without the Once. *)
OnceDoChecked(c) ==
  /\ call[c].pc \in {"stop", "shutdown"}
  /\ IF once[call[c].rec] = "done" THEN AfterStop(c) ELSE CallGoto(c, "mark")
  /\ UNCHANGED <<sandboxes, record, server>>

(* Mutant: a call that finds the record being stopped goes on at once. *)
OnceDoNoWait(c) ==
  LET r == call[c].rec
  IN  /\ call[c].pc \in {"stop", "shutdown"}
      /\ \/ once[r] = "new" /\ once' = [once EXCEPT ![r] = "running"] /\ CallGoto(c, "mark")
         \/ once[r] # "new" /\ UNCHANGED once /\ AfterStop(c)
      /\ UNCHANGED <<sandboxes, made, state, started, exits, updated, stopped, server>>

(* stopOnce.Do: the first call goes in; others wait until it is done. *)
OnceDo(c) ==
  LET r == call[c].rec
  IN  /\ call[c].pc \in {"stop", "shutdown"}
      /\ \/ once[r] = "new" /\ once' = [once EXCEPT ![r] = "running"] /\ CallGoto(c, "mark")
         \/ once[r] = "done" /\ UNCHANGED once /\ AfterStop(c)
      /\ UNCHANGED <<sandboxes, made, state, started, exits, updated, stopped, server>>

(* The critical section. *)
Mark(c) ==
  LET r == call[c].rec
  IN  /\ CallAt(c, "mark")
      /\ state' = [state EXCEPT ![r] = "SANDBOX_NOTREADY"]
      /\ exits' = [exits EXCEPT ![r] = @ + 1]
      /\ CallGoto(c, "close")
      /\ UNCHANGED <<sandboxes, made, started, updated, once, stopped, server>>

(* Mutant: the channel stays open. *)
CloseForgotten(c) ==
  LET r == call[c].rec
  IN  /\ CallAt(c, "close")
      /\ once' = [once EXCEPT ![r] = "done"]
      /\ AfterStop(c)
      /\ UNCHANGED <<sandboxes, made, state, started, exits, updated, stopped, server>>

(* Mutant: the Once is never done. *)
CloseNotDone(c) ==
  LET r == call[c].rec
  IN  /\ CallAt(c, "close")
      /\ stopped' = [stopped EXCEPT ![r] = TRUE]
      /\ AfterStop(c)
      /\ UNCHANGED <<sandboxes, made, state, started, exits, updated, once, server>>

(* close(rec.stopped), and the Once is done. *)
Close(c) ==
  LET r == call[c].rec
  IN  /\ CallAt(c, "close")
      /\ stopped' = [stopped EXCEPT ![r] = TRUE]
      /\ once' = [once EXCEPT ![r] = "done"]
      /\ AfterStop(c)
      /\ UNCHANGED <<sandboxes, made, state, started, exits, updated, server>>

(* Shutdown's delete names the id, not the record. *)
Delete(c) ==
  /\ CallAt(c, "delete")
  /\ sandboxes' = [sandboxes EXCEPT ![call[c].id] = NoRecord]
  /\ CallReturn(c)
  /\ UNCHANGED <<record, server>>

-----------------------------------------------------------------------------
(* Wait *)

WaitStopped(c) ==
  /\ CallAt(c, "wait") /\ stopped[call[c].rec]
  /\ CallGoto(c, "reply")
  /\ UNCHANGED <<sandboxes, record, server>>

(* The caller gives up. *)
WaitCancelled(c) ==
  /\ CallAt(c, "wait")
  /\ CallReturn(c)
  /\ UNCHANGED <<sandboxes, record, server>>

WaitReply(c) ==
  /\ CallAt(c, "reply")
  /\ CallReturn(c)
  /\ UNCHANGED <<sandboxes, record, server>>

-----------------------------------------------------------------------------
(* main: a signal makes the server refuse calls and wait for those running *)

Signal ==
  /\ server = "serving"
  /\ server' = "draining"
  /\ UNCHANGED <<sandboxes, record, call>>

Drained ==
  /\ server = "draining" /\ \A c \in Calls : CallAt(c, "idle")
  /\ server' = "stopped"
  /\ UNCHANGED <<sandboxes, record, call>>

-----------------------------------------------------------------------------
(* What the goroutine of a call does on its own. *)
Run(c) ==
  \/ Start(c) \/ Update(c) \/ Query(c)
  \/ OnceDo(c) \/ Mark(c) \/ Close(c) \/ Delete(c)
  \/ WaitStopped(c) \/ WaitReply(c)

ControllerNext ==
  \/ \E i \in Ids : Create(i)
  \/ \E c \in Calls, op \in Ops, i \in Ids : Get(c, op, i)
  \/ \E c \in Calls : Run(c) \/ WaitCancelled(c)
  \/ Signal \/ Drained

ControllerSpec == ControllerInit /\ [][ControllerNext]_controller_vars

(* Goroutines run, and the server stops once it may; nobody has to make a  *)
(* call, cancel one or send a signal.                                      *)
ControllerFairSpec ==
  ControllerSpec /\ WF_controller_vars(Drained) /\ \A c \in Calls : WF_controller_vars(Run(c))

-----------------------------------------------------------------------------
(* Properties *)

(* A Wait that is told of the end finds it recorded: the exit status and   *)
(* time are set, once, before the channel is closed.                       *)
ExitBeforeClose == \A r \in Records : exits[r] <= 1 /\ (stopped[r] => exits[r] = 1)

(* No channel is closed twice (which would panic), however many Stops and  *)
(* Shutdowns of a sandbox race.                                            *)
NeverClosedTwice == \A c \in Calls : CallAt(c, "close") => ~stopped[call[c].rec]

(* Why they hold: the Once admits one call to the two steps of stopRecord, *)
(* and its state says how far that call is.                                *)
Stopping(c, r) == call[c].pc \in {"mark", "close"} /\ call[c].rec = r

(* The inductive invariant of the proofs: the progress of stopRecord on a  *)
(* record is what its Once, its exit and its channel say.                  *)
OnceInv ==
  /\ \A r \in Records :
       /\ once[r] = "new" => exits[r] = 0 /\ ~stopped[r]
       /\ once[r] = "running" => exits[r] \in {0, 1} /\ ~stopped[r]
       /\ once[r] = "done" => exits[r] = 1 /\ stopped[r]
  /\ \A c \in Calls :
       /\ CallAt(c, "mark") => once[call[c].rec] = "running" /\ exits[call[c].rec] = 0
       /\ CallAt(c, "close") => once[call[c].rec] = "running" /\ exits[call[c].rec] = 1
  /\ \A c, d \in Calls, r \in Records : Stopping(c, r) /\ Stopping(d, r) => c = d

(* A sandbox leaves the map only through a Shutdown that has stopped the   *)
(* record it looked up, and what leaves is that record, so that nobody     *)
(* waits for a sandbox that no call can reach.  The one exception: another *)
(* Shutdown has taken that record out while this one was running; then the *)
(* delete takes out what was created under the id since, stopped or not.   *)
RemovedIsStopped ==
  [][\A i \in Ids : sandboxes[i] \notin {NoRecord, sandboxes'[i]} =>
       \E c \in Calls :
         /\ CallAt(c, "delete") /\ call'[c].pc = "idle"
         /\ call[c].op = "shutdown" /\ call[c].id = i /\ stopped[call[c].rec]
         /\ \/ sandboxes[i] = call[c].rec
            \/ \A j \in Ids : sandboxes[j] # call[c].rec]_controller_vars

(* Every Wait on a sandbox that somebody stops returns.                    *)
StopEndsWait ==
  \A c \in Calls :
    (CallAt(c, "wait") /\ once[call[c].rec] # "new") ~> ~CallAt(c, "wait")

(* GracefulStop comes to an end, if no Wait is left on a running sandbox.  *)
DrainEnds ==
  (server = "draining" /\ \A c \in Calls : CallAt(c, "wait") => stopped[call[c].rec])
    ~> server = "stopped"
=============================================================================
