---------------------------- MODULE MemorySender ----------------------------
(***************************************************************************)
(* SendAdditionalConnections of vmm/src/migration_transport.rs: the worker *)
(* threads that send guest memory over connections of their own, and the   *)
(* bounded channel through which the main thread gives them chunks, gates  *)
(* and the request to end.  A chunk is a page.  A worker waits for the     *)
(* answer to a chunk before it takes the next message.                     *)
(***************************************************************************)
EXTENDS Integers, Sequences, FiniteSets

CONSTANTS Pages, Workers, QueueSize, Gate, Disconnect

ASSUME SenderConstants ==
  /\ QueueSize \in Nat \ {0} /\ IsFiniteSet(Workers)
  /\ Workers \cap Pages = {} /\ {Gate, Disconnect} \cap (Workers \cup Pages) = {} /\ Gate # Disconnect

VARIABLES
  threads,      (* the workers that have not been joined                   *)
  queue,        (* the channel to the workers                              *)
  busy,         (* the message a worker is busy with; itself when idle     *)
  ended,        (* the workers that returned                               *)
  worker_error, (* the flag, and with it a notification                    *)
  at_gate,      (* notifications of the gate                               *)
  open,         (* the gate of the iteration is open                       *)
  dropped,      (* history: a Disconnect found the channel full            *)
  stale         (* pages of which the destination has not the content      *)

sender == <<threads, queue, busy, ended, worker_error, at_gate, open, dropped>>

SenderTypeOK ==
  /\ threads \subseteq Workers
  /\ queue \in Seq(Pages \cup {Gate, Disconnect}) /\ Len(queue) <= QueueSize
  /\ busy \in [Workers -> Workers \cup Pages \cup {Gate}]
  /\ ended \subseteq Workers
  /\ at_gate \in 0 .. Cardinality(Workers)
  /\ \A b \in {worker_error, open, dropped} : b \in BOOLEAN
  /\ stale \subseteq Pages

(* One connection is the main one; more are workers. *)
SenderInit ==
  /\ threads \in {{}, Workers}
  /\ queue = <<>>
  /\ busy = [w \in Workers |-> w]
  /\ ended = Workers \ threads
  /\ worker_error = FALSE /\ at_gate = 0 /\ open = FALSE /\ dropped = FALSE
  /\ stale = Pages

-----------------------------------------------------------------------------
(* worker_send_memory *)

Idle(w) == w \notin ended /\ busy[w] = w

Take(w) ==
  /\ Idle(w) /\ queue # <<>>
  /\ queue' = Tail(queue)
  /\ IF Head(queue) = Disconnect
       THEN ended' = ended \cup {w} /\ UNCHANGED <<busy, at_gate>>
       ELSE /\ busy' = [busy EXCEPT ![w] = Head(queue)]
            /\ at_gate' = IF Head(queue) = Gate THEN at_gate + 1 ELSE at_gate
            /\ UNCHANGED ended
  /\ UNCHANGED <<threads, worker_error, open, dropped, stale>>

(* The page is written at the destination, and acknowledged. *)
Sent(w) ==
  /\ busy[w] \in Pages
  /\ stale' = stale \ {busy[w]}
  /\ busy' = [busy EXCEPT ![w] = w]
  /\ UNCHANGED <<threads, queue, ended, worker_error, at_gate, open, dropped>>

SendFails(w) ==
  /\ busy[w] \in Pages
  /\ stale' \in {stale, stale \ {busy[w]}}
  /\ busy' = [busy EXCEPT ![w] = w]
  /\ ended' = ended \cup {w}
  /\ worker_error' = TRUE
  /\ UNCHANGED <<threads, queue, at_gate, open, dropped>>

PassGate(w) ==
  /\ busy[w] = Gate /\ open
  /\ busy' = [busy EXCEPT ![w] = w]
  /\ UNCHANGED <<threads, queue, ended, worker_error, at_gate, open, dropped, stale>>

SenderWorker(w) == Take(w) \/ Sent(w) \/ PassGate(w)

-----------------------------------------------------------------------------
(* The main thread's side of the channel *)

Push(message) == Len(queue) < QueueSize /\ queue' = Append(queue, message)

(* cleanup: try_send of a Disconnect for every thread. *)
Disconnects == [i \in 1 .. Cardinality(threads) |-> Disconnect]
Room == QueueSize - Len(queue)
CleanupSends ==
  /\ queue' = queue \o SubSeq(Disconnects, 1, IF Room < Len(Disconnects) THEN Room ELSE Len(Disconnects))
  /\ dropped' = (dropped \/ Room < Cardinality(threads \ ended))

(* The gate of an iteration: a new one is closed, and opening it releases  *)
(* the workers that wait at it.                                            *)
OpenGate ==
  /\ open' = TRUE
  /\ busy' = [w \in Workers |-> IF busy[w] = Gate THEN w ELSE busy[w]]
=============================================================================
