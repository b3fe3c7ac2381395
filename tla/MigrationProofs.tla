-------------------------- MODULE MigrationProofs --------------------------
(***************************************************************************)
(* The safety properties of a live migration, for any memory, any number   *)
(* of workers and any size of the channel.                                 *)
(*                                                                         *)
(* ProtocolInv relates the source's place in the protocol to the VM at the *)
(* destination.  MemoryInv says, for every place of the source, where a    *)
(* page is that the destination has not as it is: in the dirty log, in the *)
(* table of the iteration, in the channel or with a worker.                *)
(***************************************************************************)
EXTENDS Migration, FiniteSetTheorems, SequenceTheorems, TLAPS

(* Zenon settles most steps at once; the others get more than the default. *)
USE ZenonT(3), SMTT(20), ZenonT(20)

Requesting == {"Start", "MemoryFd", "Config", "start_dirty_log"}
Between    == {"iterate", "pause", "final", "send", "Memory", "sent"}
Cleaning   == {"cleanup", "join"}
Completed  == {"stop_dirty_log", "complete_migration", "done"}
After      == {"State", "Complete"} \cup Completed
Early      == Requesting \cup Between \cup {"chunks", "gates"} \cup Cleaning \cup {"release"}
Labels     == Early \cup After \cup {"undo", "failed"}

-----------------------------------------------------------------------------
(* The protocol *)

(* Until the source sends State there is no VM at the destination. *)
NotYet ==
  spc \in Early => dvm = "None" /\ ~dlocked /\ chan \notin {"State", "Complete"}
                   /\ state \notin {"StateReceived", "Completed"}

(* One request at a time is on the connection. *)
OneRequest ==
  /\ spc \in Requests => chan \in {"none", "ok", "error", spc}
  /\ spc \in Labels \ (Requests \cup {"undo", "failed"}) => chan = "none"

PausedSince == spc \in {"final", "release"} \cup After => vm = "Paused"

(* What Complete may have done, and what it has done once answered.        *)
Completing ==
  /\ late => spc \in {"undo", "failed"}
  /\ chan = "Complete" => late \/ spc = "Complete"
  /\ dvm = "Running" => late \/ spc \in Completed \/ (spc = "Complete" /\ chan = "ok")
  /\ (spc = "Complete" /\ chan = "ok") \/ spc \in Completed => dvm = "Running"

DestHolds ==
  /\ state \in {"StateReceived", "Completed"} => dlocked
  /\ dvm = "Running" => state = "Completed"
  /\ ~(locked /\ dlocked)

Undone == spc = "failed" => vm = "Running" \/ stuck

(* The flag of the last iteration. *)
FinalPaused ==
  /\ spc \in Requesting \cup {"iterate", "pause", "final"} => ~final
  /\ spc \in {"send", "Memory", "chunks", "gates", "sent"} \cup Cleaning =>
       (final => vm = "Paused" /\ log = {})

ProtocolInv ==
  /\ spc \in Labels /\ vm \in {"Running", "Paused"} /\ final \in BOOLEAN
  /\ late \in BOOLEAN /\ locked \in BOOLEAN /\ dlocked \in BOOLEAN /\ stuck \in BOOLEAN
  /\ NotYet /\ OneRequest /\ PausedSince /\ Completing /\ DestHolds /\ Undone /\ FinalPaused

-----------------------------------------------------------------------------
(* The memory *)

Sound == ~local /\ ~worker_error

(* Between two iterations the channel is empty and the workers are idle. *)
Idling == queue = <<>> /\ busy = [w \in Workers |-> w]

InQueue(p) == \E i \in 1 .. Len(queue) : queue[i] = p
WithWorker(p) == \E w \in Workers : busy[w] = p

(* Chunks alone are in the channel. *)
ChunksOnly ==
  /\ queue \in Seq(Pages)
  /\ busy \in [Workers -> Workers \cup Pages] /\ \A w \in Workers : busy[w] \in Pages \cup {w}

(* The first g messages are chunks and the others gates; once a worker is  *)
(* at the gate there is no chunk in front of the others.                   *)
GatesAfter(g) ==
  /\ \A i \in 1 .. Len(queue) : (i <= g => queue[i] \in Pages) /\ (i > g => queue[i] = Gate)
  /\ Len(queue) - g + at_gate <= Cardinality(threads)
  /\ at_gate > 0 => g = 0
GatesLast ==
  /\ queue \in Seq(Pages \cup {Gate})
  /\ busy \in [Workers -> Workers \cup Pages \cup {Gate}]
  /\ \A w \in Workers : busy[w] \in Pages \cup {w, Gate}
  /\ at_gate = Cardinality({w \in Workers : busy[w] = Gate})
  /\ ~open /\ table = {}
  /\ \E g \in 0 .. Len(queue) : GatesAfter(g)

Channel ==
  ~worker_error =>
    /\ spc \in Requesting \cup Between => Idling
    /\ spc = "chunks" => ChunksOnly
    /\ spc = "gates" => GatesLast

Threads ==
  /\ spc \in Early \ {"release"} => threads \in {{}, Workers}
  /\ spc \in {"chunks", "gates"} => threads # {}
  /\ spc \in Early \ (Cleaning \cup {"release"}) /\ ~worker_error => ended = Workers \ threads

(* Where the pages are that the destination has not. *)
Covered ==
  /\ spc \in Requesting => iteration = 0
  /\ spc = "iterate" => iteration = 0 \/ stale \subseteq log
  /\ spc \in {"pause", "final"} => stale \subseteq log \cup remaining
  /\ spc \in {"send", "Memory"} => stale \subseteq log \cup table
  /\ spc = "Memory" /\ chan = "ok" => stale \subseteq log
  /\ spc \in {"chunks", "gates"} =>
       \A p \in stale : p \in log \cup table \/ InQueue(p) \/ WithWorker(p)
  /\ spc = "sent" => stale \subseteq log
  /\ spc \in Cleaning /\ final => stale = {}

(* The last iteration left nothing behind. *)
AllArrived ==
  ~local => /\ spc \in {"release"} \cup After => stale = {}
            /\ spc \in {"undo", "failed"} /\ vm = "Paused" /\ (chan \in {"State", "Complete"} \/ dvm # "None") => stale = {}

MemoryInv ==
  /\ stale \subseteq Pages /\ log \subseteq Pages /\ worker_error \in BOOLEAN /\ local \in BOOLEAN
  /\ Channel /\ Threads /\ (Sound => Covered) /\ AllArrived

IInv == ProtocolInv /\ MemoryInv

-----------------------------------------------------------------------------
(* The source keeps the protocol's part of the invariant. *)
LEMMA MainProtocol == ASSUME ProtocolInv, MainStep PROVE ProtocolInv'
<1> USE DEF ProtocolInv, NotYet, OneRequest, PausedSince, Completing, DestHolds, Undone, FinalPaused,
            Requesting, Between, Cleaning, Completed, After, Early, Labels, Requests, dest, Quiet
<1>1. CASE Iterate
  BY <1>1 DEF Iterate
<1>2. CASE Converged
  BY <1>2 DEF Converged
<1>3. CASE TimeoutCancels
  BY <1>3 DEF TimeoutCancels, Goes
<1>4. CASE PauseFails
  BY <1>4 DEF PauseFails, Goes
<1>5. CASE FinalTable
  BY <1>5 DEF FinalTable
<1>6. CASE SendMemory
  BY <1>6 DEF SendMemory, Goes
<1>7. CASE ChunksQueued
  BY <1>7 DEF ChunksQueued, Goes
<1>8. CASE ChunkSeesError
  BY <1>8 DEF ChunkSeesError, Goes
<1>9. CASE SendGate
  BY <1>9 DEF SendGate
<1>10. CASE SendGateFails
  BY <1>10 DEF SendGateFails, Goes
<1>11. CASE AllAtGate
  BY <1>11 DEF AllAtGate, Goes
<1>12. CASE GateSeesError
  BY <1>12 DEF GateSeesError, Goes
<1>13. CASE MemorySent
  BY <1>13 DEF MemorySent
<1>14. CASE Cleanup
  BY <1>14 DEF Cleanup, Goes
<1>15. CASE StartDirtyLog
  BY <1>15 DEF StartDirtyLog
<1>16. CASE PauseVm
  BY <1>16 DEF PauseVm
<1>17. CASE Join
  BY <1>17 DEF Join, Goes, Fails
<1>18. CASE ReleaseDiskLocks
  BY <1>18 DEF ReleaseDiskLocks
<1>19. CASE SnapshotFails
  BY <1>19 DEF SnapshotFails, Fails
<1>20. CASE StopDirtyLog
  BY <1>20 DEF StopDirtyLog, Goes
<1>21. CASE CompleteMigration
  BY <1>21 DEF CompleteMigration, Goes
<1>22. CASE LateFailure
  BY <1>22 DEF LateFailure, Fails
<1>23. CASE Undo
  BY <1>23 DEF Undo
<1>24. CASE \E p \in Pages : SendChunk(p)
  BY <1>24 DEF SendChunk
<1>25. CASE SendRequest
  BY <1>25 DEF SendRequest, source
<1>26. CASE Answered
  BY <1>26 DEF Answered, AfterAnswer, source
<1>27. CASE RequestFails
  BY <1>27 DEF RequestFails, Fails
<1> QED BY <1>1, <1>2, <1>3, <1>4, <1>5, <1>6, <1>7, <1>8, <1>9, <1>10, <1>11, <1>12, <1>13, <1>14, <1>15, <1>16, <1>17, <1>18, <1>19, <1>20, <1>21, <1>22, <1>23, <1>24, <1>25, <1>26, <1>27 DEF MainStep

(* Steps that change nothing the protocol's part speaks of. *)
LEMMA ProtocolSame ==
  ASSUME ProtocolInv, UNCHANGED <<vm, locked, log, final, stuck, late, spc, chan, state, dvm, dlocked>>
  PROVE  ProtocolInv'
BY DEF ProtocolInv, NotYet, OneRequest, PausedSince, Completing, DestHolds, Undone, FinalPaused

(* The destination, the guest, the network and the workers keep it too.    *)
LEMMA OthersProtocol ==
  ASSUME ProtocolInv,
         \/ DestStep \/ ConnectionLost \/ (\E p \in Pages : GuestWrites(p)) \/ UNCHANGED vars
         \/ \E w \in Workers : WorkerStep(w) \/ WorkerFails(w)
  PROVE  ProtocolInv'
<1>0. CASE UNCHANGED <<source, spc, chan, dest>>
  BY <1>0, ProtocolSame DEF source, dest
<1> USE DEF ProtocolInv, NotYet, OneRequest, PausedSince, Completing, DestHolds, Undone, FinalPaused,
            Requesting, Between, Cleaning, Completed, After, Early, Labels, Requests
<1>1. CASE HandleRequest
  <2>1. UNCHANGED <<source, spc>> /\ chan' = "ok" /\ ~Finished
    BY <1>1 DEF HandleRequest
  <2>2. CASE chan = "State"
    <3>1. state' = "StateReceived" /\ dvm' = "Paused" /\ dlocked' = TRUE /\ ~locked
      BY <1>1, <2>2 DEF HandleRequest, Accepted, Step
    <3> QED BY <2>1, <2>2, <3>1 DEF source, Finished
  <2>3. CASE chan = "Complete"
    <3>1. state = "StateReceived" /\ state' = "Completed" /\ dvm' = "Running" /\ dlocked' = dlocked
      BY <1>1, <2>3 DEF HandleRequest, Accepted, Step
    <3> QED BY <2>1, <2>3, <3>1 DEF source, Finished
  <2>4. CASE chan \notin {"State", "Complete"}
    <3>1. /\ state' \in {"Started", "MemoryFdsReceived", "Configured"}
          /\ dvm' = dvm /\ dlocked' = dlocked
      BY <1>1, <2>4 DEF HandleRequest, Accepted, Step
    <3> QED BY <1>1, <2>1, <2>4, <3>1 DEF source, Finished, HandleRequest
  <2> QED BY <2>2, <2>3, <2>4
<1>2. CASE AbortRequest
  <2>1. /\ UNCHANGED <<vm, locked, log, final, stuck, late, spc>>
        /\ chan \in Requests /\ chan' = "error" /\ state \notin {"Completed", "Aborted", "Error"}
        /\ state' = "Aborted" /\ dvm' = "None" /\ dlocked' = FALSE
    BY <1>2 DEF AbortRequest, Finished, source
  <2>2. dvm # "Running" /\ spc \notin Completed
    BY <2>1
  <2>3. NotYet' /\ OneRequest' /\ PausedSince' /\ Undone' /\ FinalPaused'
    BY <2>1
  <2>4. Completing' /\ DestHolds'
    BY <2>1, <2>2
  <2> QED BY <2>1, <2>3, <2>4
<1>3. CASE ReceiveFails
  BY <1>3 DEF ReceiveFails, Finished, source
<1>4. CASE \E p \in Pages : GuestWrites(p)
  BY <1>4 DEF GuestWrites, dest
<1> HIDE DEF ProtocolInv
<1> QED BY <1>0, <1>1, <1>2, <1>3, <1>4 DEF DestStep, ConnectionLost, vars, WorkerStep, WorkerFails

-----------------------------------------------------------------------------
(* Where the channel and the workers are left alone. *)
LEMMA SenderSame ==
  ASSUME UNCHANGED sender
  PROVE  /\ Idling' <=> Idling
         /\ ChunksOnly' <=> ChunksOnly
         /\ table' = table => (GatesLast' <=> GatesLast)
         /\ \A p : (InQueue(p)' <=> InQueue(p)) /\ (WithWorker(p)' <=> WithWorker(p))
BY DEF sender, Idling, ChunksOnly, GatesLast, GatesAfter, InQueue, WithWorker

(* The main thread's steps that leave the channel alone keep the memory's  *)
(* part of the invariant.                                                  *)
QuietStep ==
  \/ SendRequest \/ Answered \/ RequestFails \/ StartDirtyLog \/ Iterate \/ Converged
  \/ TimeoutCancels \/ PauseVm \/ PauseFails \/ FinalTable \/ SendMemory \/ ChunkSeesError
  \/ SendGateFails \/ MemorySent \/ ReleaseDiskLocks \/ SnapshotFails \/ StopDirtyLog
  \/ CompleteMigration \/ LateFailure \/ Undo
LEMMA QuietMemory ==
  ASSUME IInv, QuietStep
  PROVE  MemoryInv'
<1> USE DEF IInv, MemoryInv, Channel, Threads, Covered, AllArrived, Sound,
            Requesting, Between, Cleaning, Completed, After, Early, Labels, Requests
<1>00. UNCHANGED sender
  BY DEF QuietStep, SendRequest, Answered, RequestFails, StartDirtyLog, Iterate, Converged,
         TimeoutCancels, PauseVm, PauseFails, FinalTable, SendMemory, ChunkSeesError,
         SendGateFails, MemorySent, ReleaseDiskLocks, SnapshotFails, StopDirtyLog,
         CompleteMigration, LateFailure, Undo
<1>0. /\ UNCHANGED <<threads, ended, worker_error>>
      /\ Idling' <=> Idling
      /\ ChunksOnly' <=> ChunksOnly
      /\ table' = table => (GatesLast' <=> GatesLast)
      /\ \A p : (InQueue(p)' <=> InQueue(p)) /\ (WithWorker(p)' <=> WithWorker(p))
  BY <1>00, SenderSame DEF sender
<1>1. CASE SendRequest
  BY <1>0, <1>1 DEF SendRequest, source, dest, ProtocolInv, NotYet, OneRequest
<1>2. CASE Answered
  BY <1>0, <1>2 DEF Answered, AfterAnswer, source, dest, ProtocolInv, NotYet, OneRequest
<1>3. CASE RequestFails
  BY <1>0, <1>3 DEF RequestFails, Fails, dest, ProtocolInv, NotYet, OneRequest
<1>4. CASE StartDirtyLog
  BY <1>0, <1>4 DEF StartDirtyLog, Quiet
<1>5. CASE Iterate
  BY <1>0, <1>5 DEF Iterate, IterationTable, Quiet
<1>6. CASE Converged
  BY <1>0, <1>6 DEF Converged, IterationTable, Quiet
<1>7. CASE TimeoutCancels
  BY <1>0, <1>7 DEF TimeoutCancels, Goes, Quiet, ProtocolInv, FinalPaused
<1>8. CASE PauseVm
  BY <1>0, <1>8 DEF PauseVm, Quiet
<1>9. CASE PauseFails
  BY <1>0, <1>9 DEF PauseFails, Goes, Quiet, ProtocolInv, FinalPaused
<1>10. CASE FinalTable
  BY <1>0, <1>10 DEF FinalTable, Quiet
<1>11. CASE SendMemory
  <2>1. Idling => ChunksOnly
    BY EmptySeq DEF Idling, ChunksOnly
  <2>2. UNCHANGED <<local, log, table, stale, vm, chan, dvm, iteration>> /\ spc = "send" /\ chan = "none"
    BY <1>11 DEF SendMemory, Goes, Quiet, dest, ProtocolInv, OneRequest
  <2>3. CASE table = {}
    <3>1. spc' = "sent"
      BY <1>11, <2>3 DEF SendMemory, Goes
    <3> QED BY <1>0, <2>2, <2>3, <3>1
  <2>4. CASE table # {} /\ threads = {}
    <3>1. spc' = "Memory"
      BY <1>11, <2>4 DEF SendMemory, Goes
    <3> QED BY <1>0, <2>2, <2>4, <3>1
  <2>5. CASE table # {} /\ threads # {}
    <3>1. spc' = "chunks"
      BY <1>11, <2>5 DEF SendMemory, Goes
    <3> QED BY <1>0, <2>1, <2>2, <2>5, <3>1
  <2> QED BY <2>3, <2>4, <2>5
<1>12. CASE ChunkSeesError
  BY <1>0, <1>12 DEF ChunkSeesError, Goes, Quiet
<1>13. CASE SendGateFails
  BY <1>0, <1>13 DEF SendGateFails, Goes, Quiet
<1>14. CASE MemorySent
  BY <1>0, <1>14 DEF MemorySent, Quiet, ProtocolInv, FinalPaused
<1>15. CASE ReleaseDiskLocks
  BY <1>0, <1>15 DEF ReleaseDiskLocks, Quiet
<1>16. CASE SnapshotFails
  BY <1>0, <1>16 DEF SnapshotFails, Fails, Quiet, ProtocolInv
<1>17. CASE StopDirtyLog
  BY <1>0, <1>17 DEF StopDirtyLog, Goes, Quiet
<1>18. CASE CompleteMigration
  BY <1>0, <1>18 DEF CompleteMigration, Goes, Quiet
<1>19. CASE LateFailure
  BY <1>0, <1>19 DEF LateFailure, Fails, dest
<1>20. CASE Undo
  <2>1. /\ UNCHANGED <<local, log, stale, chan, dvm>> /\ spc = "undo" /\ spc' = "failed"
        /\ vm' = vm \/ vm' = "Running"
    BY <1>20 DEF Undo, Quiet, dest
  <2> QED BY <1>0, <2>1
<1> QED BY <1>1, <1>2, <1>3, <1>4, <1>5, <1>6, <1>7, <1>8, <1>9, <1>10, <1>11, <1>12, <1>13, <1>14,
           <1>15, <1>16, <1>17, <1>18, <1>19, <1>20
        DEF QuietStep

(* The size of a finite set of threads. *)
LEMMA ThreadsFinite ==
  ASSUME NEW T \in SUBSET Workers
  PROVE  IsFiniteSet(T) /\ Cardinality(T) \in Nat
BY FS_Subset, FS_CardinalityType, SenderConstants

(* A chunk goes from the table into the channel. *)
LEMMA ChunkMemory ==
  ASSUME IInv, NEW p \in Pages, SendChunk(p)
  PROVE  MemoryInv'
<1>1. /\ UNCHANGED <<local, log, stale, vm, chan, dvm, iteration, threads, ended, worker_error, busy, spc>>
      /\ spc = "chunks" /\ ~worker_error /\ table' = table \ {p} /\ queue' = Append(queue, p)
  BY DEF SendChunk, Push, Quiet, dest
<1>2. ChunksOnly
  BY <1>1 DEF IInv, MemoryInv, Channel
<1>3. queue \in Seq(Pages) /\ Len(queue) \in Nat
  BY <1>2, LenProperties DEF ChunksOnly
<1>4. /\ Append(queue, p) \in Seq(Pages) /\ Len(Append(queue, p)) = Len(queue) + 1
      /\ Append(queue, p)[Len(queue) + 1] = p
      /\ \A i \in 1 .. Len(queue) : Append(queue, p)[i] = queue[i]
  BY <1>3, AppendProperties
<1>5. ChunksOnly'
  BY <1>1, <1>2, <1>4 DEF ChunksOnly
<1>6. \A q \in Pages : /\ InQueue(q) \/ q = p => InQueue(q)'
                       /\ WithWorker(q) => WithWorker(q)'
  BY <1>1, <1>3, <1>4 DEF InQueue, WithWorker
<1> QED BY <1>1, <1>5, <1>6
        DEF IInv, MemoryInv, Channel, Threads, Covered, AllArrived, Sound,
            Requesting, Between, Cleaning, Completed, After, Early, Labels

(* All chunks are in the channel; a new gate is closed. *)
LEMMA QueuedMemory ==
  ASSUME IInv, ChunksQueued
  PROVE  MemoryInv'
<1>1. /\ UNCHANGED <<local, log, stale, vm, chan, dvm, iteration, threads, queue, busy, ended, worker_error, table>>
      /\ spc = "chunks" /\ spc' = "gates" /\ table = {} /\ open' = FALSE /\ at_gate' = 0
  BY DEF ChunksQueued, Goes, Quiet, dest
<1>2. ASSUME ~worker_error PROVE GatesLast'
  <2>1. ChunksOnly
    BY <1>1, <1>2 DEF IInv, MemoryInv, Channel
  <2>2. queue \in Seq(Pages) /\ Len(queue) \in Nat /\ queue \in Seq(Pages \cup {Gate})
        /\ \A i \in 1 .. Len(queue) : queue[i] \in Pages
    BY <2>1, LenProperties, ElementOfSeq, SeqDef DEF ChunksOnly
  <2>3. {w \in Workers : busy'[w] = Gate} = {}
    BY <1>1, <2>1, SenderConstants DEF ChunksOnly
  <2>4. Cardinality({w \in Workers : busy'[w] = Gate}) = 0
    BY <2>3, FS_EmptySet
  <2>5. Cardinality(threads) \in Nat
    BY <1>1, ThreadsFinite DEF IInv, MemoryInv, Threads, Early, Requesting, Between, Cleaning
  <2>6. GatesAfter(Len(queue))'
    BY <1>1, <2>2, <2>5 DEF GatesAfter
  <2>7. \E g \in 0 .. Len(queue') : GatesAfter(g)'
    BY <1>1, <2>2, <2>6 DEF GatesAfter
  <2> QED BY <1>1, <2>1, <2>2, <2>4, <2>7 DEF GatesLast, ChunksOnly
<1>3. \A q : (InQueue(q) => InQueue(q)') /\ (WithWorker(q) => WithWorker(q)')
  BY <1>1 DEF InQueue, WithWorker
<1> QED BY <1>1, <1>2, <1>3
        DEF IInv, MemoryInv, Channel, Threads, Covered, AllArrived, Sound,
            Requesting, Between, Cleaning, Completed, After, Early, Labels

(* Gates never outnumber the workers: the main thread counts those in the  *)
(* channel and those that were answered.                                   *)
LEMMA GateMemory ==
  ASSUME IInv, SendGate
  PROVE  MemoryInv'
<1>1. /\ UNCHANGED <<local, log, stale, vm, chan, dvm, iteration, threads, ended, worker_error, busy, spc,
                     table, at_gate, open>>
      /\ spc = "gates" /\ queue' = Append(queue, Gate) /\ GatesOut < Cardinality(threads)
  BY DEF SendGate, Push, Quiet, dest
<1>2. ASSUME ~worker_error PROVE GatesLast' /\ \A q \in Pages : InQueue(q) => InQueue(q)'
  <2>1. GatesLast
    BY <1>1, <1>2 DEF IInv, MemoryInv, Channel
  <2>2. queue \in Seq(Pages \cup {Gate}) /\ Len(queue) \in Nat /\ at_gate \in Nat
    BY <2>1, LenProperties, ThreadsFinite DEF GatesLast
  <2>3. /\ queue' \in Seq(Pages \cup {Gate}) /\ Len(queue') = Len(queue) + 1
        /\ queue'[Len(queue) + 1] = Gate
        /\ \A i \in 1 .. Len(queue) : queue'[i] = queue[i]
    BY <1>1, <2>2, AppendProperties
  <2>4. PICK g \in 0 .. Len(queue) : GatesAfter(g)
    BY <2>1 DEF GatesLast
  <2>5. {i \in 1 .. Len(queue) : queue[i] = Gate} = g + 1 .. Len(queue)
    BY <2>2, <2>4, SenderConstants DEF GatesAfter
  <2>6. Cardinality(g + 1 .. Len(queue)) = Len(queue) - g
    <3>1. g + 1 \in Int /\ Len(queue) \in Int
      BY <2>2
    <3>2. Cardinality(g + 1 .. Len(queue)) =
            IF g + 1 > Len(queue) THEN 0 ELSE Len(queue) - (g + 1) + 1
      BY <3>1, FS_Interval
    <3> QED BY <2>2, <3>2
  <2>7. Cardinality(threads) \in Nat
    BY <1>1, ThreadsFinite DEF IInv, MemoryInv, Threads, Early, Requesting, Between, Cleaning
  <2>8. Len(queue) - g + at_gate < Cardinality(threads)
    BY <1>1, <2>5, <2>6 DEF GatesOut
  <2>9. GatesAfter(g)'
    BY <1>1, <2>2, <2>3, <2>4, <2>7, <2>8 DEF GatesAfter
  <2>10. \E h \in 0 .. Len(queue') : GatesAfter(h)'
    BY <2>2, <2>3, <2>9 DEF GatesAfter
  <2>11. \A q \in Pages : InQueue(q) => InQueue(q)'
    BY <2>2, <2>3 DEF InQueue
  <2> QED BY <1>1, <2>1, <2>3, <2>10, <2>11 DEF GatesLast
<1>3. \A q : WithWorker(q) => WithWorker(q)'
  BY <1>1 DEF WithWorker
<1> QED BY <1>1, <1>2, <1>3
        DEF IInv, MemoryInv, Channel, Threads, Covered, AllArrived, Sound,
            Requesting, Between, Cleaning, Completed, After, Early, Labels

(* When as many workers are at the gate as there are, every one of them    *)
(* is, none has a chunk, and the channel is empty.                         *)
LEMMA AllAtGateMeans ==
  ASSUME IInv, spc = "gates", ~worker_error, at_gate = Cardinality(threads)
  PROVE  queue = <<>> /\ \A w \in Workers : busy[w] = Gate
<1>1. GatesLast /\ threads = Workers /\ threads # {}
  BY DEF IInv, MemoryInv, Channel, Threads, Early, Requesting, Between, Cleaning
<1>2. {w \in Workers : busy[w] = Gate} = Workers
  <2>1. Cardinality({w \in Workers : busy[w] = Gate}) = Cardinality(Workers)
    BY <1>1 DEF GatesLast
  <2> QED BY <2>1, FS_Subset, SenderConstants
<1>3. Cardinality(threads) \in Nat /\ Cardinality(threads) # 0
  BY <1>1, ThreadsFinite, FS_EmptySet, SenderConstants
<1>4. PICK g \in 0 .. Len(queue) : GatesAfter(g)
  BY <1>1 DEF GatesLast
<1>5. queue \in Seq(Pages \cup {Gate}) /\ Len(queue) \in Nat
  BY <1>1, LenProperties DEF GatesLast
<1>6. Len(queue) = 0
  BY <1>3, <1>4, <1>5 DEF GatesAfter
<1> QED BY <1>2, <1>5, <1>6, EmptySeq

(* The gate opens: the iteration is sent, or it has failed. *)
LEMMA OpenMemory ==
  ASSUME IInv, AllAtGate \/ GateSeesError
  PROVE  MemoryInv'
<1>1. /\ UNCHANGED <<local, log, stale, vm, chan, dvm, iteration, threads, queue, ended, worker_error, table>>
      /\ busy' = [w \in Workers |-> IF busy[w] = Gate THEN w ELSE busy[w]]
      /\ spc = "gates" /\ ((spc' = "sent" /\ at_gate = Cardinality(threads)) \/ (spc' = "cleanup" /\ worker_error))
  <2>1. CASE AllAtGate
    <3>1. at_gate = Cardinality(threads) /\ spc = "gates" /\ spc' = "sent"
      BY <2>1 DEF AllAtGate, Goes
    <3>2. UNCHANGED <<local, log, stale, vm, chan, dvm, iteration, threads, queue, ended, worker_error, table>>
      BY <2>1 DEF AllAtGate, Goes, Quiet, dest
    <3>3. busy' = [w \in Workers |-> IF busy[w] = Gate THEN w ELSE busy[w]]
      BY <2>1 DEF AllAtGate, OpenGate
    <3> QED BY <3>1, <3>2, <3>3, Zenon
  <2>2. CASE GateSeesError
    <3>1. worker_error /\ spc = "gates" /\ spc' = "cleanup"
      BY <2>2 DEF GateSeesError, Goes
    <3>2. UNCHANGED <<local, log, stale, vm, chan, dvm, iteration, threads, queue, ended, worker_error, table>>
      BY <2>2 DEF GateSeesError, Goes, Quiet, dest
    <3>3. busy' = [w \in Workers |-> IF busy[w] = Gate THEN w ELSE busy[w]]
      BY <2>2 DEF GateSeesError, OpenGate
    <3> QED BY <3>1, <3>2, <3>3, Zenon
  <2> QED BY <2>1, <2>2
<1>2. ASSUME ~worker_error PROVE Idling' /\ (Sound => stale \subseteq log)
  <2>1. queue = <<>> /\ \A w \in Workers : busy[w] = Gate
    BY <1>1, <1>2, AllAtGateMeans
  <2>2. Idling'
    BY <1>1, <2>1 DEF Idling
  <2>3. \A q \in Pages : ~InQueue(q) /\ ~WithWorker(q)
    BY <2>1, SenderConstants DEF InQueue, WithWorker
  <2>4. table = {}
    BY <1>1, <1>2 DEF IInv, MemoryInv, Channel, GatesLast
  <2> QED BY <1>1, <2>2, <2>3, <2>4 DEF IInv, MemoryInv, Covered
<1> QED BY <1>1, <1>2
        DEF IInv, MemoryInv, Channel, Threads, Covered, AllArrived, Sound,
            Requesting, Between, Cleaning, Completed, After, Early, Labels

(* cleanup lets the migration go on only if no worker failed. *)
LEMMA CleanupMemory ==
  ASSUME IInv, Cleanup \/ Join
  PROVE  MemoryInv'
<1> USE DEF IInv, MemoryInv, Channel, Threads, Covered, AllArrived, Sound,
            Requesting, Between, Cleaning, Completed, After, Early, Labels
<1>1. CASE Cleanup
  BY <1>1 DEF Cleanup, Goes, Quiet, dest
<1>2. CASE Join
  BY <1>2 DEF Join, Goes, Fails, Quiet, dest, ProtocolInv, NotYet, OneRequest, Requests
<1> QED BY <1>1, <1>2

-----------------------------------------------------------------------------
(* The workers *)

(* Nothing but the channel, the workers and the destination's memory moves *)
(* in a step of a worker, and pages only arrive.                           *)
LEMMA WorkerFrame ==
  ASSUME NEW w \in Workers, WorkerStep(w) \/ WorkerFails(w)
  PROVE  /\ UNCHANGED <<local, log, vm, chan, dvm, iteration, spc, table, remaining, final, threads, open>>
         /\ stale' \subseteq stale
         /\ worker_error' = worker_error \/ worker_error' = TRUE
<1>1. CASE WorkerStep(w)
  BY <1>1 DEF WorkerStep, SenderWorker, Take, Sent, PassGate, source, dest
<1>2. CASE WorkerFails(w)
  BY <1>2 DEF WorkerFails, SendFails, source, dest
<1> QED BY <1>1, <1>2

(* A worker that fails makes the migration fail. *)
LEMMA FailsMemory ==
  ASSUME IInv, NEW w \in Workers, WorkerFails(w)
  PROVE  MemoryInv'
<1>1. worker_error' = TRUE
  BY DEF WorkerFails, SendFails
<1> QED BY <1>1, WorkerFrame
        DEF IInv, MemoryInv, Channel, Threads, AllArrived, Sound,
            Requesting, Between, Cleaning, Completed, After, Early, Labels

(* A worker is idle, or busy with a chunk or a gate, and with a gate only  *)
(* once it has none of the chunks before it.                               *)
LEMMA TakeChunk ==
  ASSUME ChunksOnly, NEW w \in Workers, Take(w)
  PROVE  /\ ChunksOnly' /\ ended' = ended
         /\ \A p \in Pages : InQueue(p) \/ WithWorker(p) => InQueue(p)' \/ WithWorker(p)'
<1>1. queue \in Seq(Pages) /\ queue # <<>> /\ busy[w] = w /\ Len(queue) \in Nat
  BY LenProperties DEF ChunksOnly, Take, Idle
<1>2. /\ Head(queue) \in Pages /\ Tail(queue) \in Seq(Pages) /\ Len(Tail(queue)) = Len(queue) - 1
      /\ \A i \in 1 .. Len(Tail(queue)) : Tail(queue)[i] = queue[i + 1]
      /\ Head(queue) = queue[1]
  BY <1>1, HeadTailProperties
<1>3. queue' = Tail(queue) /\ busy' = [busy EXCEPT ![w] = Head(queue)] /\ ended' = ended
  BY <1>2, SenderConstants DEF Take
<1>4. ChunksOnly'
  BY <1>2, <1>3 DEF ChunksOnly
<1>5. ASSUME NEW p \in Pages, InQueue(p) PROVE InQueue(p)' \/ WithWorker(p)'
  <2>1. PICK i \in 1 .. Len(queue) : queue[i] = p
    BY <1>5 DEF InQueue
  <2>2. CASE i = 1
    BY <1>2, <1>3, <2>1, <2>2 DEF WithWorker, ChunksOnly
  <2>3. CASE i > 1
    <3>1. i - 1 \in 1 .. Len(Tail(queue)) /\ Tail(queue)[i - 1] = p
      BY <1>1, <1>2, <2>1, <2>3
    <3> QED BY <1>3, <3>1 DEF InQueue
  <2> QED BY <1>1, <2>2, <2>3
<1>6. ASSUME NEW p \in Pages, WithWorker(p) PROVE WithWorker(p)'
  BY <1>1, <1>3, <1>6, SenderConstants DEF WithWorker, ChunksOnly
<1> QED BY <1>3, <1>4, <1>5, <1>6

(* Chunks are taken before gates, and a gate that is taken is counted. *)
LEMMA TakeGate ==
  ASSUME GatesLast, NEW w \in Workers, Take(w), table' = table, Cardinality(threads) \in Nat
  PROVE  /\ GatesLast' /\ ended' = ended
         /\ \A p \in Pages : InQueue(p) \/ WithWorker(p) => InQueue(p)' \/ WithWorker(p)'
<1> DEFINE AtGate == {u \in Workers : busy[u] = Gate}
<1>1. queue \in Seq(Pages \cup {Gate}) /\ queue # <<>> /\ busy[w] = w /\ Len(queue) \in Nat
  BY LenProperties DEF GatesLast, Take, Idle
<1>2. /\ Head(queue) \in Pages \cup {Gate} /\ Tail(queue) \in Seq(Pages \cup {Gate})
      /\ Len(Tail(queue)) = Len(queue) - 1
      /\ \A i \in 1 .. Len(Tail(queue)) : Tail(queue)[i] = queue[i + 1]
      /\ Head(queue) = queue[1] /\ Len(queue) >= 1
  <2>1. Head(queue) = queue[1] /\ Len(queue) >= 1
    BY <1>1, EmptySeq
  <2> QED BY <1>1, <2>1, HeadTailProperties
<1>3. /\ queue' = Tail(queue) /\ busy' = [busy EXCEPT ![w] = Head(queue)] /\ ended' = ended
      /\ at_gate' = (IF Head(queue) = Gate THEN at_gate + 1 ELSE at_gate)
      /\ UNCHANGED <<open, threads>>
  BY <1>2, SenderConstants DEF Take
<1>4. PICK g \in 0 .. Len(queue) : GatesAfter(g)
  BY DEF GatesLast
<1>5. at_gate = Cardinality(AtGate) /\ IsFiniteSet(AtGate) /\ at_gate \in Nat
  BY ThreadsFinite DEF GatesLast
<1>6. /\ at_gate' = Cardinality({u \in Workers : busy'[u] = Gate})
      /\ \E h \in 0 .. Len(queue') : GatesAfter(h)'
  <2>1. CASE g > 0
    <3>1. Head(queue) \in Pages /\ Head(queue) # Gate
      <4>1. 1 \in 1 .. Len(queue) /\ 1 <= g
        BY <1>1, <1>2, <2>1
      <4>2. queue[1] \in Pages
        BY <1>4, <4>1 DEF GatesAfter
      <4> QED BY <1>2, <4>2, SenderConstants
    <3>2. {u \in Workers : busy'[u] = Gate} = AtGate
      BY <1>1, <1>3, <3>1, SenderConstants DEF GatesLast
    <3>3. g - 1 \in 0 .. Len(queue') /\ at_gate' = at_gate /\ Len(queue') = Len(queue) - 1
      BY <1>1, <1>2, <1>3, <2>1, <3>1
    <3>4. \A i \in 1 .. Len(queue') : /\ i + 1 \in 1 .. Len(queue)
                                      /\ queue'[i] = queue[i + 1]
      BY <1>1, <1>2, <1>3
    <3>5. \A i \in 1 .. Len(queue') : (i <= g - 1 => queue'[i] \in Pages) /\ (i > g - 1 => queue'[i] = Gate)
      <4> TAKE i \in 1 .. Len(queue')
      <4> DEFINE j == i + 1
      <4>1. j \in 1 .. Len(queue) /\ queue'[i] = queue[j] /\ i \in Int /\ g \in Int
        BY <3>4
      <4>2. (j <= g => queue[j] \in Pages) /\ (j > g => queue[j] = Gate)
        BY <1>4, <4>1 DEF GatesAfter
      <4>3. (i <= g - 1 => j <= g) /\ (i > g - 1 => j > g)
        BY <4>1
      <4> HIDE DEF j
      <4> QED BY <4>1, <4>2, <4>3
    <3>6. /\ Len(queue') - (g - 1) + at_gate' <= Cardinality(threads')
          /\ at_gate' > 0 => g - 1 = 0
      BY <1>1, <1>3, <1>4, <1>5, <2>1, <3>3 DEF GatesAfter
    <3> QED BY <1>5, <3>2, <3>3, <3>5, <3>6 DEF GatesAfter
  <2>2. CASE g = 0
    <3>1. Head(queue) = Gate
      <4>1. 1 \in 1 .. Len(queue) /\ 1 > g
        BY <1>1, <1>2, <2>2
      <4>2. queue[1] = Gate
        BY <1>4, <4>1 DEF GatesAfter
      <4> QED BY <1>2, <4>2
    <3>2. {u \in Workers : busy'[u] = Gate} = AtGate \cup {w} /\ w \notin AtGate
      BY <1>1, <1>3, <3>1, SenderConstants DEF GatesLast
    <3>3. Cardinality(AtGate \cup {w}) = Cardinality(AtGate) + 1
      BY <1>5, <3>2, FS_AddElement
    <3>4. at_gate' = at_gate + 1 /\ Len(queue') = Len(queue) - 1
      BY <1>2, <1>3, <3>1
    <3>5. \A i \in 1 .. Len(queue') : queue'[i] = Gate
      BY <1>1, <1>2, <1>3, <1>4, <2>2 DEF GatesAfter
    <3>6. Len(queue') - 0 + at_gate' <= Cardinality(threads') /\ 0 \in 0 .. Len(queue')
      BY <1>1, <1>2, <1>3, <1>4, <1>5, <2>2, <3>4 DEF GatesAfter
    <3>7. GatesAfter(0)'
      BY <3>5, <3>6 DEF GatesAfter
    <3> QED BY <1>5, <3>2, <3>3, <3>4, <3>6, <3>7 DEF GatesAfter
  <2> QED BY <2>1, <2>2
<1>7. ASSUME NEW p \in Pages, InQueue(p) PROVE InQueue(p)' \/ WithWorker(p)'
  <2>1. PICK i \in 1 .. Len(queue) : queue[i] = p
    BY <1>7 DEF InQueue
  <2>2. CASE i = 1
    BY <1>2, <1>3, <2>1, <2>2 DEF WithWorker, GatesLast
  <2>3. CASE i > 1
    <3>1. i - 1 \in 1 .. Len(Tail(queue)) /\ Tail(queue)[i - 1] = p
      BY <1>1, <1>2, <2>1, <2>3
    <3> QED BY <1>3, <3>1 DEF InQueue
  <2> QED BY <1>1, <2>2, <2>3
<1>8. ASSUME NEW p \in Pages, WithWorker(p) PROVE WithWorker(p)'
  BY <1>1, <1>3, <1>8, SenderConstants DEF WithWorker, GatesLast
<1>9. GatesLast'
  BY <1>2, <1>3, <1>6 DEF GatesLast
<1> QED BY <1>3, <1>7, <1>8, <1>9

(* A page that arrives is no longer one the destination has not. *)
LEMMA SentPage ==
  ASSUME NEW w \in Workers, Sent(w), table' = table, ChunksOnly \/ GatesLast
  PROVE  /\ ChunksOnly => ChunksOnly'
         /\ GatesLast => GatesLast'
         /\ ended' = ended
         /\ \A p \in Pages \cap stale' : InQueue(p) \/ WithWorker(p) => InQueue(p)' \/ WithWorker(p)'
<1>1. /\ busy[w] \in Pages /\ busy' = [busy EXCEPT ![w] = w] /\ stale' = stale \ {busy[w]}
      /\ UNCHANGED <<queue, at_gate, open, ended, threads>>
  BY DEF Sent
<1>2. busy \in [Workers -> Workers \cup Pages \cup {Gate}]
  BY DEF ChunksOnly, GatesLast
<1>3. ChunksOnly => ChunksOnly'
  BY <1>1 DEF ChunksOnly
<1>4. {u \in Workers : busy'[u] = Gate} = {u \in Workers : busy[u] = Gate}
  BY <1>1, <1>2, SenderConstants
<1>5. GatesLast => GatesLast'
  BY <1>1, <1>4 DEF GatesLast, GatesAfter
<1>6. \A p \in Pages \cap stale' : InQueue(p) \/ WithWorker(p) => InQueue(p)' \/ WithWorker(p)'
  BY <1>1, <1>2 DEF InQueue, WithWorker
<1> QED BY <1>1, <1>3, <1>5, <1>6

(* The steps of the workers keep the memory's part of the invariant. *)
LEMMA WorkerMemory ==
  ASSUME IInv, NEW w \in Workers, WorkerStep(w)
  PROVE  MemoryInv'
<1>1. /\ UNCHANGED <<local, log, vm, chan, dvm, iteration, spc, table, remaining, final, threads, open>>
      /\ stale' \subseteq stale
  BY WorkerFrame
<1>2. worker_error' = worker_error /\ SenderWorker(w)
  BY DEF WorkerStep, SenderWorker, Take, Sent, PassGate
<1>3. ASSUME ~worker_error PROVE spc \notin Requesting \cup Between
  <2>1. ~Idling
    BY <1>2, SenderConstants DEF Idling, SenderWorker, Take, Sent, PassGate
  <2> QED BY <1>3, <2>1 DEF IInv, MemoryInv, Channel
<1> USE DEF IInv, MemoryInv, Channel, Threads, Covered, AllArrived, Sound,
            Requesting, Between, Cleaning, Completed, After, Early, Labels
<1>4. ASSUME ~worker_error, spc \in {"chunks", "gates"}
      PROVE  /\ spc = "chunks" => ChunksOnly'
             /\ spc = "gates" => GatesLast'
             /\ ended' = ended
             /\ \A p \in Pages \cap stale' : InQueue(p) \/ WithWorker(p) => InQueue(p)' \/ WithWorker(p)'
  <2>1. (spc = "chunks" => ChunksOnly) /\ (spc = "gates" => GatesLast) /\ threads \in {{}, Workers}
    BY <1>4
  <2>2. Cardinality(threads) \in Nat
    BY <2>1, ThreadsFinite
  <2>3. CASE Take(w)
    BY <1>1, <1>4, <2>1, <2>2, <2>3, TakeChunk, TakeGate
  <2>4. CASE Sent(w)
    BY <1>1, <1>4, <2>1, <2>4, SentPage
  <2>5. ~PassGate(w)
    BY <1>4, <2>1, SenderConstants DEF PassGate, ChunksOnly, GatesLast
  <2> QED BY <1>2, <2>3, <2>4, <2>5 DEF SenderWorker
<1>5. CASE worker_error
  BY <1>1, <1>2, <1>5
<1>6. CASE ~worker_error /\ spc \in {"chunks", "gates"}
  BY <1>1, <1>2, <1>4, <1>6
<1>7. CASE ~worker_error /\ spc \notin {"chunks", "gates"}
  BY <1>1, <1>2, <1>3, <1>7
<1> QED BY <1>5, <1>6, <1>7

-----------------------------------------------------------------------------
(* Steps that leave the source and the sender alone, and at most turn a    *)
(* request down.                                                           *)
LEMMA MemorySame ==
  ASSUME MemoryInv, UNCHANGED <<source, spc, sender, stale>>,
         chan' \in {chan, "error"}, dvm' \in {dvm, "None"}
  PROVE  MemoryInv'
<1>1. /\ UNCHANGED <<local, vm, log, table, remaining, iteration, final, threads, ended, worker_error>>
      /\ Idling' <=> Idling
      /\ ChunksOnly' <=> ChunksOnly
      /\ GatesLast' <=> GatesLast
      /\ \A p : (InQueue(p)' <=> InQueue(p)) /\ (WithWorker(p)' <=> WithWorker(p))
  BY SenderSame DEF source, sender
<1>2. Channel'
  BY <1>1 DEF MemoryInv, Channel
<1>3. Threads'
  BY <1>1 DEF MemoryInv, Threads
<1>4. (Sound => Covered)'
  BY <1>1 DEF MemoryInv, Sound, Covered
<1>5. AllArrived'
  BY <1>1 DEF MemoryInv, AllArrived
<1> QED BY <1>1, <1>2, <1>3, <1>4, <1>5 DEF MemoryInv

(* The destination, the guest and the network keep it: what the guest      *)
(* writes is in the log, until the source pauses it.                       *)
LEMMA OthersMemory ==
  ASSUME IInv, \/ DestStep \/ ConnectionLost \/ UNCHANGED vars
               \/ \E p \in Pages : GuestWrites(p)
  PROVE  MemoryInv'
<1>1. CASE AbortRequest
  BY <1>1, MemorySame DEF AbortRequest, IInv
<1>2. CASE ReceiveFails
  BY <1>2, MemorySame DEF ReceiveFails, IInv
<1>3. CASE ConnectionLost \/ UNCHANGED vars
  BY <1>3, MemorySame DEF ConnectionLost, vars, dest, IInv
<1>4. UNCHANGED sender
  BY DEF DestStep, HandleRequest, AbortRequest, ReceiveFails, ConnectionLost, GuestWrites, vars
<1>5. /\ UNCHANGED <<threads, ended, worker_error>>
      /\ Idling' <=> Idling
      /\ ChunksOnly' <=> ChunksOnly
      /\ table' = table => (GatesLast' <=> GatesLast)
      /\ \A p : (InQueue(p)' <=> InQueue(p)) /\ (WithWorker(p)' <=> WithWorker(p))
  BY <1>4, SenderSame DEF sender
<1>6. CASE HandleRequest
  <2>1. /\ UNCHANGED <<source, spc>> /\ chan \in Requests /\ chan' = "ok"
        /\ stale' = (IF chan = "Memory" THEN stale \ table ELSE stale)
        /\ chan \notin {"State", "Complete"} => dvm' = dvm
    BY <1>6 DEF HandleRequest
  <2>2. /\ spc = "Memory" => chan = "Memory"
        /\ UNCHANGED <<local, vm, log, table, remaining, iteration, final>>
    BY <2>1 DEF IInv, ProtocolInv, OneRequest, Requests, source
  <2>3. Channel' /\ Threads'
    BY <1>5, <2>1, <2>2 DEF IInv, MemoryInv, Channel, Threads
  <2>4. (Sound => Covered)'
    BY <1>5, <2>1, <2>2 DEF IInv, MemoryInv, Sound, Covered
  <2>5. AllArrived'
    BY <2>1, <2>2 DEF IInv, MemoryInv, AllArrived
  <2> QED BY <1>5, <2>1, <2>2, <2>3, <2>4, <2>5 DEF IInv, MemoryInv
<1>7. CASE \E p \in Pages : GuestWrites(p)
  <2>1. PICK p \in Pages : GuestWrites(p)
    BY <1>7
  <2>2. /\ vm = "Running" /\ log' = log \cup {p} /\ stale' = stale \cup {p}
        /\ UNCHANGED <<local, vm, table, remaining, iteration, final, spc, chan, dvm>>
    BY <2>1 DEF GuestWrites, dest
  <2>3. Channel' /\ Threads'
    BY <1>5, <2>2 DEF IInv, MemoryInv, Channel, Threads
  <2>4. /\ spc \notin {"release"} \cup After
        /\ spc \in Cleaning => ~final
    BY <2>2 DEF IInv, ProtocolInv, PausedSince, FinalPaused
  <2>5. (Sound => Covered)'
    BY <1>5, <2>2, <2>4 DEF IInv, MemoryInv, ProtocolInv, PausedSince, Sound, Covered, Requesting
  <2>6. AllArrived'
    BY <2>2, <2>4 DEF AllArrived
  <2> QED BY <1>5, <2>2, <2>3, <2>5, <2>6 DEF IInv, MemoryInv
<1> QED BY <1>1, <1>2, <1>3, <1>6, <1>7 DEF DestStep

(* The invariant holds in every state of every migration. *)
THEOREM Inductive == Spec => []IInv
<1>1. Init => IInv
  <2> SUFFICES ASSUME Init PROVE IInv
    OBVIOUS
  <2>1. ProtocolInv
    BY DEF Init, ProtocolInv, NotYet, OneRequest, PausedSince, Completing, DestHolds, Undone,
           FinalPaused, Requesting, Between, Cleaning, Completed, After, Early, Labels, Requests
  <2>2. MemoryInv
    BY DEF Init, SenderInit, MemoryInv, Channel, Idling, Threads, Covered, AllArrived, Sound,
           Requesting, Between, Cleaning, Completed, After, Early, Labels
  <2> QED BY <2>1, <2>2 DEF IInv
<1>2. IInv /\ [Next]_vars => IInv'
  <2> SUFFICES ASSUME IInv, [Next]_vars PROVE IInv'
    OBVIOUS
  <2>1. ProtocolInv'
    BY MainProtocol, OthersProtocol DEF IInv, Next
  <2>2. MemoryInv'
    <3>1. CASE MainStep
      BY <3>1, QuietMemory, ChunkMemory, QueuedMemory, GateMemory, OpenMemory, CleanupMemory
      DEF MainStep, QuietStep
    <3>2. CASE ~MainStep
      BY <3>2, OthersMemory, WorkerMemory, FailsMemory DEF Next
    <3> QED BY <3>1, <3>2
  <2> QED BY <2>1, <2>2 DEF IInv
<1> QED BY <1>1, <1>2, PTL DEF Spec

(* The destination has the memory as it was when the source paused its VM, *)
(* for any memory, number of workers and size of the channel.              *)
THEOREM MemoryCompleteHolds == Spec => []MemoryComplete
<1>1. IInv => MemoryComplete
  BY DEF IInv, ProtocolInv, NotYet, MemoryInv, AllArrived, MemoryComplete,
         Labels, Early, After, Completed, Requesting, Between, Cleaning
<1> QED BY <1>1, Inductive, PTL

(* Until Complete has been sent a failed migration leaves one VM running.  *)
THEOREM OneRunsHolds == Spec => []OneRuns
<1>1. IInv => OneRuns
  BY DEF IInv, ProtocolInv, Completing, PausedSince, OneRuns, After, Completed
<1> QED BY <1>1, Inductive, PTL

(* vCPUs that are told to park belong to a paused VM or to a pause that    *)
(* failed half way.                                                        *)
Parked == signalled => vm = "Paused" \/ half

(* The steps that pause, resume or fail to; the others touch none of it. *)
LEMMA ParkedAlways == Spec => []Parked
<1>1. Init => Parked
  BY DEF Init, Parked
<1>2. Parked /\ [Next]_vars => Parked'
  <2> SUFFICES ASSUME Parked, [Next]_vars PROVE Parked'
    OBVIOUS
  <2>1. CASE PauseVm \/ PauseFails \/ Undo
    BY <2>1 DEF PauseVm, PauseFails, Undo, Goes, Parked
  <2>2. CASE MainStep /\ ~(PauseVm \/ PauseFails \/ Undo)
    <3>1. UNCHANGED <<signalled, half, vm>>
      BY <2>2 DEF MainStep, SendRequest, Answered, RequestFails, StartDirtyLog, Iterate, Converged,
         TimeoutCancels, FinalTable, SendMemory, SendChunk, ChunksQueued, ChunkSeesError, SendGate,
         SendGateFails, AllAtGate, GateSeesError, MemorySent, Cleanup, Join, ReleaseDiskLocks,
         SnapshotFails, StopDirtyLog, CompleteMigration, LateFailure, Goes, Fails, Quiet, source
    <3> QED BY <3>1 DEF Parked
  <2>3. CASE ~MainStep
    <3>1. UNCHANGED <<signalled, half, vm>>
      BY <2>3 DEF Next, DestStep, HandleRequest, AbortRequest, ReceiveFails, ConnectionLost,
         GuestWrites, WorkerStep, WorkerFails, source, vars
    <3> QED BY <3>1 DEF Parked
  <2> QED BY <2>1, <2>2, <2>3
<1> QED BY <1>1, <1>2, PTL DEF Spec

(* When vm_send_migration has returned the guest runs at one of the ends,  *)
(* unless undoing the failed migration failed or Vm::pause had failed half *)
(* way, with its vCPUs told to park.                                       *)
THEOREM VmSurvivesHolds == Spec => []VmSurvives
<1>1. IInv /\ Parked => VmSurvives
  BY DEF IInv, ProtocolInv, Completing, Undone, VmSurvives, Completed, Parked
<1> QED BY <1>1, Inductive, ParkedAlways, PTL

(* The locks of the disk images are never held by both ends, and a VM that *)
(* runs at the destination holds them.                                     *)
THEOREM LocksHandedOverHolds == Spec => []LocksHandedOver
<1>1. IInv => LocksHandedOver
  BY DEF IInv, ProtocolInv, DestHolds, LocksHandedOver
<1> QED BY <1>1, Inductive, PTL
=============================================================================
