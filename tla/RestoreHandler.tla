--------------------------- MODULE RestoreHandler ---------------------------
(***************************************************************************)
(* On-demand restore of a VM's memory: MemoryManager::restore_by_uffd and  *)
(* stop_uffd_handler (cloud-hypervisor/vmm/src/memory_manager.rs) and the  *)
(* userfaultfd handler of vmm/src/template_memory.rs, reading pages from a *)
(* file or from the template service (TemplateServer).                     *)
(*                                                                         *)
(* Guest RAM is registered before the handler thread is spawned; vCPUs run *)
(* once restore_by_uffd has returned.  A missing page is copied in write-  *)
(* protected; the first write to a COW chunk loads the rest of the chunk   *)
(* and replaces all of it by private memory.  The userfaultfd belongs to   *)
(* the handler thread: when the thread ends it is closed, the sleepers run *)
(* again and a page that was never loaded reads as zero.                   *)
(***************************************************************************)
EXTENDS TemplateServer, FiniteSetsExt

CONSTANTS
  VCpus,                   (* the vCPU (and device) threads a VM may have  *)
  Program,                 (* Program[v]: the accesses vCPU v may make     *)
  Ranges,                  (* the saved regions: length and page_size      *)
  DEFAULT_COW_CHUNK_SIZE,  (* in the unit of the lengths                   *)
  Zero,                    (* the content of a fresh page                  *)
  NoRead,                  (* nothing read yet                             *)
  Ballooned                (* the pages the balloon may take back          *)

-----------------------------------------------------------------------------
(* Pages, ranges and COW chunks *)

page_count(r) == (r.length + r.page_size - 1) \div r.page_size

(* first_page_index, as TemplateRestoreBackend::new numbers the ranges. *)
FirstPage[i \in 1 .. Len(Ranges) + 1] ==
  IF i = 1 THEN 0 ELSE FirstPage[i - 1] + page_count(Ranges[i - 1])

(* The ranges lie one after the other in the file. *)
FileOffset[i \in 1 .. Len(Ranges)] ==
  IF i = 1 THEN 0 ELSE FileOffset[i - 1] + Ranges[i - 1].length

RangeOf(p) ==
  CHOOSE i \in 1 .. Len(Ranges) : FirstPage[i] <= p /\ p < FirstPage[i + 1]

(* The request of TemplateServiceClient::read_page: backend_offset and the *)
(* page size of the range.                                                 *)
PageRequest(p) ==
  LET r == Ranges[RangeOf(p)]
  IN  [offset |-> FileOffset[RangeOf(p)] + (p - FirstPage[RangeOf(p)]) * r.page_size,
       len |-> r.page_size]

ASSUME RestoreConstants ==
  /\ \A i \in 1 .. Len(Ranges) : Ranges[i].length > 0 /\ Ranges[i].page_size > 0
  /\ FirstPage[Len(Ranges) + 1] \in Nat   (* a sum of page counts *)
  /\ Pages = 0 .. FirstPage[Len(Ranges) + 1] - 1 /\ NoPage \notin Pages
  /\ Program \in [VCpus -> SUBSET [op : {"read", "write"}, page : Pages]]
  /\ Request = [p \in Pages |-> PageRequest(p)]
  /\ Ballooned \subseteq Pages /\ IsFiniteSet(VCpus)

cow_chunk_size(ps) == IF ps >= DEFAULT_COW_CHUNK_SIZE THEN ps ELSE DEFAULT_COW_CHUNK_SIZE

(* The chunk of its range that page p is in. *)
ChunkIndex(p) ==
  LET r == Ranges[RangeOf(p)]
  IN  ((p - FirstPage[RangeOf(p)]) * r.page_size) \div cow_chunk_size(r.page_size)

(* cow_chunk_for_fault: the last chunk of a range may be short. *)
Chunks ==
  [p \in Pages |-> {q \in Pages : RangeOf(q) = RangeOf(p) /\ ChunkIndex(q) = ChunkIndex(p)}]
Chunk(p) == Chunks[p]

TemplatePage(p) == <<"template", p>>
Contents == {Zero} \cup VCpus \cup {TemplatePage(p) : p \in Pages}

-----------------------------------------------------------------------------
VARIABLES
  (* the VM and its memory *)
  source,     (* where pages come from: "file" or "service"                *)
  active,     (* the vCPUs of this VM                                      *)
  present,    (* present[p]: "none", "wp", "rw", or "priv" once replaced   *)
  mem,        (* mem[p]: the content where present[p] # "none"             *)
  gone,       (* pages the balloon discarded after they were loaded        *)
  st, acc, res,  (* per vCPU: what it does, its access, what it read last  *)
  (* the thread that restores and later drops the VM *)
  vmm,        (* "setup", "waiting", "check", "running", "stopping", "end" *)
  stop,       (* the stop eventfd                                          *)
  (* the handler thread *)
  pc,         (* where it is                                               *)
  state,      (* TemplatePageMeta.state                                    *)
  fault,      (* the page of the message, and its kind                     *)
  todo,       (* the pages it has to load for the message                  *)
  buf,        (* page_buf or snapshot                                      *)
  counts,     (* pages_served and pages_dirtied                            *)
  ready,      (* the ready channel has a message                           *)
  result,     (* the result channel: "none", "ok" or "error"               *)
  open        (* the userfaultfd                                           *)

config  == <<source, active>>
guest   == <<present, mem, gone>>
cpus    == <<st, acc, res>>
channel == <<ready, result, open>>
work    == <<state, fault, todo, buf, counts>>
vars    == <<service, config, guest, cpus, channel, work, vmm, stop, pc>>

PageStates == {"UNLOADED", "LOADING", "SHARED_READY", "PRIVATE_DIRTY"}
PCs == {"none", "connect", "setup", "wait", "acquire", "read", "await", "copy", "snapshot",
        "unprotect", "remap", "copyback", "mark", "wake", "spin", "ok", "error", "drop", "ended"}
Accesses == [op : {"read", "write"}, page : Pages]
NoAccess == [op |-> "read", page |-> 0]   (* of an idle vCPU *)
Asleep == {"missing", "wp", "claimed"}

TypeOK ==
  /\ ServiceTypeOK
  /\ source \in {"file", "service"} /\ active \subseteq VCpus
  /\ present \in [Pages -> {"none", "wp", "rw", "priv"}]
  /\ mem \in [Pages -> Contents]
  /\ gone \subseteq Pages
  /\ st \in [VCpus -> {"idle", "access"} \cup Asleep]
  /\ acc \in [VCpus -> Accesses]
  /\ res \in [VCpus -> Contents \cup {NoRead}]
  /\ vmm \in {"setup", "waiting", "check", "running", "stopping", "end"}
  /\ stop \in BOOLEAN
  /\ pc \in PCs
  /\ state \in [Pages -> PageStates]
  /\ fault \in [page : Pages, kind : {"missing", "wp"}]
  /\ todo \in SUBSET Pages
  /\ buf \in [Pages -> Contents]
  /\ counts \in [served : Nat, dirtied : Nat]
  /\ ready \in BOOLEAN /\ open \in BOOLEAN
  /\ result \in {"none", "ok", "error"}

Init ==
  /\ ServiceInit
  /\ source \in {"file", "service"}
  /\ active \in (SUBSET VCpus) \ {{}}
  /\ present = [p \in Pages |-> "none"]
  /\ mem = [p \in Pages |-> Zero]
  /\ gone = {}
  /\ st = [v \in VCpus |-> "idle"]
  /\ acc = [v \in VCpus |-> NoAccess]
  /\ res = [v \in VCpus |-> NoRead]
  /\ vmm = "setup"
  /\ stop = FALSE
  /\ pc = "none"
  /\ state = [p \in Pages |-> "UNLOADED"]
  /\ fault = [page |-> 0, kind |-> "missing"]
  /\ todo = {}
  /\ buf = [p \in Pages |-> Zero]
  /\ counts = [served |-> 0, dirtied |-> 0]
  /\ ready = FALSE
  /\ result = "none"
  /\ open = FALSE

-----------------------------------------------------------------------------
(* The guest and the kernel *)

(* A vCPU is about to load from, or store its mark to, a page.  The guest  *)
(* is followed while the userfaultfd is open: once it is closed, accesses  *)
(* in progress complete and no new one is issued.                          *)
Issue(v, a) ==
  /\ vmm = "running" /\ open /\ v \in active /\ st[v] = "idle" /\ a \in Program[v]
  /\ st' = [st EXCEPT ![v] = "access"]
  /\ acc' = [acc EXCEPT ![v] = a]
  /\ UNCHANGED <<service, config, guest, res, channel, work, vmm, stop, pc>>

Fault(v, kind) ==
  /\ st' = [st EXCEPT ![v] = kind]
  /\ UNCHANGED <<guest, acc, res>>

(* The access completes on content m and leaves the page mapped as newMap. *)
Complete(v, m, newMap) ==
  LET a == acc[v]
  IN  /\ st' = [st EXCEPT ![v] = "idle"]
      /\ present' = [present EXCEPT ![a.page] = newMap]
      /\ mem' = [mem EXCEPT ![a.page] = IF a.op = "read" THEN m ELSE v]
      /\ res' = IF a.op = "read" THEN [res EXCEPT ![v] = m] ELSE res
      /\ acc' = [acc EXCEPT ![v] = NoAccess]
      /\ UNCHANGED gone

(* With the userfaultfd open, a hole in registered memory and a store to a *)
(* protected page fault; once it is closed they do not.                    *)
Access(v) ==
  LET a == acc[v]
      m == present[a.page]
  IN  /\ st[v] = "access"
      /\ IF m = "none"
         THEN IF open THEN Fault(v, "missing") ELSE Complete(v, Zero, "rw")
         ELSE IF m = "wp" /\ a.op = "write"
              THEN IF open THEN Fault(v, "wp") ELSE Complete(v, mem[a.page], "rw")
              ELSE Complete(v, mem[a.page], m)
      /\ UNCHANGED <<service, config, channel, work, vmm, stop, pc>>

(* The vCPUs asleep on a page of P retry; their messages are withdrawn. *)
Wake(P) ==
  st' = [v \in VCpus |-> IF st[v] \in Asleep /\ acc[v].page \in P THEN "access" ELSE st[v]]

(* The balloon device gives a page back with MADV_DONTNEED: a private page *)
(* becomes zero, a registered one a hole.                                  *)
Discard(p) ==
  /\ vmm = "running" /\ open
  /\ present[p] # "none" /\ p \in Ballooned \ gone
  /\ present' = [present EXCEPT ![p] = IF @ = "priv" THEN @ ELSE "none"]
  /\ mem' = [mem EXCEPT ![p] = Zero]
  /\ gone' = gone \cup {p}
  /\ UNCHANGED <<service, config, cpus, channel, work, vmm, stop, pc>>

-----------------------------------------------------------------------------
(* restore_by_uffd and stop_uffd_handler *)

(* Open the file, create the userfaultfd, register the ranges and spawn    *)
(* the thread, or fail before there is one.                                *)
RestoreByUffd ==
  /\ vmm = "setup"
  /\ \/ vmm' = "waiting" /\ pc' = "connect" /\ open' = TRUE
     \/ "register" \in Failures /\ vmm' = "end" /\ UNCHANGED <<pc, open>>
  /\ UNCHANGED <<service, config, guest, cpus, ready, result, work, stop>>

(* ready_rx.recv(): a message, or an error once the sender is dropped,     *)
(* after which the thread is joined.                                       *)
RecvReady ==
  /\ vmm = "waiting"
  /\ \/ ready /\ vmm' = "check"
     \/ ~ready /\ pc = "ended" /\ vmm' = "end"
  /\ UNCHANGED <<service, config, guest, cpus, channel, work, stop, pc>>

(* result_rx.try_recv(): the restore fails if the handler has failed. *)
CheckResult ==
  /\ vmm = "check"
  /\ IF result = "error"
     THEN pc = "ended" /\ vmm' = "end"
     ELSE vmm' = "running"
  /\ UNCHANGED <<service, config, guest, cpus, channel, work, stop, pc>>

(* Drop for MemoryManager: the vCPU threads have been joined by then. *)
StopUffdHandler ==
  /\ vmm = "running"
  /\ \A v \in active : st[v] = "idle"
  /\ vmm' = "stopping"
  /\ stop' = TRUE
  /\ UNCHANGED <<service, config, guest, cpus, channel, work, pc>>

JoinHandler ==
  /\ vmm = "stopping" /\ pc = "ended"
  /\ vmm' = "end"
  /\ UNCHANGED <<service, config, guest, cpus, channel, work, stop, pc>>

-----------------------------------------------------------------------------
(* The handler thread: start, end, and the loop of handler_loop *)

Goto(label) == pc' = label /\ UNCHANGED <<service, config, guest, cpus, channel, work, vmm, stop>>

Fail(where, kind) == pc = where /\ kind \in Failures /\ Goto("error")

Errors ==
  \/ Fail("connect", "connect") \/ Fail("setup", "epoll") \/ Fail("wait", "epoll")
  \/ Fail("copy", "copy") \/ Fail("unprotect", "unprotect") \/ Fail("remap", "remap")
  \/ source = "file" /\ Fail("read", "serve")

(* from_file, or from_service with its connect. *)
Connect ==
  /\ pc = "connect"
  /\ Goto(IF source = "service" /\ srv = "gone" THEN "error" ELSE "setup")

(* The epoll instance is ready: ready_tx.send. *)
Setup ==
  /\ pc = "setup"
  /\ pc' = "wait" /\ ready' = TRUE
  /\ UNCHANGED <<service, config, guest, cpus, result, open, work, vmm, stop>>

(* Mutant: the stop event is looked at with a message only. *)
StopEventLate == pc = "wait" /\ stop /\ (\E v \in VCpus : st[v] \in Asleep) /\ Goto("ok")

StopEvent == pc = "wait" /\ stop /\ Goto("ok")

(* result_tx.send(result). *)
SendResult ==
  /\ pc \in {"ok", "error"}
  /\ result' = pc /\ pc' = "drop"
  /\ UNCHANGED <<service, config, guest, cpus, ready, open, work, vmm, stop>>

(* The closure's captures are dropped: the userfaultfd is closed, which    *)
(* wakes everybody, the stream to the service and the senders too.         *)
DropUffd ==
  /\ pc = "drop"
  /\ open' = FALSE /\ pc' = "ended"
  /\ Wake(Pages)
  /\ UNCHANGED <<service, config, guest, acc, res, ready, result, work, vmm, stop>>

(* The connection's thread reads end of file. *)
Disconnect ==
  /\ pc = "ended" /\ srv = "idle"
  /\ srv' = "gone"
  /\ UNCHANGED <<cur, req, rsp, metrics, config, guest, cpus, channel, work, vmm, stop, pc>>

(* Read one message; a stop event reported with it wins. *)
ReadMessage ==
  /\ pc = "wait" /\ ~stop
  /\ \E v \in active :
       LET p == acc[v].page
           load == st[v] = "missing" /\ state[p] = "UNLOADED"
       IN  /\ st[v] \in {"missing", "wp"}
           /\ st' = [st EXCEPT ![v] = "claimed"]
           /\ fault' = [page |-> p, kind |-> st[v]]
           /\ state' = IF load THEN [state EXCEPT ![p] = "LOADING"] ELSE state
           /\ todo' = IF load THEN {p} ELSE {}
           /\ pc' = CASE load -> "read"
                      [] st[v] = "wp" -> "acquire"
                      [] st[v] = "missing" /\ state[p] = "LOADING" -> "spin"
                      [] OTHER -> "wake"
  /\ UNCHANGED <<service, config, guest, acc, res, channel, buf, counts, vmm, stop>>

(* UFFDIO_WAKE by hand; an error is only logged. *)
WakeFaulted ==
  /\ pc = "wake"
  /\ Wake({fault.page}) \/ ("wake" \in Failures /\ UNCHANGED st)
  /\ pc' = "wait"
  /\ UNCHANGED <<service, config, guest, acc, res, channel, work, vmm, stop>>

-----------------------------------------------------------------------------
(* Loading a page: read_page and copy_wp *)

LoadPage == Min(todo)

ReadFile ==
  /\ pc = "read" /\ source = "file"
  /\ buf' = [buf EXCEPT ![LoadPage] = TemplatePage(LoadPage)]
  /\ pc' = "copy"
  /\ UNCHANGED <<service, config, guest, cpus, channel, state, fault, todo, counts, vmm, stop>>

(* TemplateServiceClient::read_page, first half: the request. *)
SendRequest ==
  /\ pc = "read" /\ source = "service"
  /\ IF srv = "gone"
     THEN pc' = "error" /\ UNCHANGED req
     ELSE pc' = "await" /\ req' = LoadPage
  /\ UNCHANGED <<srv, cur, rsp, metrics, config, guest, cpus, channel, work, vmm, stop>>

(* Second half: the reply, or end of file when the stream is closed and    *)
(* nothing is left to read.                                                *)
ReceiveReply ==
  /\ pc = "await"
  /\ \/ /\ rsp.status = "ok"
        /\ buf' = [buf EXCEPT ![LoadPage] = TemplatePage(rsp.page)]
        /\ pc' = "copy"
     \/ /\ rsp.status = "error" \/ (rsp.status = "none" /\ srv = "gone")
        /\ pc' = "error"
        /\ UNCHANGED buf
  /\ rsp' = NoReply
  /\ UNCHANGED <<srv, cur, req, metrics, config, guest, cpus, channel,
                 state, fault, todo, counts, vmm, stop>>

(* UFFDIO_COPY puts the page in, write-protected, and wakes; where a page  *)
(* is already present it answers EEXIST, and only the loop that serves     *)
(* missing faults wakes by hand.  EAGAIN is retried.  For a missing fault  *)
(* the page is then SHARED_READY; in a chunk the next page is loaded.      *)
CopyWp ==
  LET p == LoadPage
      hole == present[p] = "none"
  IN  /\ pc = "copy"
      /\ IF hole
         THEN present' = [present EXCEPT ![p] = "wp"] /\ mem' = [mem EXCEPT ![p] = buf[p]]
         ELSE UNCHANGED <<present, mem>>
      /\ IF hole \/ fault.kind = "missing" THEN Wake({p}) ELSE UNCHANGED st
      /\ buf' = [buf EXCEPT ![p] = Zero]
      /\ todo' = todo \ {p}
      /\ counts' = [counts EXCEPT !.served = @ + 1]
      /\ IF fault.kind = "missing"
         THEN state' = [state EXCEPT ![p] = "SHARED_READY"] /\ pc' = "wait"
         ELSE UNCHANGED state /\ pc' = IF todo = {p} THEN "snapshot" ELSE "read"
      /\ UNCHANGED <<service, config, gone, acc, res, channel, fault, vmm, stop>>

-----------------------------------------------------------------------------
(* handle_wp_fault *)

COW == Chunk(fault.page)
Acquired == {q \in COW : state[q] \in {"UNLOADED", "SHARED_READY"}}

(* Mutant: only the faulting page is acquired. *)
AcquireFaulted ==
  /\ pc = "acquire"
  /\ todo' = {}
  /\ state' = [state EXCEPT ![fault.page] = "LOADING"]
  /\ pc' = "snapshot"
  /\ UNCHANGED <<service, config, guest, cpus, channel, fault, buf, counts, vmm, stop>>

(* Take every page of the chunk that is not private to LOADING.  No other  *)
(* thread writes the states, so the loop is one step; a page that is       *)
(* LOADING already would never change.                                     *)
AcquireChunk ==
  /\ pc = "acquire"
  /\ todo' = {q \in COW : state[q] = "UNLOADED"}
  /\ state' = [q \in Pages |-> IF q \in Acquired THEN "LOADING" ELSE state[q]]
  /\ pc' = CASE \E q \in COW : state[q] = "LOADING" -> "spin"
             [] Acquired = {} -> "wake"
             [] todo' # {} -> "read"
             [] OTHER -> "snapshot"
  /\ UNCHANGED <<service, config, guest, cpus, channel, fault, buf, counts, vmm, stop>>

(* Copy the chunk out through the mapping.  Were a page not present the    *)
(* handler would wait for itself: the step is then never taken.            *)
SnapshotChunk ==
  /\ pc = "snapshot"
  /\ \A q \in COW : present[q] # "none"
  /\ buf' = [q \in Pages |-> IF q \in COW THEN mem[q] ELSE Zero]
  /\ pc' = "unprotect"
  /\ UNCHANGED <<service, config, guest, cpus, channel, state, fault, todo, counts, vmm, stop>>

(* writeprotect_dontwake. *)
Unprotect ==
  /\ pc = "unprotect"
  /\ present' = [q \in Pages |-> IF q \in COW /\ present[q] = "wp" THEN "rw" ELSE present[q]]
  /\ pc' = "remap"
  /\ UNCHANGED <<service, config, mem, gone, cpus, channel, work, vmm, stop>>

(* mmap(MAP_FIXED) over the chunk. *)
RemapChunk ==
  /\ pc = "remap"
  /\ present' = [q \in Pages |-> IF q \in COW THEN "priv" ELSE present[q]]
  /\ mem' = [q \in Pages |-> IF q \in COW THEN Zero ELSE mem[q]]
  /\ pc' = "copyback"
  /\ UNCHANGED <<service, config, gone, cpus, channel, work, vmm, stop>>

(* Mutant: the copy stops after the faulting page. *)
CopyBackOnePage ==
  /\ pc = "copyback"
  /\ mem' = [mem EXCEPT ![fault.page] = buf[fault.page]]
  /\ buf' = [q \in Pages |-> Zero]
  /\ pc' = "mark"
  /\ UNCHANGED <<service, config, present, gone, cpus, channel, state, fault, todo, counts,
                 vmm, stop>>

CopyBack ==
  /\ pc = "copyback"
  /\ mem' = [q \in Pages |-> IF q \in COW THEN buf[q] ELSE mem[q]]
  /\ buf' = [q \in Pages |-> Zero]
  /\ pc' = "mark"
  /\ UNCHANGED <<service, config, present, gone, cpus, channel, state, fault, todo, counts,
                 vmm, stop>>

(* Mutant: only the faulting page is marked. *)
MarkOnePage ==
  /\ pc = "mark"
  /\ state' = [state EXCEPT ![fault.page] = "PRIVATE_DIRTY"]
  /\ counts' = [counts EXCEPT !.dirtied = @ + 1]
  /\ Wake(COW)
  /\ pc' = "wait"
  /\ UNCHANGED <<service, config, guest, acc, res, channel, fault, todo, buf, vmm, stop>>

(* Mutant: only the faulting page is woken. *)
MarkAndWakePage ==
  /\ pc = "mark"
  /\ state' = [q \in Pages |-> IF q \in COW THEN "PRIVATE_DIRTY" ELSE state[q]]
  /\ counts' = [counts EXCEPT !.dirtied = @ + Cardinality({q \in COW : state[q] = "LOADING"})]
  /\ Wake({fault.page})
  /\ pc' = "wait"
  /\ UNCHANGED <<service, config, guest, acc, res, channel, fault, todo, buf, vmm, stop>>

(* Mark the chunk, count the pages that were acquired and wake the chunk;  *)
(* an error of the wake ends the handler.                                  *)
MarkAndWake ==
  /\ pc = "mark"
  /\ state' = [q \in Pages |-> IF q \in COW THEN "PRIVATE_DIRTY" ELSE state[q]]
  /\ counts' = [counts EXCEPT !.dirtied = @ + Cardinality({q \in COW : state[q] = "LOADING"})]
  /\ \/ Wake(COW) /\ pc' = "wait"
     \/ "wake" \in Failures /\ UNCHANGED st /\ pc' = "error"
  /\ UNCHANGED <<service, config, guest, acc, res, channel, fault, todo, buf, vmm, stop>>

-----------------------------------------------------------------------------
ServerStep ==
  /\ ServiceStep
  /\ UNCHANGED <<config, guest, cpus, channel, work, vmm, stop, pc>>

ServerFailure ==
  /\ ServiceExits
  /\ UNCHANGED <<config, guest, cpus, channel, work, vmm, stop, pc>>

HandlerStep ==
  \/ Connect \/ Setup \/ StopEvent \/ SendResult \/ DropUffd \/ ReadMessage \/ WakeFaulted
  \/ ReadFile \/ SendRequest \/ ReceiveReply \/ CopyWp
  \/ AcquireChunk \/ SnapshotChunk \/ Unprotect \/ RemapChunk \/ CopyBack \/ MarkAndWake

VmmStep == RestoreByUffd \/ RecvReady \/ CheckResult \/ JoinHandler

Next ==
  \/ \E v \in VCpus, a \in Accesses : Issue(v, a)
  \/ \E v \in VCpus : Access(v)
  \/ \E p \in Pages : Discard(p)
  \/ VmmStep \/ StopUffdHandler
  \/ HandlerStep \/ Errors
  \/ source = "service" /\ (ServerStep \/ ServerFailure \/ Disconnect)

Spec == Init /\ [][Next]_vars

(* The service, the handler, the restoring thread and runnable vCPUs are   *)
(* scheduled.                                                              *)
FairSpec ==
  /\ Spec
  /\ WF_vars(HandlerStep) /\ WF_vars(VmmStep)
  /\ WF_vars(source = "service" /\ ServerStep)
  /\ \A v \in VCpus : WF_vars(Access(v))

-----------------------------------------------------------------------------
(* Safety *)

Replacing == {"snapshot", "unprotect", "remap", "copyback", "mark"}

(* The handler never waits for itself: it meets no page that is LOADING    *)
(* (both spin loops would wait for ever), and every page of the chunk it   *)
(* copies out through the registered mapping is present, so that the copy  *)
(* cannot fault back into the handler (the comment at handle_wp_fault's    *)
(* copy).  The one exception is a page the balloon took back meanwhile.    *)
HandlerNeverWaits ==
  /\ pc # "spin"
  /\ pc = "snapshot" => \A q \in COW : present[q] # "none" \/ q \in gone

(* A page is private exactly when its state says so, and chunks are        *)
(* replaced as a whole: all of a chunk or none of it is private.  Only     *)
(* while the handler replaces a chunk is its state LOADING instead.        *)
ChunkPrivate ==
  /\ \A p \in Pages :
       state[p] = "PRIVATE_DIRTY" => present[p] = "priv"
  /\ \A p \in Pages : present[p] = "priv" =>
       \/ \A q \in Chunk(p) : state[q] = "PRIVATE_DIRTY" /\ present[q] = "priv"
       \/ /\ pc \in {"copyback", "mark"} /\ p \in COW
          /\ \A q \in COW : state[q] = "LOADING" /\ present[q] = "priv"

(* pages_served counts every page that was loaded once, whichever path     *)
(* loaded it, so that "all pages loaded" is logged when it is true; and    *)
(* pages_dirtied counts the private pages.                                 *)
CountsExact ==
  /\ open /\ pc \notin {"error", "drop"} =>
       counts.served = Cardinality({p \in Pages :
         \/ state[p] \in {"SHARED_READY", "PRIVATE_DIRTY"}
         \/ state[p] = "LOADING" /\ p \notin todo})
  /\ counts.dirtied = Cardinality({p \in Pages : state[p] = "PRIVATE_DIRTY"})

(* One VM asks the service for a page once: page_requests counts a set of  *)
(* pages that were each served once, and unique_pages_seen is what these   *)
(* pages cover in base pages.  The set holds every page the VM has loaded, *)
(* but for the one whose reply was sent and is being recorded, or was when *)
(* the service died.                                                       *)
MetricsExact ==
  source = "service" =>
    LET loaded == {p \in Pages : state[p] # "UNLOADED" /\ p \notin todo}
    IN  \E R \in SUBSET Pages :
          /\ metrics.requests = Cardinality(R)
          /\ metrics.unique = UNION {record_unique_pages(Request[p]) : p \in R}
          /\ R \subseteq loaded \cup todo
          /\ Cardinality(loaded \ R) <= 1
          /\ srv = "idle" => loaded \subseteq R

(* The handler's and the service's counts agree with what happened,        *)
(* although a page is loaded by one thread and counted in two processes.   *)
CountersExact == CountsExact /\ MetricsExact

(* What the guest would find at page p now: a page that was not loaded is  *)
(* the template's, a chunk being replaced is what the handler saved of it. *)
View(p) ==
  CASE present[p] = "none" -> TemplatePage(p)
    [] pc = "copyback" /\ p \in COW -> buf[p]
    [] OTHER -> mem[p]

Cow == INSTANCE CowMemory WITH
  Clients <- {"vm"}, Threads <- VCpus, Owner <- [v \in VCpus |-> "vm"], Offsets <- {0},
  Template <- [p \in Pages |-> [o \in {0} |-> TemplatePage(p)]],
  mem <- [c \in {"vm"} |-> [p \in Pages |-> [o \in {0} |-> View(p)]]]

(* While the handler runs, guest memory is the template with the guest's   *)
(* own writes on top: every step is a step of CowMemory or changes nothing *)
(* the guest can see.  Excepted are a VM with several vCPUs while the      *)
(* handler is between lifting the protection of a chunk and copying it     *)
(* back, when another vCPU can read zero or lose a store, and pages the    *)
(* balloon took.                                                           *)
RestoredMemoryIsCow ==
  /\ Cow!Init
  /\ [][\/ Cow!Next
        \/ ~open' \/ gone' # {}
        \/ Cardinality(active) > 1 /\ pc \in {"remap", "copyback"}]_(Cow!vars)

-----------------------------------------------------------------------------
(* Liveness *)

(* restore_by_uffd returns, whatever fails in the handler's start.         *)
RestoreReturns == vmm = "setup" ~> vmm \in {"running", "end"}

(* A vCPU that sleeps in a fault runs again: its page is loaded or made    *)
(* private, or the handler fails and the userfaultfd is closed.  A page    *)
(* the balloon took back after it was loaded is the exception.             *)
FaultResolved ==
  \A v \in VCpus : st[v] \in Asleep ~> st[v] = "idle" \/ gone # {}

(* stop_uffd_handler returns. *)
StopReturns == vmm = "stopping" ~> vmm = "end"

(* Neither call leaves the VMM waiting for its handler thread for ever.    *)
CallsReturn == RestoreReturns /\ StopReturns
=============================================================================
