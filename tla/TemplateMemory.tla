--------------------------- MODULE TemplateMemory ---------------------------
(***************************************************************************)
(* The template memory library, uffd-cow-gpt/src/lib.rs.                   *)
(*                                                                         *)
(* A TemplateService owns a memfd and one state word per page, shared by   *)
(* all client processes.  Every Client maps the memfd, registers the       *)
(* mapping with a userfaultfd (MISSING | WP) and runs one handler thread.  *)
(* A missing page is loaded into the memfd by whichever handler wins the   *)
(* compare-and-swap on the state word; a write to a write-protected page   *)
(* is answered by replacing it, in that process only, by a private copy.   *)
(*                                                                         *)
(* The kernel is external and modelled by what the library sees of it: the *)
(* memfd's page cache, each client's page-table entry, threads sleeping in *)
(* a fault and the messages that announce them.                            *)
(***************************************************************************)
EXTENDS Integers, Sequences, FiniteSets, FiniteSetsExt

CONSTANTS
  Clients,      (* client processes                                        *)
  Threads,      (* application threads                                     *)
  Owner,        (* Owner[t]: the client thread t runs in                   *)
  Readers, Writers, Exporters, (* which threads load, store, checkpoint    *)
  PageCount,    (* number of pages of the region                           *)
  Offsets,      (* the cells of a page that can be told apart              *)
  Layers,       (* the backend: a sequence of layers, bottom first; each   *)
                (* is the set of pages its bitmap has                      *)
  Failures,     (* which calls may fail in this instance, see FailureKinds *)
  EarlyTouch,   (* may a mapping that is not registered touch the memfd?   *)
  Absent,       (* a page that is not in the page cache                    *)
  Zero,         (* the content of a cell of a fresh page                   *)
  NoRead        (* result of a thread that has read nothing yet            *)

Pages == 0 .. PageCount - 1

(* Calls of the handler that return an error, and the process dying.       *)
FailureKinds == {"poll", "read_page", "copy", "snapshot", "writeprotect", "remap", "wake", "crash"}

ASSUME ConstantsOK ==
  /\ Owner \in [Threads -> Clients]
  /\ Readers \subseteq Threads /\ Writers \subseteq Threads /\ Exporters \subseteq Threads
  /\ Offsets # {}
  /\ PageCount \in Nat \ {0}
  /\ Layers \in Seq(SUBSET Pages)
  /\ Failures \subseteq FailureKinds
  /\ EarlyTouch \in BOOLEAN

-----------------------------------------------------------------------------
(* The backend overlay *)

(* The layers whose bitmap has page p. *)
Covering(p) == {i \in 1 .. Len(Layers) : p \in Layers[i]}

(* OverlayBackend::read_page scans from the top layer down; the content of *)
(* page p in layer i is named by the pair.                                 *)
TopLayer(p) == IF Covering(p) = {} THEN 0 ELSE Max(Covering(p))
BackendPage(p) == [o \in Offsets |-> <<p, TopLayer(p)>>]

(* The union of the layer bitmaps, as rebuild_merged_bitmap computes it.   *)
MergedBitmap == UNION {Layers[i] : i \in 1 .. Len(Layers)}

ZeroPage == [o \in Offsets |-> Zero]

-----------------------------------------------------------------------------
VARIABLES
  (* shared by all processes *)
  state,        (* template_page_meta: UNLOADED, LOADING or SHARED_READY   *)
  cache,        (* the memfd: page content, or Absent                      *)
  (* per client: its address space *)
  map,          (* "none", "wp" (shared, protected), "rw" (shared), "priv" *)
  anon,         (* content of the private page where map is "priv"         *)
  (* per client: the Client structure and its handler thread *)
  dirty,        (* proc_page_meta: pages marked private and dirty          *)
  stop,         (* the stop flag                                           *)
  joined,       (* stop_handler has returned                               *)
  pc,           (* where the handler thread is                             *)
  page,         (* the page it works on                                    *)
  buf,          (* the buffer it copies through                            *)
  (* per application thread *)
  st,           (* what the thread does, see ThreadStates                  *)
  acc,          (* the access it is executing                              *)
  res,          (* the value it read last                                  *)
  next,         (* the page index its export loop has reached              *)
  ckpt          (* the pages it has copied out, Absent where it has not    *)

shared  == <<state, cache>>
space   == <<map, anon>>
handler == <<pc, page, buf>>
client  == <<dirty, stop, joined>>
thread  == <<st, acc, res, next, ckpt>>
vars    == <<state, cache, map, anon, dirty, stop, joined, pc, page, buf, st, acc, res, next, ckpt>>

(* What a cell may hold: zero, a thread's mark, or the template's content. *)
Cells == {Zero} \cup Threads \cup {<<p, TopLayer(p)>> : p \in Pages}
Contents == [Offsets -> Cells]

(* A page in the page cache can be told from a hole. *)
ASSUME AbsentIsNoPage == Absent \notin Contents

PageStates == {"UNLOADED", "LOADING", "SHARED_READY"}

(* "access": executing a load or store.  "missing" and "wp": asleep in a   *)
(* fault whose message is unread.  "claimed": asleep, message read.        *)
ThreadStates == {"idle", "access", "missing", "wp", "claimed", "export", "dead"}

LoaderPCs == {"read_page", "copy", "publish"}
CowPCs == {"snapshot", "writeprotect", "remap", "copyback", "mark"}

(* "failed" and "failed_loading": the handler returned an error; in the    *)
(* second case it returned from between its compare-and-swap and the store *)
(* of SHARED_READY.                                                        *)
EndPCs == {"exited", "failed", "failed_loading"}
PCs == {"new", "check", "poll", "cas", "spin", "wake"} \cup LoaderPCs \cup CowPCs \cup EndPCs

Accesses == [op : {"read", "write"}, page : Pages, off : Offsets]
Asleep == {"missing", "wp", "claimed"}

TypeOK ==
  /\ state \in [Pages -> PageStates]
  /\ cache \in [Pages -> Contents \cup {Absent}]
  /\ map \in [Clients -> [Pages -> {"none", "wp", "rw", "priv"}]]
  /\ anon \in [Clients -> [Pages -> Contents]]
  /\ dirty \in [Clients -> SUBSET Pages]
  /\ stop \in [Clients -> BOOLEAN]
  /\ joined \in [Clients -> BOOLEAN]
  /\ pc \in [Clients -> PCs]
  /\ page \in [Clients -> Pages]
  /\ buf \in [Clients -> Contents]
  /\ st \in [Threads -> ThreadStates]
  /\ acc \in [Threads -> Accesses]
  /\ res \in [Threads -> Cells \cup {NoRead}]
  /\ next \in [Threads -> 0 .. PageCount]
  /\ ckpt \in [Threads -> [Pages -> Contents \cup {Absent}]]

Init ==
  /\ state = [p \in Pages |-> "UNLOADED"]
  /\ cache = [p \in Pages |-> Absent]
  /\ map = [c \in Clients |-> [p \in Pages |-> "none"]]
  /\ anon = [c \in Clients |-> [p \in Pages |-> ZeroPage]]
  /\ dirty = [c \in Clients |-> {}]
  /\ stop = [c \in Clients |-> FALSE]
  /\ joined = [c \in Clients |-> FALSE]
  /\ pc = [c \in Clients |-> "new"]
  /\ page = [c \in Clients |-> 0]
  /\ buf = [c \in Clients |-> ZeroPage]
  /\ st = [t \in Threads |-> "idle"]
  /\ acc = [t \in Threads |-> [op |-> "read", page |-> 0, off |-> CHOOSE o \in Offsets : TRUE]]
  /\ res = [t \in Threads |-> NoRead]
  /\ next = [t \in Threads |-> 0]
  /\ ckpt = [t \in Threads |-> [p \in Pages |-> Absent]]

-----------------------------------------------------------------------------
(* The kernel: accesses, faults and wake-ups *)

(* A thread is about to load from, or store its mark to, one cell. *)
Issue(t, a) ==
  /\ st[t] = "idle"
  /\ t \in IF a.op = "read" THEN Readers ELSE Writers
  /\ st' = [st EXCEPT ![t] = "access"]
  /\ acc' = [acc EXCEPT ![t] = a]
  /\ UNCHANGED <<shared, space, client, handler, res, next, ckpt>>

(* The access of t raises a fault of kind "missing" or "wp" and t sleeps   *)
(* until its client's userfaultfd is told to wake the page.                *)
Fault(t, kind) ==
  /\ st' = [st EXCEPT ![t] = kind]
  /\ UNCHANGED <<shared, space, client, handler, acc, res, next, ckpt>>

(* The access of t completes on page content m; newMap is the page-table   *)
(* entry it leaves behind.                                                 *)
Complete(t, m, newMap) ==
  LET c == Owner[t]
      a == acc[t]
      n == [m EXCEPT ![a.off] = t]
  IN  /\ st' = [st EXCEPT ![t] = "idle"]
      /\ map' = [map EXCEPT ![c][a.page] = newMap]
      /\ IF a.op = "read"
         THEN /\ res' = [res EXCEPT ![t] = m[a.off]]
              /\ UNCHANGED <<cache, anon>>
         ELSE /\ IF newMap = "priv"
                 THEN anon' = [anon EXCEPT ![c][a.page] = n] /\ UNCHANGED cache
                 ELSE cache' = [cache EXCEPT ![a.page] = n] /\ UNCHANGED anon
              /\ UNCHANGED res
      /\ UNCHANGED <<state, client, handler, acc, next, ckpt>>

(* A page that is in the page cache but not in the client's page table is  *)
(* mapped by the kernel without a message and without write protection:    *)
(* the client is registered for MISSING and WP, not for MINOR faults, and  *)
(* nobody write-protects the range.                                        *)
Access(t) ==
  LET c == Owner[t]
      a == acc[t]
      m == map[c][a.page]
  IN  /\ st[t] = "access"
      /\ \/ m = "none" /\ cache[a.page] = Absent /\ Fault(t, "missing")
         \/ m = "none" /\ cache[a.page] # Absent /\ Complete(t, cache[a.page], "rw")
         \/ m = "wp" /\ a.op = "write" /\ Fault(t, "wp")
         \/ m = "wp" /\ a.op = "read" /\ Complete(t, cache[a.page], "wp")
         \/ m = "rw" /\ Complete(t, cache[a.page], "rw")
         \/ m = "priv" /\ Complete(t, anon[c][a.page], "priv")

(* A mapping of the memfd that is not registered (the service's own        *)
(* mapping, or a client's before Client::new) touches a hole: the kernel   *)
(* fills it with zeroes.                                                   *)
UnregisteredTouch(p) ==
  /\ EarlyTouch
  /\ cache[p] = Absent
  /\ cache' = [cache EXCEPT ![p] = ZeroPage]
  /\ UNCHANGED <<state, space, client, handler, thread>>

(* UFFDIO_WAKE on page p, also the last thing a successful UFFDIO_COPY     *)
(* does: every thread of c asleep on p retries, its message is withdrawn.  *)
Wake(c, p) ==
  st' = [t \in Threads |->
           IF Owner[t] = c /\ st[t] \in Asleep /\ acc[t].page = p THEN "access" ELSE st[t]]

-----------------------------------------------------------------------------
(* Client: starting, stopping and the handler's loop *)

Goto(c, label) == pc' = [pc EXCEPT ![c] = label]

(* The handler returns an error: thread::spawn's closure ends. *)
Fail(c, kind, label) ==
  /\ kind \in Failures
  /\ Goto(c, label)
  /\ UNCHANGED <<shared, space, client, page, buf, thread>>

StartHandler(c) ==
  /\ pc[c] = "new"
  /\ Goto(c, "check")
  /\ UNCHANGED <<shared, space, client, page, buf, thread>>

(* stop_handler: set the flag, then join the thread. *)
StopHandler(c) ==
  /\ pc[c] # "new" /\ ~stop[c]
  /\ stop' = [stop EXCEPT ![c] = TRUE]
  /\ UNCHANGED <<shared, space, dirty, joined, handler, thread>>

Join(c) ==
  /\ stop[c] /\ ~joined[c] /\ pc[c] \in EndPCs
  /\ joined' = [joined EXCEPT ![c] = TRUE]
  /\ UNCHANGED <<shared, space, dirty, stop, handler, thread>>

(* The top of fault_handler_main's loop. *)
CheckStop(c) ==
  /\ pc[c] = "check"
  /\ Goto(c, IF stop[c] THEN "exited" ELSE "poll")
  /\ UNCHANGED <<shared, space, client, page, buf, thread>>

(* poll times out, is interrupted, or the message was withdrawn. *)
PollTimeout(c) ==
  /\ pc[c] = "poll"
  /\ Goto(c, "check")
  /\ UNCHANGED <<shared, space, client, page, buf, thread>>

(* poll reports a message; it is read and dispatched on its WP flag. *)
ReadMessage(c) ==
  /\ pc[c] = "poll"
  /\ \E t \in Threads :
       /\ Owner[t] = c /\ st[t] \in {"missing", "wp"}
       /\ st' = [st EXCEPT ![t] = "claimed"]
       /\ page' = [page EXCEPT ![c] = acc[t].page]
       /\ Goto(c, IF st[t] = "wp" THEN "snapshot" ELSE "cas")
  /\ UNCHANGED <<shared, space, client, buf, acc, res, next, ckpt>>

PollError(c) == pc[c] = "poll" /\ Fail(c, "poll", "failed")

-----------------------------------------------------------------------------
(* handle_missing_fault *)

(* Mutant: a load and a store instead of a compare-and-swap that also      *)
(* takes over a page that is LOADING.                                      *)
CompareExchangeSteals(c) ==
  /\ pc[c] = "cas"
  /\ \/ /\ state[page[c]] # "SHARED_READY"
        /\ state' = [state EXCEPT ![page[c]] = "LOADING"]
        /\ Goto(c, "read_page")
     \/ state[page[c]] = "SHARED_READY" /\ Goto(c, "wake") /\ UNCHANGED state
  /\ UNCHANGED <<cache, space, client, page, buf, thread>>

(* compare_exchange(UNLOADED, LOADING) and the match on its result. *)
CompareExchange(c) ==
  LET p == page[c]
  IN  /\ pc[c] = "cas"
      /\ \/ /\ state[p] = "UNLOADED"
            /\ state' = [state EXCEPT ![p] = "LOADING"]
            /\ Goto(c, "read_page")
         \/ state[p] = "LOADING" /\ Goto(c, "spin") /\ UNCHANGED state
         \/ state[p] = "SHARED_READY" /\ Goto(c, "wake") /\ UNCHANGED state
      /\ UNCHANGED <<cache, space, client, page, buf, thread>>

(* backend.read_page into a fresh buffer. *)
ReadPage(c) ==
  /\ pc[c] = "read_page"
  /\ page[c] \in MergedBitmap
  /\ buf' = [buf EXCEPT ![c] = BackendPage(page[c])]
  /\ Goto(c, "copy")
  /\ UNCHANGED <<shared, space, client, page, thread>>

(* read_page fails where no layer has the page, or the file cannot be read.*)
ReadPageError(c) ==
  /\ pc[c] = "read_page"
  /\ page[c] \notin MergedBitmap \/ "read_page" \in Failures
  /\ Goto(c, "failed_loading")
  /\ UNCHANGED <<shared, space, client, page, buf, thread>>

(* Mutant: EEXIST is taken for success and nobody is woken. *)
CopyPageNoWake(c) ==
  LET p == page[c]
  IN  /\ pc[c] = "copy"
      /\ IF cache[p] = Absent
         THEN /\ cache' = [cache EXCEPT ![p] = buf[c]]
              /\ map' = [map EXCEPT ![c][p] = "wp"]
              /\ Wake(c, p)
         ELSE UNCHANGED <<cache, map, st>>
      /\ Goto(c, "publish")
      /\ UNCHANGED <<state, anon, client, page, buf, acc, res, next, ckpt>>

(* UFFDIO_COPY with MODE_WP puts the page into the page cache, maps it     *)
(* protected into this client and wakes.  If the cache has the page it     *)
(* answers EEXIST, and the handler wakes by hand.  CopyError is an error   *)
(* of either call.                                                         *)
CopyPage(c) ==
  LET p == page[c]
  IN  /\ pc[c] = "copy"
      /\ IF cache[p] = Absent
         THEN /\ cache' = [cache EXCEPT ![p] = buf[c]]
              /\ map' = [map EXCEPT ![c][p] = "wp"]
         ELSE UNCHANGED <<cache, map>>
      /\ Wake(c, p)
      /\ Goto(c, "publish")
      /\ UNCHANGED <<state, anon, client, page, buf, acc, res, next, ckpt>>

CopyError(c) == pc[c] = "copy" /\ Fail(c, "copy", "failed_loading")

(* Mutant: the store is forgotten. *)
PublishNothing(c) ==
  /\ pc[c] = "publish"
  /\ buf' = [buf EXCEPT ![c] = ZeroPage]
  /\ Goto(c, "check")
  /\ UNCHANGED <<shared, space, client, page, thread>>

(* The store of SHARED_READY that releases the peers; the buffer is freed. *)
Publish(c) ==
  /\ pc[c] = "publish"
  /\ state' = [state EXCEPT ![page[c]] = "SHARED_READY"]
  /\ buf' = [buf EXCEPT ![c] = ZeroPage]
  /\ Goto(c, "check")
  /\ UNCHANGED <<cache, space, client, page, thread>>

(* The loop of a handler that lost the race; it does not look at stop. *)
SpinDone(c) ==
  /\ pc[c] = "spin"
  /\ state[page[c]] = "SHARED_READY"
  /\ Goto(c, "wake")
  /\ UNCHANGED <<shared, space, client, page, buf, thread>>

WakePage(c) ==
  /\ pc[c] = "wake"
  /\ Wake(c, page[c])
  /\ Goto(c, "check")
  /\ UNCHANGED <<shared, space, client, page, buf, acc, res, next, ckpt>>

WakeError(c) == pc[c] = "wake" /\ Fail(c, "wake", "failed")

-----------------------------------------------------------------------------
(* handle_wp_fault *)

(* What client c reads at page p through its own mapping. *)
Mapped(c, p) == IF map[c][p] = "priv" THEN anon[c][p] ELSE cache[p]

(* Map a scratch page and copy the shared page into it. *)
Snapshot(c) ==
  /\ pc[c] = "snapshot"
  /\ buf' = [buf EXCEPT ![c] = Mapped(c, page[c])]
  /\ Goto(c, "writeprotect")
  /\ UNCHANGED <<shared, space, client, page, thread>>

SnapshotError(c) == pc[c] = "snapshot" /\ Fail(c, "snapshot", "failed")

(* UFFDIO_WRITEPROTECT without the WP bit: the protection is lifted, the   *)
(* sleepers are not woken.                                                 *)
ClearWriteProtect(c) ==
  /\ pc[c] = "writeprotect"
  /\ map' = [map EXCEPT ![c][page[c]] = "rw"]
  /\ Goto(c, "remap")
  /\ UNCHANGED <<shared, anon, client, page, buf, thread>>

ClearWriteProtectError(c) == pc[c] = "writeprotect" /\ Fail(c, "writeprotect", "failed")

(* mmap(MAP_FIXED | MAP_PRIVATE | MAP_ANONYMOUS) over the page: zeroes. *)
RemapPrivate(c) ==
  LET p == page[c]
  IN  /\ pc[c] = "remap"
      /\ map' = [map EXCEPT ![c][p] = "priv"]
      /\ anon' = [anon EXCEPT ![c][p] = ZeroPage]
      /\ Goto(c, "copyback")
      /\ UNCHANGED <<shared, client, page, buf, thread>>

RemapError(c) == pc[c] = "remap" /\ Fail(c, "remap", "failed")

(* Mutant: the new page is copied onto itself. *)
CopyBackItself(c) ==
  /\ pc[c] = "copyback"
  /\ buf' = [buf EXCEPT ![c] = ZeroPage]
  /\ Goto(c, "mark")
  /\ UNCHANGED <<shared, space, client, page, thread>>

(* Copy the snapshot into the new page and unmap the scratch page. *)
CopyBack(c) ==
  /\ pc[c] = "copyback"
  /\ anon' = [anon EXCEPT ![c][page[c]] = buf[c]]
  /\ buf' = [buf EXCEPT ![c] = ZeroPage]
  /\ Goto(c, "mark")
  /\ UNCHANGED <<shared, map, client, page, thread>>

(* mark_private_dirty; is_private is written beside dirty and never read. *)
MarkPrivateDirty(c) ==
  /\ pc[c] = "mark"
  /\ dirty' = [dirty EXCEPT ![c] = @ \cup {page[c]}]
  /\ Goto(c, "wake")
  /\ UNCHANGED <<shared, space, stop, joined, page, buf, thread>>

-----------------------------------------------------------------------------
(* Checkpoint::export, called by an application thread *)

StartExport(t) ==
  /\ st[t] = "idle" /\ t \in Exporters
  /\ st' = [st EXCEPT ![t] = "export"]
  /\ UNCHANGED <<shared, space, client, handler, acc, res, next, ckpt>>

(* Mutant: the page is copied out of the memfd, not out of the mapping. *)
ExportSharedPage(t) ==
  LET c == Owner[t]
      p == next[t]
  IN  /\ st[t] = "export" /\ p < PageCount
      /\ ckpt' = [ckpt EXCEPT ![t][p] = IF p \in dirty[c] THEN cache[p] ELSE Absent]
      /\ next' = [next EXCEPT ![t] = p + 1]
      /\ UNCHANGED <<shared, space, client, handler, st, acc, res>>

(* One turn of the loop: skip the page, or copy it out. *)
ExportPage(t) ==
  LET c == Owner[t]
      p == next[t]
  IN  /\ st[t] = "export" /\ p < PageCount
      /\ ckpt' = [ckpt EXCEPT ![t][p] = IF p \in dirty[c] THEN Mapped(c, p) ELSE Absent]
      /\ next' = [next EXCEPT ![t] = p + 1]
      /\ UNCHANGED <<shared, space, client, handler, st, acc, res>>

(* The checkpoint is handed to the caller. *)
FinishExport(t) ==
  /\ st[t] = "export" /\ next[t] = PageCount
  /\ st' = [st EXCEPT ![t] = "idle"]
  /\ next' = [next EXCEPT ![t] = 0]
  /\ ckpt' = [ckpt EXCEPT ![t] = [p \in Pages |-> Absent]]
  /\ UNCHANGED <<shared, space, client, handler, acc, res>>

-----------------------------------------------------------------------------
(* The process dies: its threads, its handler and its address space go,    *)
(* with the page metadata in it; the memfd and the state words stay.       *)
Crash(c) ==
  /\ "crash" \in Failures
  /\ pc[c] \notin EndPCs
  /\ Goto(c, IF pc[c] \in LoaderPCs THEN "failed_loading" ELSE "failed")
  /\ st' = [t \in Threads |-> IF Owner[t] = c THEN "dead" ELSE st[t]]
  /\ map' = [map EXCEPT ![c] = [p \in Pages |-> "none"]]
  /\ dirty' = [dirty EXCEPT ![c] = {}]
  /\ UNCHANGED <<shared, anon, stop, joined, page, buf, acc, res, next, ckpt>>

HandlerStep(c) ==
  \/ CheckStop(c) \/ ReadMessage(c) \/ PollError(c)
  \/ CompareExchange(c) \/ ReadPage(c) \/ ReadPageError(c)
  \/ CopyPage(c) \/ CopyError(c) \/ Publish(c) \/ SpinDone(c)
  \/ WakePage(c) \/ WakeError(c)
  \/ Snapshot(c) \/ SnapshotError(c)
  \/ ClearWriteProtect(c) \/ ClearWriteProtectError(c)
  \/ RemapPrivate(c) \/ RemapError(c) \/ CopyBack(c) \/ MarkPrivateDirty(c)

ThreadStep(t) == Access(t) \/ ExportPage(t) \/ FinishExport(t)

Next ==
  \/ \E c \in Clients : HandlerStep(c) \/ PollTimeout(c)
  \/ \E c \in Clients : StartHandler(c) \/ StopHandler(c) \/ Join(c) \/ Crash(c)
  \/ \E t \in Threads : ThreadStep(t) \/ StartExport(t)
  \/ \E t \in Threads, a \in Accesses : Issue(t, a)
  \/ \E p \in Pages : UnregisteredTouch(p)

Spec == Init /\ [][Next]_vars

(* The scheduler runs every handler and every runnable thread; a poll with *)
(* a message waiting returns it, and a poll with none times out.           *)
Fairness ==
  /\ \A c \in Clients : WF_vars(HandlerStep(c)) /\ WF_vars(PollTimeout(c)) /\ WF_vars(Join(c))
  /\ \A c \in Clients : WF_vars(StartHandler(c)) /\ SF_vars(ReadMessage(c))
  /\ \A t \in Threads : WF_vars(ThreadStep(t))

FairSpec == Spec /\ Fairness

-----------------------------------------------------------------------------
(* Safety of the page-loading protocol *)

(* Client c is responsible for page p: it won the compare-and-swap and has *)
(* not stored SHARED_READY (and never will, if it returned an error).      *)
Loads(c, p) == page[c] = p /\ pc[c] \in LoaderPCs \cup {"failed_loading"}

(* A page is LOADING exactly while one handler, and no second one, is      *)
(* between its compare-and-swap and its store of SHARED_READY              *)
(* (handle_missing_fault), whatever fails and whoever dies.                *)
LoaderExclusive ==
  \A p \in Pages :
    /\ state[p] = "LOADING" <=> \E c \in Clients : Loads(c, p)
    /\ \A c, d \in Clients : Loads(c, p) /\ Loads(d, p) => c = d

(* Nobody is told that a page is ready before the page is in the memfd,    *)
(* and a handler that wakes its threads does not send them back into the   *)
(* same missing fault.                                                     *)
ReadyIsCached ==
  /\ \A p \in Pages : state[p] = "SHARED_READY" => cache[p] # Absent
  /\ \A c \in Clients : pc[c] \in {"publish", "wake"} => cache[page[c]] # Absent

(* The dirty flag is exact: a page of client c is a private copy if and    *)
(* only if it is marked, except while the handler is between the mmap and  *)
(* mark_private_dirty.  A checkpoint taken then copies no page whose       *)
(* access would fault and misses no private page that is complete.         *)
PrivateIsDirty ==
  \A c \in Clients, p \in Pages :
    /\ p \in dirty[c] => map[c][p] = "priv"
    /\ map[c][p] = "priv" /\ p \notin dirty[c] =>
         page[c] = p /\ pc[c] \in {"copyback", "mark"}

(* The handler reads the page it copies through the very mapping that is   *)
(* registered: were it not present, the handler would sleep on a message   *)
(* only it can answer.  So a write-protect message is never stale.         *)
HandlerNeverFaults ==
  \A c \in Clients :
    /\ pc[c] \in {"snapshot", "writeprotect"} => map[c][page[c]] = "wp"
    /\ pc[c] = "remap" => map[c][page[c]] = "rw"
    /\ pc[c] \in {"copyback", "mark"} => map[c][page[c]] = "priv"
    /\ \A p \in Pages : map[c][p] # "none" => cache[p] # Absent

(* A thread asleep on write protection sleeps on a protected page, unless  *)
(* the handler is replacing that page and has not woken it yet, or has     *)
(* ended.                                                                  *)
WpPending ==
  \A t \in Threads :
    LET c == Owner[t]
    IN  st[t] = "wp" =>
          \/ map[c][acc[t].page] = "wp"
          \/ page[c] = acc[t].page /\ pc[c] \in {"remap", "copyback", "mark", "wake"}
          \/ pc[c] \in EndPCs

(* The inductive invariant: the four properties above are not inductive    *)
(* one by one.  That a snapshot is taken of a protected page needs         *)
(* WpPending; that page contents have their type needs that what is mapped *)
(* is in the memfd.                                                        *)
IInv ==
  /\ TypeOK
  /\ LoaderExclusive
  /\ ReadyIsCached
  /\ PrivateIsDirty
  /\ HandlerNeverFaults
  /\ WpPending

-----------------------------------------------------------------------------
(* Isolation *)

(* The shared pages are read-only: what the memfd holds is the template.   *)
TemplateReadOnly == \A p \in Pages : cache[p] \in {Absent, BackendPage(p)}

(* What client c would find at page p if it looked now, the pages it has   *)
(* not faulted in and the one its handler is replacing included.           *)
View(c, p) ==
  CASE page[c] = p /\ pc[c] = "copyback" -> buf[c]
    [] map[c][p] = "priv" /\ ~(page[c] = p /\ pc[c] = "copyback") -> anon[c][p]
    [] map[c][p] # "priv" /\ cache[p] # Absent -> cache[p]
    [] OTHER -> BackendPage(p)

(* A finished checkpoint laid over the backend is the client's memory, for *)
(* a client whose only thread is the one that exports.                     *)
CheckpointExact ==
  \A t \in Threads :
    st[t] = "export" /\ next[t] = PageCount =>
      \A p \in Pages :
        View(Owner[t], p) = IF ckpt[t][p] = Absent THEN BackendPage(p) ELSE ckpt[t][p]

(* Every client has a copy-on-write memory of its own. *)
Cow == INSTANCE CowMemory WITH
  Template <- [p \in Pages |-> BackendPage(p)],
  mem <- [c \in Clients |-> [p \in Pages |-> View(c, p)]]
CowSpec == Cow!Spec

-----------------------------------------------------------------------------
(* Liveness *)

(* The read of page p failed in some client, and the page stays LOADING. *)
Abandoned(p) == \E d \in Clients : pc[d] = "failed_loading" /\ page[d] = p

(* A thread that sleeps in a fault runs again, unless its own client stops *)
(* the handler, its own handler returns an error, or the load of the page  *)
(* it waits for has failed in some client.                                 *)
FaultResolved ==
  \A t \in Threads :
    st[t] \in Asleep ~> \/ st[t] \notin Asleep
                       \/ stop[Owner[t]]
                       \/ pc[Owner[t]] \in EndPCs
                       \/ Abandoned(acc[t].page)

(* stop_handler returns: the handler leaves its loops, the one in which it *)
(* waits for another process to load a page included, unless that load has *)
(* failed and nobody will finish it.                                       *)
StopReturns == \A c \in Clients : stop[c] ~> joined[c] \/ Abandoned(page[c])
=============================================================================
