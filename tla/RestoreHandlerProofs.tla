------------------------ MODULE RestoreHandlerProofs ------------------------
(***************************************************************************)
(* The userfaultfd handler of a restored VM and the page service it reads  *)
(* from, for any memory layout, any number of vCPUs and any failures.      *)
(*                                                                         *)
(* The argument starts from what the handler is loading: while it is       *)
(* waiting for a message no page is LOADING, and while it works on one the *)
(* pages that are LOADING are those of the message (Batch).  From this     *)
(* follow the spin loops that are never entered, the chunks that are       *)
(* replaced as a whole and the handler's counters.  The service's metrics  *)
(* need the same fact of two processes: a page that has arrived at the     *)
(* client is recorded, or is the one the connection's thread is about to   *)
(* record.  The last section shows that the guest sees a private copy of   *)
(* the template.                                                           *)
(***************************************************************************)
EXTENDS RestoreHandler, FiniteSetTheorems, WellFoundedInduction, TLAPS

(* Zenon settles most steps at once; the others get more than the default. *)
USE ZenonT(3), SMTT(20), ZenonT(20)

-----------------------------------------------------------------------------
(* The inductive invariant *)

(* Where the handler has no page in hand, where it loads pages, and where  *)
(* it has failed or ended.                                                 *)
AtRest == {"none", "connect", "setup", "wait", "acquire", "wake", "ok"}
Loads  == {"read", "await", "copy"}
Failed == {"error", "drop", "ended"}

Maps == {"none", "wp", "rw", "priv"}

GuestTypes ==
  /\ present \in [Pages -> Maps] /\ gone \in SUBSET Pages
  /\ mem = [q \in Pages |-> mem[q]] /\ buf = [q \in Pages |-> buf[q]]
  /\ res = [v \in VCpus |-> res[v]]
  /\ active \in (SUBSET VCpus) \ {{}}
  /\ st \in [VCpus -> {"idle", "access"} \cup Asleep]
  /\ acc \in [VCpus -> [op : {"read", "write"}, page : Pages \cup {0}]]
  /\ \A v \in VCpus : st[v] # "idle" => v \in active /\ acc[v].page \in Pages

HandlerTypes ==
  /\ pc \in AtRest \cup Loads \cup Replacing \cup Failed
  /\ state \in [Pages -> PageStates] /\ todo \in SUBSET Pages
  /\ fault \in [page : Pages \cup {0}, kind : {"missing", "wp"}]
  /\ pc \in {"acquire", "wake"} \cup Loads \cup Replacing => fault.page \in Pages
  /\ pc \in {"acquire"} \cup Replacing => fault.kind = "wp"
  /\ counts \in [served : Nat, dirtied : Nat]

(* The pages of the message the handler works on. *)
Batch == IF fault.kind = "missing" THEN {fault.page} ELSE COW

(* What is LOADING, and what of it is still to be loaded. *)
LoadingInv ==
  /\ pc \in AtRest => todo = {} /\ \A q \in Pages : state[q] # "LOADING"
  /\ pc \in Loads => todo # {} /\ todo \subseteq Batch
  /\ pc \in Replacing => todo = {}
  /\ pc \in Loads \cup Replacing => \A q \in Pages : state[q] = "LOADING" <=> q \in Batch

Loaded == {q \in Pages : state[q] # "UNLOADED" /\ q \notin todo}
Dirtied == {q \in Pages : state[q] = "PRIVATE_DIRTY"}

(* A page that was loaded is mapped, unless the balloon took it. *)
LoadedInv == \A q \in Loaded : present[q] # "none" \/ q \in gone

(* Once a chunk is remapped all of it is private. *)
ReplacedInv == pc \in {"copyback", "mark"} => \A q \in COW : present[q] = "priv"

CountInv == counts.served = Cardinality(Loaded) /\ counts.dirtied = Cardinality(Dirtied)

(* The page whose bytes the client has or can read, and has not installed. *)
InFlight == IF pc = "copy" \/ (pc = "await" /\ rsp.status = "ok") THEN {LoadPage} ELSE {}
Arrived == Loaded \cup InFlight

(* Where R is recorded: the pages that are, or are about to be.            *)
Asked(R) == R \cup (IF srv = "record" THEN {cur} ELSE {})

(* At most one message is under way, and it is about the page the client   *)
(* waits for.                                                              *)
SocketInv ==
  /\ rsp.status # "none" => pc = "await" /\ req = NoPage
  /\ rsp.status = "ok" => rsp.page = LoadPage
  /\ req # NoPage => srv = "gone" \/ (pc = "await" /\ req = LoadPage)

(* R is what the metrics count.  What has arrived is recorded, but for the *)
(* page being recorded when the service works or died; and what is left to *)
(* load was never asked for.                                               *)
MetricsFor(R) ==
  /\ metrics.requests = Cardinality(R)
  /\ metrics.unique = UNION {record_unique_pages(Request[p]) : p \in R}
  /\ Asked(R) \subseteq Loaded \cup todo
  /\ pc \notin Failed => todo \cap Asked(R) \subseteq InFlight
  /\ srv = "record" => cur \notin R
  /\ srv # "gone" => Arrived \subseteq Asked(R)
  /\ srv = "gone" => \E c \in Pages \cup {NoPage} : Arrived \subseteq R \cup {c}

MetricsInv == \E R \in SUBSET Pages : MetricsFor(R)

ServiceInv == ServiceTypeOK /\ (source = "service" => SocketInv /\ MetricsInv)

HandlerInv ==
  GuestTypes /\ HandlerTypes /\ LoadingInv /\ LoadedInv /\ ChunkPrivate /\ ReplacedInv /\ CountInv

(* Before the restore there is no handler and nothing to serve; when the   *)
(* handler has ended the userfaultfd is closed.                            *)
LifeInv ==
  /\ vmm = "setup" => /\ ~open /\ pc = "none" /\ \A q \in Pages : present[q] = "none"
                      /\ \A v \in VCpus : st[v] = "idle"
  /\ pc = "ended" => ~open

(* What the guest sees: while the userfaultfd is open a mapped page has    *)
(* been loaded; a vCPU sleeps on write protection only where there is a    *)
(* page; and what the client is about to install is the template's page.   *)
MappedInv ==
  /\ open => \A q \in Pages : present[q] # "none" => q \in Loaded
  /\ \A v \in VCpus : st[v] = "wp" => state[acc[v].page] # "UNLOADED"
  /\ pc = "acquire" => state[fault.page] # "UNLOADED"
  /\ pc \in Loads /\ fault.kind = "wp" => fault.page \notin todo
  /\ pc = "copy" => buf[LoadPage] = TemplatePage(LoadPage)
  /\ pc = "await" => source = "service"

(* The only vCPU of a VM sleeps while its chunk is being replaced, so that *)
(* what the handler saved of the chunk is what is in it.                   *)
AloneInv ==
  \A v \in VCpus : active = {v} =>
    /\ pc \in {"acquire"} \cup Loads \cup Replacing /\ fault.kind = "wp" =>
         st[v] = "claimed" /\ acc[v].page = fault.page
    /\ pc \in {"unprotect", "remap"} /\ gone = {} => \A q \in COW : buf[q] = mem[q]

AllInv == HandlerInv /\ LifeInv /\ ServiceInv /\ MappedInv /\ AloneInv

-----------------------------------------------------------------------------
(* Pages and chunks *)

(* The pages are finitely many natural numbers. *)
LEMMA PagesFinite == Pages \in SUBSET Nat /\ IsFiniteSet(Pages)
<1>1. PICK n \in Nat : Pages = 0 .. n - 1
  BY RestoreConstants, Zenon
<1>2. Pages \in SUBSET Nat
  BY <1>1
<1>3. IsFiniteSet(Pages)
  BY <1>1, FS_Interval
<1> QED BY <1>2, <1>3

(* A set of numbers that is not empty has a least member. *)
LEMMA LeastPage ==
  ASSUME NEW T \in SUBSET Pages, T # {}
  PROVE  Min(T) \in T
<1>1. PICK R : R = OpToRel(<, Nat)
  BY Zenon
<1>2. \A x, y \in Nat : y < x => <<y, x>> \in R
  BY <1>1 DEF OpToRel
<1>3. IsWellFoundedOn(R, Nat)
  BY <1>1, NatLessThanWellFounded, Zenon
<1>4. T \in SUBSET Nat
  BY PagesFinite
<1>5. \E x \in T : \A y \in T : ~ (<<y, x>> \in R)
  BY <1>3, <1>4, WFMin
<1>6. ASSUME NEW x \in T, \A y \in T : ~ (<<y, x>> \in R), NEW y \in T
      PROVE  x <= y
  <2>1. x \in Nat /\ y \in Nat
    BY <1>4
  <2>2. ~ (y < x)
    BY <1>2, <1>6, <2>1, Zenon
  <2> QED BY <2>1, <2>2
<1>7. \E x \in T : \A y \in T : x <= y
  BY <1>5, <1>6, Zenon
<1> QED BY <1>7 DEF Min

(* The page the handler loads next is one it has to load. *)
LEMMA LoadPageInTodo ==
  ASSUME todo \in SUBSET Pages, todo # {} PROVE LoadPage \in todo
BY LeastPage DEF LoadPage

(* Chunks are the classes of an equivalence. *)
LEMMA ChunkClass ==
  /\ \A p \in Pages : p \in Chunk(p) /\ Chunk(p) \in SUBSET Pages
  /\ \A p, q \in Pages : q \in Chunk(p) => Chunk(q) = Chunk(p)
BY Zenon DEF Chunk, Chunks

(* A vCPU that is woken is one that slept. *)
LEMMA WakeOnlySleepers ==
  ASSUME GuestTypes, NEW P, Wake(P)
  PROVE  /\ st' \in [VCpus -> {"idle", "access"} \cup Asleep]
         /\ \A v \in VCpus : st'[v] = st[v] \/ (st[v] \in Asleep /\ acc[v].page \in P /\ st'[v] = "access")
BY DEF GuestTypes, Wake, Asleep

-----------------------------------------------------------------------------
(* Steps *)

(* No page becomes private or stops being so, and none is unmapped but by  *)
(* the balloon.                                                            *)
MapsKept ==
  \A q \in Pages :
    /\ present'[q] = "priv" <=> present[q] = "priv"
    /\ present[q] # "none" \/ q \in gone => present'[q] # "none" \/ q \in gone'

(* A step that leaves the page states alone, changes no mapping that       *)
(* matters to them, and moves the handler at most between places of one    *)
(* kind.                                                                   *)
QuietStep ==
  /\ UNCHANGED <<state, todo, fault, counts>> /\ MapsKept
  /\ \/ pc' = pc
     \/ pc \in AtRest /\ pc' \in (AtRest \ {"acquire", "wake"}) \cup Failed
     \/ pc \in Loads /\ pc' \in Loads \cup Failed
     \/ pc \in {"snapshot", "unprotect", "remap"} /\ pc' = "error"
     \/ pc = "snapshot" /\ pc' = "unprotect"
     \/ pc = "unprotect" /\ pc' = "remap"
     \/ pc = "copyback" /\ pc' = "mark"
     \/ pc \in Failed /\ pc' \in Failed

(* The steps that are quiet. *)
Idling ==
  \/ VmmStep \/ StopUffdHandler \/ Connect \/ Setup \/ StopEvent \/ SendResult \/ Errors
  \/ ServerStep \/ ServerFailure \/ Disconnect \/ UNCHANGED vars
Reading == ReadFile \/ SendRequest \/ ReceiveReply
Copying == SnapshotChunk \/ CopyBack
Waking == DropUffd \/ WakeFaulted

LEMMA QuietSteps ==
  ASSUME GuestTypes, vmm = "setup" => pc = "none",
         \/ Idling \/ Reading \/ Copying \/ Waking \/ Unprotect
         \/ \E v \in VCpus, a \in Accesses : Issue(v, a)
         \/ \E v \in VCpus : Access(v)
         \/ \E p \in Pages : Discard(p)
  PROVE  QuietStep
<1> USE DEF QuietStep, MapsKept, work, guest, AtRest, Loads, Failed
<1>1. CASE VmmStep
  BY <1>1 DEF VmmStep, RestoreByUffd, RecvReady, CheckResult, JoinHandler
<1>2. CASE StopUffdHandler \/ Connect \/ Setup \/ StopEvent \/ SendResult
  BY <1>2 DEF StopUffdHandler, Connect, Setup, StopEvent, SendResult, Goto
<1>3. CASE Errors
  BY <1>3 DEF Errors, Fail, Goto
<1>4. CASE ServerStep \/ ServerFailure \/ Disconnect \/ UNCHANGED vars
  BY <1>4 DEF ServerStep, ServerFailure, Disconnect, vars
<1>5. CASE Reading \/ Copying
  BY <1>5 DEF Reading, Copying, ReadFile, SendRequest, ReceiveReply, SnapshotChunk, CopyBack
<1>6. CASE Waking
  BY <1>6 DEF Waking, DropUffd, WakeFaulted
<1>7. CASE \E v \in VCpus, a \in Accesses : Issue(v, a)
  BY <1>7 DEF Issue
<1>8. ASSUME NEW v \in VCpus, Access(v) PROVE QuietStep
  <2>1. UNCHANGED <<state, todo, fault, counts, pc, gone>> /\ acc[v].page \in Pages
    BY <1>8 DEF Access, Fault, Complete, GuestTypes
  <2>2. UNCHANGED present \/ \E x \in Pages : \E m \in {"rw", present[x]} :
          /\ present' = [present EXCEPT ![x] = m]
          /\ m # "none" /\ (present[x] = "priv" => m = "priv")
    BY <1>8, <2>1 DEF Access, Fault, Complete, GuestTypes
  <2> QED BY <2>1, <2>2 DEF GuestTypes
<1>9. ASSUME NEW p \in Pages, Discard(p) PROVE QuietStep
  BY <1>9 DEF Discard, GuestTypes
<1>10. CASE Unprotect
  BY <1>10 DEF Unprotect, GuestTypes
<1> QED BY <1>1, <1>2, <1>3, <1>4, <1>5, <1>6, <1>7, <1>8, <1>9, <1>10 DEF Idling

(* Every step is one of these, or one of seven that do the work.           *)
LEMMA NextSteps ==
  ASSUME [Next]_vars
  PROVE  \/ Idling \/ Reading \/ Copying \/ Waking
         \/ \E v \in VCpus, a \in Accesses : Issue(v, a)
         \/ \E v \in VCpus : Access(v)
         \/ \E p \in Pages : Discard(p)
         \/ ReadMessage \/ CopyWp \/ AcquireChunk \/ Unprotect \/ RemapChunk \/ MarkAndWake
BY DEF Next, HandlerStep, Idling, Reading, Copying, Waking

(* The types of the memory and the vCPUs. *)
LEMMA GuestTypesStep ==
  ASSUME HandlerInv, [Next]_vars PROVE GuestTypes'
<1> USE DEF GuestTypes, HandlerInv
<1>1. CASE Idling
  <2>1. UNCHANGED <<guest, cpus, config, buf>>
    BY <1>1 DEF Idling, VmmStep, RestoreByUffd, RecvReady, CheckResult, JoinHandler, StopUffdHandler, Connect,
       Setup, StopEvent, SendResult, Errors, Fail, Goto, ServerStep, ServerFailure, Disconnect, vars, work
  <2> QED BY <2>1 DEF guest, cpus, config
<1>2. CASE Reading
  <2>1. UNCHANGED <<guest, cpus, config>> /\ \E x, y : buf' = [buf EXCEPT ![x] = y] \/ buf' = buf
    BY <1>2 DEF Reading, ReadFile, SendRequest, ReceiveReply, work
  <2> QED BY <2>1 DEF guest, cpus, config
<1>3. CASE Copying
  BY <1>3 DEF Copying, SnapshotChunk, CopyBack, guest, cpus, config
<1>4. CASE Waking
  <2>1. UNCHANGED <<guest, acc, res, config, buf>> /\ (UNCHANGED st \/ \E P : Wake(P))
    BY <1>4 DEF Waking, DropUffd, WakeFaulted, work
  <2> QED BY <2>1, WakeOnlySleepers DEF guest, config, Asleep
<1>5. ASSUME NEW v \in VCpus, NEW a \in Accesses, Issue(v, a) PROVE GuestTypes'
  BY <1>5 DEF Issue, guest, config, work, Accesses
<1>6. ASSUME NEW v \in VCpus, Access(v) PROVE GuestTypes'
  <2>1. UNCHANGED <<config, buf>> /\ acc[v].page \in Pages /\ v \in active
    BY <1>6 DEF Access, config, work
  <2>2. CASE \E k \in {"missing", "wp"} : Fault(v, k)
    BY <2>1, <2>2 DEF Fault, guest, config, Asleep
  <2>3. ASSUME NEW m, NEW new \in Maps, Complete(v, m, new) PROVE GuestTypes'
    BY <2>1, <2>3 DEF Complete, config, NoAccess
  <2> QED BY <1>6, <2>2, <2>3 DEF Access, Maps
<1>7. ASSUME NEW p \in Pages, Discard(p) PROVE GuestTypes'
  BY <1>7 DEF Discard, config, cpus, work, Maps
<1>8. CASE ReadMessage
  BY <1>8 DEF ReadMessage, guest, config, Asleep
<1>9. CASE CopyWp
  <2>1. UNCHANGED <<gone, acc, res, config>> /\ (UNCHANGED st \/ \E P : Wake(P))
    BY <1>9 DEF CopyWp
  <2>2. present' \in [Pages -> Maps] /\ mem' = [q \in Pages |-> mem'[q]] /\ buf' = [q \in Pages |-> buf'[q]]
    BY <1>9 DEF CopyWp, Maps
  <2> QED BY <2>1, <2>2, WakeOnlySleepers DEF config, Asleep
<1>10. CASE AcquireChunk
  BY <1>10 DEF AcquireChunk, guest, cpus, config
<1>11. CASE Unprotect \/ RemapChunk
  BY <1>11 DEF Unprotect, RemapChunk, cpus, config, work, Maps
<1>12. CASE MarkAndWake
  <2>1. UNCHANGED <<guest, acc, res, config, buf>> /\ (UNCHANGED st \/ \E P : Wake(P))
    BY <1>12 DEF MarkAndWake
  <2> QED BY <2>1, WakeOnlySleepers DEF guest, config, Asleep
<1> QED BY <1>1, <1>2, <1>3, <1>4, <1>5, <1>6, <1>7, <1>8, <1>9, <1>10, <1>11, <1>12, NextSteps

(* A quiet step keeps all that the handler's work rests on. *)
HandlerFacts == HandlerTypes /\ LoadingInv /\ LoadedInv /\ ChunkPrivate /\ ReplacedInv /\ CountInv

LEMMA QuietKeeps ==
  ASSUME HandlerInv, GuestTypes', QuietStep PROVE HandlerFacts'
<1> USE DEF HandlerInv, HandlerFacts, QuietStep
<1>1. COW' = COW /\ Batch' = Batch /\ Loaded' = Loaded /\ Dirtied' = Dirtied
  BY DEF COW, Batch, Loaded, Dirtied
<1>2. HandlerTypes'
  BY DEF HandlerTypes, AtRest, Loads, Replacing, Failed
<1>3. LoadingInv'
  BY <1>1 DEF LoadingInv, AtRest, Loads, Replacing, Failed
<1>4. LoadedInv'
  BY <1>1 DEF LoadedInv, MapsKept, Loaded
<1>5. COW \in SUBSET Pages \/ pc \notin {"copyback", "mark"}
  BY ChunkClass DEF COW, HandlerTypes, Replacing
<1>6. ReplacedInv'
  BY <1>1, <1>5 DEF ReplacedInv, MapsKept, AtRest, Loads, Failed
<1>7. CountInv'
  BY <1>1 DEF CountInv
<1>8. ChunkPrivate'
  <2>1. \A q \in Pages : state'[q] = "PRIVATE_DIRTY" => present'[q] = "priv"
    BY DEF ChunkPrivate, MapsKept
  <2>2. ASSUME NEW q \in Pages, present'[q] = "priv", NEW x \in Chunk(q),
               \A y \in Chunk(q) : state[y] = "PRIVATE_DIRTY" /\ present[y] = "priv"
        PROVE  state'[x] = "PRIVATE_DIRTY" /\ present'[x] = "priv"
    BY <2>2, ChunkClass DEF MapsKept
  <2>3. pc \in {"copyback", "mark"} => pc' \in {"copyback", "mark"}
    BY DEF AtRest, Loads, Failed
  <2>4. ASSUME NEW q \in Pages, present'[q] = "priv"
        PROVE  \/ \A x \in Chunk(q) : state'[x] = "PRIVATE_DIRTY" /\ present'[x] = "priv"
               \/ /\ pc' \in {"copyback", "mark"} /\ q \in COW'
                  /\ \A x \in COW' : state'[x] = "LOADING" /\ present'[x] = "priv"
    <3>1. present[q] = "priv"
      BY <2>4 DEF MapsKept
    <3>2. CASE \A x \in Chunk(q) : state[x] = "PRIVATE_DIRTY" /\ present[x] = "priv"
      BY <2>2, <2>4, <3>2
    <3>3. CASE /\ pc \in {"copyback", "mark"} /\ q \in COW
               /\ \A x \in COW : state[x] = "LOADING" /\ present[x] = "priv"
      BY <1>1, <1>5, <2>3, <3>3 DEF MapsKept
    <3> QED BY <3>1, <3>2, <3>3 DEF ChunkPrivate
  <2> QED BY <2>1, <2>4 DEF ChunkPrivate
<1> QED BY <1>2, <1>3, <1>4, <1>6, <1>7, <1>8

(* A message is read when nothing is LOADING, so that the handler never    *)
(* waits for a page that is.                                               *)
LEMMA ReadMessageKeeps ==
  ASSUME HandlerInv, GuestTypes', ReadMessage PROVE HandlerFacts'
<1> USE DEF HandlerInv
<1>1. todo = {} /\ pc = "wait" /\ UNCHANGED <<present, gone, counts>> /\ \A q \in Pages : state[q] # "LOADING"
  BY DEF ReadMessage, LoadingInv, AtRest, guest
<1>2. PICK v \in VCpus :
        LET p == acc[v].page
            load == st[v] = "missing" /\ state[p] = "UNLOADED"
        IN  /\ p \in Pages /\ st[v] \in {"missing", "wp"}
            /\ fault' = [page |-> p, kind |-> st[v]]
            /\ state' = IF load THEN [state EXCEPT ![p] = "LOADING"] ELSE state
            /\ todo' = IF load THEN {p} ELSE {}
            /\ pc' = IF load THEN "read" ELSE IF st[v] = "wp" THEN "acquire" ELSE "wake"
  BY <1>1 DEF ReadMessage, GuestTypes
<1>3. fault'.page \in Pages /\ fault'.kind \in {"missing", "wp"} /\ (pc' = "acquire" => fault'.kind = "wp")
  BY <1>2
<1>4. HandlerTypes'
  BY <1>1, <1>2, <1>3 DEF HandlerTypes, AtRest, Loads, Replacing, Failed, PageStates
<1>5. LoadingInv'
  <2>1. CASE pc' = "read"
    <3>1. Batch' = {fault'.page} /\ todo' = {fault'.page}
      BY <1>2, <2>1 DEF Batch
    <3>2. \A q \in Pages : state'[q] = "LOADING" <=> q = fault'.page
      BY <1>1, <1>2, <2>1 DEF HandlerTypes
    <3> QED BY <2>1, <3>1, <3>2 DEF LoadingInv, AtRest, Loads, Replacing
  <2>2. CASE pc' # "read"
    BY <1>1, <1>2, <2>2 DEF LoadingInv, AtRest, Loads, Replacing
  <2> QED BY <2>1, <2>2
<1>6. Loaded' = Loaded /\ Dirtied' = Dirtied
  BY <1>1, <1>2 DEF Loaded, Dirtied, HandlerTypes
<1>7. LoadedInv' /\ CountInv'
  BY <1>1, <1>6 DEF LoadedInv, CountInv
<1>8. ReplacedInv'
  BY <1>2 DEF ReplacedInv
<1>9. \A q \in Pages : state'[q] = "PRIVATE_DIRTY" <=> state[q] = "PRIVATE_DIRTY"
  BY <1>2 DEF HandlerTypes
<1>10. ChunkPrivate'
  BY <1>1, <1>9, ChunkClass DEF ChunkPrivate
<1> QED BY <1>4, <1>5, <1>7, <1>8, <1>10 DEF HandlerFacts

(* A page is counted when it is installed, on either path. *)
LEMMA CopyWpKeeps ==
  ASSUME HandlerInv, GuestTypes', CopyWp PROVE HandlerFacts'
<1> USE DEF HandlerInv
<1> DEFINE p == LoadPage
<1>1. /\ pc = "copy" /\ UNCHANGED <<fault, gone>> /\ todo' = todo \ {p}
      /\ counts' = [counts EXCEPT !.served = @ + 1]
      /\ present' = IF present[p] = "none" THEN [present EXCEPT ![p] = "wp"] ELSE present
  BY DEF CopyWp
<1>2. p \in todo /\ p \in Batch /\ p \in Pages /\ state[p] = "LOADING"
  BY <1>1, LoadPageInTodo DEF LoadingInv, Loads, HandlerTypes
<1>3. Batch' = Batch /\ COW' = COW
  BY <1>1 DEF Batch, COW
<1> HIDE DEF p
<1>4. \/ /\ fault.kind = "missing" /\ pc' = "wait" /\ todo' = {}
         /\ state' = [state EXCEPT ![p] = "SHARED_READY"]
      \/ /\ fault.kind = "wp" /\ state' = state
         /\ pc' = IF todo' = {} THEN "snapshot" ELSE "read"
  <2>1. fault.kind = "missing" => todo = {p}
    BY <1>1, <1>2 DEF LoadingInv, Loads, Batch
  <2>2. todo = {p} <=> todo' = {}
    BY <1>1, <1>2
  <2> QED BY <1>1, <2>1, <2>2 DEF CopyWp, HandlerTypes, p
<1>5. HandlerTypes'
  BY <1>1, <1>2, <1>4 DEF HandlerTypes, AtRest, Loads, Replacing, Failed, PageStates
<1>6. LoadingInv'
  <2>1. CASE fault.kind = "missing"
    BY <1>1, <1>2, <1>4, <2>1 DEF LoadingInv, AtRest, Loads, Replacing, HandlerTypes, Batch
  <2>2. CASE fault.kind = "wp"
    BY <1>1, <1>3, <1>4, <2>2 DEF LoadingInv, AtRest, Loads, Replacing
  <2> QED BY <2>1, <2>2 DEF HandlerTypes
<1>7. Loaded' = Loaded \cup {p} /\ p \notin Loaded /\ Dirtied' = Dirtied
  BY <1>1, <1>2, <1>4 DEF Loaded, Dirtied, HandlerTypes
<1>8. CountInv'
  <2>1. IsFiniteSet(Loaded)
    BY PagesFinite, FS_Subset DEF Loaded
  <2>2. Cardinality(Loaded') = Cardinality(Loaded) + 1
    BY <1>7, <2>1, FS_AddElement
  <2> QED BY <1>1, <1>7, <2>2 DEF CountInv, HandlerTypes
<1>9. \A q \in Pages : (present[q] # "none" => present'[q] = present[q]) /\ (present[q] = "none" => present'[q] # "priv")
  BY <1>1 DEF GuestTypes
<1>10. LoadedInv'
  BY <1>1, <1>2, <1>7, <1>9 DEF LoadedInv, Loaded, GuestTypes
<1>11. ReplacedInv'
  BY <1>4 DEF ReplacedInv
<1>12. \A q \in Pages : (state'[q] = "PRIVATE_DIRTY" <=> state[q] = "PRIVATE_DIRTY")
                     /\ (present'[q] = "priv" <=> present[q] = "priv")
  BY <1>2, <1>4, <1>9 DEF HandlerTypes
<1>13. ChunkPrivate'
  BY <1>1, <1>12, ChunkClass DEF ChunkPrivate
<1> QED BY <1>5, <1>6, <1>8, <1>10, <1>11, <1>13 DEF HandlerFacts

(* Where a page of the chunk is not private none is: the handler acquires  *)
(* the whole chunk or nothing.                                             *)
LEMMA AcquireKeeps ==
  ASSUME HandlerInv, GuestTypes', AcquireChunk PROVE HandlerFacts'
<1> USE DEF HandlerInv
<1>1. /\ pc = "acquire" /\ UNCHANGED <<fault, present, gone, counts>>
      /\ todo' = {q \in COW : state[q] = "UNLOADED"}
      /\ state' = [q \in Pages |-> IF q \in Acquired THEN "LOADING" ELSE state[q]]
  BY DEF AcquireChunk, guest
<1>2. /\ todo = {} /\ fault.kind = "wp" /\ fault.page \in Pages
      /\ \A q \in Pages : state[q] # "LOADING"
  BY <1>1 DEF LoadingInv, AtRest, HandlerTypes
<1>3. /\ COW \in SUBSET Pages /\ COW' = COW /\ Batch' = COW
      /\ \A q \in COW : Chunk(q) = COW
  BY <1>1, <1>2, ChunkClass DEF COW, Batch
<1>4. pc' = IF Acquired = {} THEN "wake" ELSE IF todo' # {} THEN "read" ELSE "snapshot"
  <2>1. ~ (\E q \in COW : state[q] = "LOADING")
    BY <1>2, <1>3
  <2>2. Acquired = {} => todo' = {}
    BY <1>1 DEF Acquired
  <2> QED BY <2>1, <2>2 DEF AcquireChunk
<1>5. Acquired # {} => Acquired = COW
  <2> SUFFICES ASSUME NEW a \in Acquired, NEW q \in COW PROVE q \in Acquired
    BY DEF Acquired
  <2>1. state[q] # "PRIVATE_DIRTY"
    <3> SUFFICES ASSUME state[q] = "PRIVATE_DIRTY" PROVE FALSE
      OBVIOUS
    <3>1. present[q] = "priv"
      BY <1>3 DEF ChunkPrivate
    <3>2. \A y \in Chunk(q) : state[y] = "PRIVATE_DIRTY"
      BY <1>1, <1>3, <3>1 DEF ChunkPrivate
    <3> QED BY <1>3, <3>2 DEF Acquired
  <2> QED BY <1>2, <1>3, <2>1 DEF Acquired, HandlerTypes, PageStates
<1>6. HandlerTypes'
  BY <1>1, <1>2, <1>3, <1>4 DEF HandlerTypes, AtRest, Loads, Replacing, Failed, PageStates
<1>7. LoadingInv'
  <2>1. CASE Acquired = {}
    <3>1. todo' = {}
      BY <1>1, <2>1 DEF Acquired
    <3> QED BY <1>1, <1>2, <1>4, <2>1, <3>1 DEF LoadingInv, AtRest, Loads, Replacing
  <2>2. CASE Acquired # {}
    <3>1. \A q \in Pages : state'[q] = "LOADING" <=> q \in COW
      BY <1>1, <1>2, <1>5, <2>2
    <3> QED BY <1>1, <1>3, <1>4, <2>2, <3>1 DEF LoadingInv, AtRest, Loads, Replacing
  <2> QED BY <2>1, <2>2
<1>8. Loaded' = Loaded /\ Dirtied' = Dirtied
  BY <1>1, <1>2, <1>3 DEF Loaded, Dirtied, Acquired
<1>9. LoadedInv' /\ CountInv' /\ ReplacedInv'
  BY <1>1, <1>4, <1>8 DEF LoadedInv, CountInv, ReplacedInv
<1>10. \A q \in Pages : state'[q] = "PRIVATE_DIRTY" <=> state[q] = "PRIVATE_DIRTY"
  BY <1>1 DEF Acquired
<1>11. ChunkPrivate'
  BY <1>1, <1>10, ChunkClass DEF ChunkPrivate
<1> QED BY <1>6, <1>7, <1>9, <1>11 DEF HandlerFacts

(* A chunk is replaced while all of it is LOADING. *)
LEMMA RemapKeeps ==
  ASSUME HandlerInv, GuestTypes', RemapChunk PROVE HandlerFacts'
<1> USE DEF HandlerInv
<1>1. /\ pc = "remap" /\ pc' = "copyback" /\ UNCHANGED <<state, todo, fault, counts, gone>>
      /\ present' = [q \in Pages |-> IF q \in COW THEN "priv" ELSE present[q]]
  BY DEF RemapChunk, work
<1>2. /\ COW \in SUBSET Pages /\ COW' = COW /\ Batch' = Batch /\ Batch = COW
      /\ \A q \in COW : Chunk(q) = COW
  BY <1>1, ChunkClass DEF COW, Batch, HandlerTypes, Replacing
<1>3. \A q \in COW : state[q] = "LOADING"
  BY <1>1, <1>2 DEF LoadingInv, Replacing
<1>4. Loaded' = Loaded /\ Dirtied' = Dirtied
  BY <1>1 DEF Loaded, Dirtied
<1>5. HandlerTypes'
  BY <1>1 DEF HandlerTypes, Replacing, AtRest, Loads, Failed
<1>6. LoadingInv'
  BY <1>1, <1>2 DEF LoadingInv, AtRest, Loads, Replacing
<1>7. LoadedInv' /\ CountInv'
  BY <1>1, <1>4 DEF LoadedInv, CountInv, Loaded
<1>8. ReplacedInv'
  BY <1>1, <1>2 DEF ReplacedInv
<1>9. ChunkPrivate'
  <2>1. \A q \in Pages : state'[q] = "PRIVATE_DIRTY" => present'[q] = "priv"
    BY <1>1 DEF ChunkPrivate
  <2>2. ASSUME NEW q \in Pages, present'[q] = "priv", q \notin COW, NEW x \in Chunk(q)
        PROVE  state'[x] = "PRIVATE_DIRTY" /\ present'[x] = "priv"
    <3>1. present[q] = "priv" /\ x \in Pages
      BY <1>1, <2>2, ChunkClass
    <3>2. state[x] = "PRIVATE_DIRTY" /\ present[x] = "priv"
      BY <1>1, <2>2, <3>1 DEF ChunkPrivate
    <3> QED BY <1>1, <3>1, <3>2
  <2>3. \A x \in COW' : state'[x] = "LOADING" /\ present'[x] = "priv"
    BY <1>1, <1>2, <1>3
  <2> QED BY <1>1, <1>2, <2>1, <2>2, <2>3 DEF ChunkPrivate
<1> QED BY <1>5, <1>6, <1>7, <1>8, <1>9 DEF HandlerFacts

(* The handler is done with a chunk: the pages it counts are the chunk's.  *)
LEMMA MarkKeeps ==
  ASSUME HandlerInv, GuestTypes', MarkAndWake PROVE HandlerFacts'
<1> USE DEF HandlerInv
<1>1. /\ pc = "mark" /\ pc' \in {"wait", "error"} /\ UNCHANGED <<todo, fault, present, gone>>
      /\ state' = [q \in Pages |-> IF q \in COW THEN "PRIVATE_DIRTY" ELSE state[q]]
      /\ counts' = [counts EXCEPT !.dirtied = @ + Cardinality({q \in COW : state[q] = "LOADING"})]
  BY DEF MarkAndWake, guest
<1>2. /\ COW \in SUBSET Pages /\ Batch = COW
      /\ \A q \in COW : Chunk(q) = COW
  BY <1>1, ChunkClass DEF COW, Batch, HandlerTypes, Replacing
<1>3. todo = {} /\ \A q \in Pages : state[q] = "LOADING" <=> q \in COW
  BY <1>1, <1>2 DEF LoadingInv, Replacing
<1>4. \A q \in COW : present[q] = "priv"
  BY <1>1 DEF ReplacedInv
<1>5. /\ Loaded' = Loaded /\ Dirtied' = Dirtied \cup COW /\ Dirtied \cap COW = {}
      /\ {q \in COW : state[q] = "LOADING"} = COW
  BY <1>1, <1>2, <1>3 DEF Loaded, Dirtied
<1>6. CountInv' /\ counts'.dirtied \in Nat
  <2>1. IsFiniteSet(Dirtied) /\ IsFiniteSet(COW)
    BY <1>2, PagesFinite, FS_Subset DEF Dirtied
  <2>2. Cardinality(Dirtied) \in Nat /\ Cardinality(COW) \in Nat
    BY <2>1, FS_CardinalityType
  <2>3. Cardinality(Dirtied \cup COW) = Cardinality(Dirtied) + Cardinality(COW) - Cardinality(Dirtied \cap COW)
    BY <2>1, FS_Union
  <2>4. Cardinality(Dirtied \cap COW) = 0
    BY <1>5, FS_EmptySet
  <2>5. Cardinality(Dirtied') = Cardinality(Dirtied) + Cardinality(COW)
    BY <1>5, <2>2, <2>3, <2>4
  <2>6. counts'.dirtied = counts.dirtied + Cardinality(COW) /\ counts'.served = counts.served
    BY <1>1, <1>5 DEF HandlerTypes
  <2> QED BY <1>5, <2>2, <2>5, <2>6 DEF CountInv
<1>7. HandlerTypes'
  BY <1>1, <1>6 DEF HandlerTypes, AtRest, Loads, Replacing, Failed, PageStates
<1>8. LoadingInv'
  BY <1>1, <1>3 DEF LoadingInv, AtRest, Loads, Replacing
<1>9. LoadedInv' /\ ReplacedInv'
  BY <1>1, <1>5 DEF LoadedInv, ReplacedInv
<1>10. ChunkPrivate'
  <2>1. \A q \in Pages : state'[q] = "PRIVATE_DIRTY" => present'[q] = "priv"
    BY <1>1, <1>4 DEF ChunkPrivate
  <2>2. ASSUME NEW q \in Pages, present'[q] = "priv", NEW x \in Chunk(q)
        PROVE  state'[x] = "PRIVATE_DIRTY" /\ present'[x] = "priv"
    <3>1. x \in Pages /\ present[q] = "priv"
      BY <1>1, <2>2, ChunkClass
    <3>2. CASE q \in COW
      BY <1>1, <1>2, <1>4, <3>1, <3>2, <2>2
    <3>3. CASE q \notin COW
      <4>1. state[x] = "PRIVATE_DIRTY" /\ present[x] = "priv"
        BY <2>2, <3>1, <3>3 DEF ChunkPrivate
      <4> QED BY <1>1, <3>1, <4>1
    <3> QED BY <3>2, <3>3
  <2> QED BY <2>1, <2>2 DEF ChunkPrivate
<1> QED BY <1>6, <1>7, <1>8, <1>9, <1>10 DEF HandlerFacts

-----------------------------------------------------------------------------
(* The start and the end of the handler. *)
LEMMA LifeStep ==
  ASSUME LifeInv, [Next]_vars PROVE LifeInv'
<1> USE DEF LifeInv
<1>1. CASE VmmStep
  BY <1>1 DEF VmmStep, RestoreByUffd, RecvReady, CheckResult, JoinHandler, guest, cpus, channel
<1>2. CASE StopUffdHandler \/ Connect \/ Setup \/ StopEvent \/ SendResult
  BY <1>2 DEF StopUffdHandler, Connect, Setup, StopEvent, SendResult, Goto, guest, cpus, channel
<1>3. CASE Errors
  BY <1>3 DEF Errors, Fail, Goto, channel
<1>4. CASE ServerStep \/ ServerFailure \/ Disconnect \/ UNCHANGED vars
  BY <1>4 DEF ServerStep, ServerFailure, Disconnect, vars, guest, cpus, channel
<1>5. CASE Reading \/ Copying
  BY <1>5 DEF Reading, Copying, ReadFile, SendRequest, ReceiveReply, SnapshotChunk, CopyBack, channel
<1>6. CASE Waking
  BY <1>6 DEF Waking, DropUffd, WakeFaulted, channel
<1>7. CASE \E v \in VCpus, a \in Accesses : Issue(v, a)
  BY <1>7 DEF Issue, channel
<1>8. CASE \E v \in VCpus : Access(v)
  BY <1>8 DEF Access, channel
<1>9. CASE \E p \in Pages : Discard(p)
  BY <1>9 DEF Discard, channel
<1>10. CASE CopyWp \/ AcquireChunk \/ Unprotect \/ RemapChunk \/ MarkAndWake
  BY <1>10 DEF CopyWp, AcquireChunk, Unprotect, RemapChunk, MarkAndWake, channel
<1>11. CASE ReadMessage
  <2>1. pc = "wait" /\ UNCHANGED <<vmm, open>>
    BY <1>11 DEF ReadMessage, channel
  <2>2. pc' # "ended"
    BY <1>11 DEF ReadMessage
  <2> QED BY <2>1, <2>2
<1> QED BY <1>1, <1>2, <1>3, <1>4, <1>5, <1>6, <1>7, <1>8, <1>9, <1>10, <1>11, NextSteps DEF Idling

LEMMA HandlerStepKeeps ==
  ASSUME HandlerInv, LifeInv, [Next]_vars PROVE HandlerInv'
<1>1. GuestTypes'
  BY GuestTypesStep
<1>2. HandlerFacts'
  BY <1>1, NextSteps, QuietSteps, QuietKeeps, ReadMessageKeeps, CopyWpKeeps, AcquireKeeps, RemapKeeps, MarkKeeps
     DEF LifeInv, HandlerInv
<1> QED BY <1>1, <1>2 DEF HandlerFacts, HandlerInv

LEMMA HandlerStarts == Init => HandlerInv /\ LifeInv
<1> SUFFICES ASSUME Init PROVE HandlerInv /\ LifeInv
  OBVIOUS
<1> USE DEF Init
<1>1. GuestTypes
  BY DEF GuestTypes, Maps, NoAccess
<1>2. HandlerTypes /\ LoadingInv /\ ReplacedInv
  BY DEF HandlerTypes, LoadingInv, ReplacedInv, AtRest, Loads, Replacing, PageStates
<1>3. Loaded = {} /\ Dirtied = {}
  BY DEF Loaded, Dirtied
<1>4. LoadedInv /\ CountInv
  BY <1>3, FS_EmptySet DEF LoadedInv, CountInv
<1>5. ChunkPrivate /\ LifeInv
  BY DEF ChunkPrivate, LifeInv
<1> QED BY <1>1, <1>2, <1>4, <1>5 DEF HandlerInv

(* The inductive invariant of the handler. *)
THEOREM HandlerInductive == Spec => [](HandlerInv /\ LifeInv)
<1>1. HandlerInv /\ LifeInv /\ [Next]_vars => (HandlerInv /\ LifeInv)'
  BY HandlerStepKeeps, LifeStep
<1> QED BY <1>1, HandlerStarts, PTL DEF Spec

(* The handler never waits for itself: neither spin loop is entered, and   *)
(* every page of a chunk it copies out is mapped, unless the balloon took  *)
(* it.                                                                     *)
THEOREM NeverWaits == Spec => []HandlerNeverWaits
<1>1. HandlerInv => HandlerNeverWaits
  <2> SUFFICES ASSUME HandlerInv PROVE HandlerNeverWaits
    OBVIOUS
  <2>1. pc # "spin"
    BY DEF HandlerInv, HandlerTypes, AtRest, Loads, Replacing, Failed
  <2>2. ASSUME pc = "snapshot", NEW q \in COW PROVE present[q] # "none" \/ q \in gone
    <3>1. q \in Pages /\ q \in Batch
      BY <2>2, ChunkClass DEF HandlerInv, HandlerTypes, Replacing, COW, Batch
    <3>2. q \in Loaded
      BY <2>2, <3>1 DEF HandlerInv, LoadingInv, Replacing, Loaded
    <3> QED BY <3>2 DEF HandlerInv, LoadedInv
  <2> QED BY <2>1, <2>2 DEF HandlerNeverWaits
<1> QED BY <1>1, HandlerInductive, PTL

(* Chunks become private as a whole, and the page states say which are.    *)
THEOREM ChunksPrivate == Spec => []ChunkPrivate
<1>1. HandlerInv => ChunkPrivate
  BY DEF HandlerInv
<1> QED BY <1>1, HandlerInductive, PTL

(* pages_served and pages_dirtied count what was loaded and dirtied. *)
LEMMA CountsAreExact == HandlerInv /\ LifeInv => CountsExact
<1> SUFFICES ASSUME HandlerInv, LifeInv PROVE CountsExact
  OBVIOUS
<1>1. ASSUME open, pc \notin {"error", "drop"}
      PROVE  Loaded = {p \in Pages : \/ state[p] \in {"SHARED_READY", "PRIVATE_DIRTY"}
                                     \/ state[p] = "LOADING" /\ p \notin todo}
  <2>1. pc \in AtRest \cup Loads \cup Replacing
    BY <1>1 DEF HandlerInv, HandlerTypes, LifeInv, Failed
  <2>2. \A q \in todo : state[q] = "LOADING"
    BY <2>1 DEF HandlerInv, HandlerTypes, LoadingInv
  <2> QED BY <2>2 DEF HandlerInv, HandlerTypes, PageStates, Loaded
<1> QED BY <1>1 DEF CountsExact, HandlerInv, CountInv, Dirtied

-----------------------------------------------------------------------------
(* The page service and its client *)

(* A step of the client's process that is not part of loading a page. *)
ClientStep ==
  /\ UNCHANGED <<service, source>> /\ Loaded' = Loaded
  /\ \/ todo' = todo /\ pc' = pc
     \/ todo' = todo /\ pc = "copy" /\ pc' = "error"
     \/ /\ pc \notin {"await", "copy"} /\ pc' \notin {"await", "copy"}
        /\ pc \in Failed => pc' \in Failed
        /\ todo' = todo \/ (todo = {} /\ todo' \cap Loaded = {})

LEMMA ClientSteps ==
  ASSUME HandlerInv, LifeInv,
         \/ VmmStep \/ StopUffdHandler \/ Connect \/ Setup \/ StopEvent \/ SendResult \/ Errors
         \/ Copying \/ Waking \/ Unprotect \/ RemapChunk \/ MarkAndWake \/ UNCHANGED vars
         \/ ReadMessage \/ AcquireChunk
         \/ \E v \in VCpus, a \in Accesses : Issue(v, a)
         \/ \E v \in VCpus : Access(v)
         \/ \E p \in Pages : Discard(p)
  PROVE  ClientStep
<1>1. ASSUME UNCHANGED <<service, source, state, todo>>,
             \/ pc' = pc
             \/ pc = "copy" /\ pc' = "error"
             \/ /\ pc \notin {"await", "copy"} /\ pc' \notin {"await", "copy"}
                /\ pc \in Failed => pc' \in Failed
      PROVE  ClientStep
  BY <1>1 DEF ClientStep, Loaded
<1> USE DEF work, config, Failed
<1>2. CASE VmmStep
  BY <1>1, <1>2 DEF VmmStep, RestoreByUffd, RecvReady, CheckResult, JoinHandler, LifeInv
<1>3. CASE StopUffdHandler \/ Connect \/ Setup \/ StopEvent \/ SendResult
  BY <1>1, <1>3 DEF StopUffdHandler, Connect, Setup, StopEvent, SendResult, Goto
<1>4. CASE Errors
  BY <1>1, <1>4 DEF Errors, Fail, Goto
<1>5. CASE Copying \/ Waking
  BY <1>1, <1>5 DEF Copying, SnapshotChunk, CopyBack, Waking, DropUffd, WakeFaulted
<1>6. CASE Unprotect \/ RemapChunk \/ UNCHANGED vars
  BY <1>1, <1>6 DEF Unprotect, RemapChunk, vars
<1>7. CASE \E v \in VCpus, a \in Accesses : Issue(v, a)
  BY <1>1, <1>7 DEF Issue
<1>8. CASE (\E v \in VCpus : Access(v)) \/ (\E p \in Pages : Discard(p))
  BY <1>1, <1>8 DEF Access, Discard
<1>9. CASE MarkAndWake
  <2>1. /\ pc = "mark" /\ pc' \in {"wait", "error"} /\ UNCHANGED <<service, source, todo>>
        /\ state' = [q \in Pages |-> IF q \in COW THEN "PRIVATE_DIRTY" ELSE state[q]]
    BY <1>9 DEF MarkAndWake
  <2>2. \A q \in COW : state[q] = "LOADING"
    BY <2>1, ChunkClass DEF HandlerInv, HandlerTypes, LoadingInv, Replacing, Batch, COW
  <2>3. Loaded' = Loaded
    BY <2>1, <2>2 DEF Loaded
  <2> QED BY <2>1, <2>3 DEF ClientStep
<1>10. CASE AcquireChunk
  <2>1. /\ pc = "acquire" /\ UNCHANGED <<service, source>> /\ todo' = {q \in COW : state[q] = "UNLOADED"}
        /\ state' = [q \in Pages |-> IF q \in Acquired THEN "LOADING" ELSE state[q]]
        /\ pc' \in {"spin", "wake", "read", "snapshot"}
    <3>1. pc' \in {"spin", "wake", "read", "snapshot"}
      BY <1>10 DEF AcquireChunk
    <3> QED BY <1>10, <3>1 DEF AcquireChunk
  <2>2. todo = {} /\ COW \in SUBSET Pages
    BY <2>1, ChunkClass DEF HandlerInv, HandlerTypes, LoadingInv, AtRest, COW
  <2>3. Loaded' = Loaded /\ todo' \cap Loaded = {}
    BY <2>1, <2>2 DEF Loaded, Acquired
  <2> QED BY <2>1, <2>2, <2>3 DEF ClientStep
<1>11. CASE ReadMessage
  <2>1. todo = {} /\ pc = "wait" /\ UNCHANGED <<service, source>>
    BY <1>11 DEF ReadMessage, HandlerInv, LoadingInv, AtRest
  <2>2. PICK v \in VCpus :
          LET p == acc[v].page
              load == st[v] = "missing" /\ state[p] = "UNLOADED"
          IN  /\ p \in Pages
              /\ state' = IF load THEN [state EXCEPT ![p] = "LOADING"] ELSE state
              /\ todo' = IF load THEN {p} ELSE {}
    BY <1>11 DEF ReadMessage, HandlerInv, GuestTypes
  <2>3. Loaded' = Loaded /\ todo' \cap Loaded = {}
    BY <2>1, <2>2 DEF Loaded, HandlerInv, HandlerTypes
  <2>4. pc' \notin {"await", "copy"}
    BY <1>11 DEF ReadMessage
  <2> QED BY <2>1, <2>3, <2>4 DEF ClientStep
<1> QED BY <1>2, <1>3, <1>4, <1>5, <1>6, <1>7, <1>8, <1>9, <1>10, <1>11

(* Such a step keeps what the two processes agree on. *)
LEMMA ClientKeeps ==
  ASSUME HandlerInv, ServiceInv, ClientStep PROVE ServiceInv'
<1>1. /\ ServiceTypeOK' /\ UNCHANGED <<srv, cur, req, rsp, metrics, source>> /\ Loaded' = Loaded
      /\ \A R : Asked(R)' = Asked(R)
  BY DEF ClientStep, ServiceInv, ServiceTypeOK, service, Asked
<1> SUFFICES ASSUME source = "service" PROVE SocketInv' /\ MetricsInv'
  BY <1>1 DEF ServiceInv
<1> PICK R \in SUBSET Pages : MetricsFor(R)
  BY DEF ServiceInv, MetricsInv
<1> SUFFICES SocketInv' /\ MetricsFor(R)'
  BY DEF MetricsInv
<1>2. SocketInv /\ MetricsFor(R)
  BY DEF ServiceInv
<1>3. CASE todo' = todo /\ pc' = pc
  <2>1. LoadPage' = LoadPage /\ InFlight' = InFlight /\ Arrived' = Arrived
    BY <1>1, <1>3 DEF LoadPage, InFlight, Arrived
  <2> QED BY <1>1, <1>2, <1>3, <2>1 DEF SocketInv, MetricsFor
<1>4. CASE todo' = todo /\ pc = "copy" /\ pc' = "error"
  <2>1. InFlight' = {} /\ Arrived' \subseteq Arrived
    BY <1>1, <1>4 DEF InFlight, Arrived
  <2> QED BY <1>1, <1>2, <1>4, <2>1 DEF SocketInv, MetricsFor, Failed
<1>5. CASE /\ pc \notin {"await", "copy"} /\ pc' \notin {"await", "copy"}
           /\ pc \in Failed => pc' \in Failed
           /\ todo' = todo \/ (todo = {} /\ todo' \cap Loaded = {})
  <2>1. InFlight = {} /\ InFlight' = {} /\ Arrived' = Arrived
    BY <1>1, <1>5 DEF InFlight, Arrived
  <2>2. SocketInv'
    BY <1>1, <1>2, <1>5 DEF SocketInv
  <2>3. Asked(R) \subseteq Loaded \cup todo /\ (pc \notin Failed => todo \cap Asked(R) = {})
    BY <1>2, <2>1 DEF MetricsFor
  <2>4. Asked(R)' \subseteq Loaded' \cup todo' /\ (pc' \notin Failed => todo' \cap Asked(R)' = {})
    BY <1>1, <1>5, <2>3
  <2>5. MetricsFor(R)'
    BY <1>1, <1>2, <2>1, <2>4 DEF MetricsFor
  <2> QED BY <2>2, <2>5
<1> QED BY <1>3, <1>4, <1>5 DEF ClientStep

(* The client asks for a page that it never asked for, and takes the reply *)
(* to that request.                                                        *)
LEMMA ReadingKeeps ==
  ASSUME HandlerInv, ServiceInv, Reading PROVE ServiceInv'
<1>1. /\ UNCHANGED <<srv, cur, metrics, source, state, todo>> /\ pc \in Loads /\ pc # "copy"
      /\ Loaded' = Loaded /\ LoadPage' = LoadPage /\ \A R : Asked(R)' = Asked(R)
  BY DEF Reading, ReadFile, SendRequest, ReceiveReply, service, config, work, Loads, Asked, Loaded, LoadPage
<1>2. LoadPage \in todo /\ LoadPage \in Pages
  BY <1>1, LoadPageInTodo DEF HandlerInv, HandlerTypes, LoadingInv
<1>3. ServiceTypeOK'
  BY <1>1, <1>2 DEF Reading, ReadFile, SendRequest, ReceiveReply, service, ServiceInv, ServiceTypeOK, NoReply
<1> SUFFICES ASSUME source = "service" PROVE SocketInv' /\ MetricsInv'
  BY <1>1, <1>3 DEF ServiceInv
<1> PICK R \in SUBSET Pages : MetricsFor(R)
  BY DEF ServiceInv, MetricsInv
<1> SUFFICES SocketInv' /\ MetricsFor(R)'
  BY DEF MetricsInv
<1>4. SocketInv /\ MetricsFor(R)
  BY DEF ServiceInv
<1>5. CASE ReadFile
  BY <1>5 DEF ReadFile
<1>6. CASE SendRequest
  <2>1. pc = "read" /\ UNCHANGED rsp /\ rsp.status = "none" /\ InFlight = {} /\ InFlight' = {} /\ Arrived' = Arrived
    BY <1>1, <1>4, <1>6 DEF SendRequest, SocketInv, ServiceInv, ServiceTypeOK, InFlight, Arrived
  <2>2. SocketInv'
    BY <1>1, <1>4, <1>6, <2>1 DEF SendRequest, SocketInv
  <2>3. MetricsFor(R)'
    BY <1>1, <1>4, <2>1 DEF MetricsFor, Failed
  <2> QED BY <2>2, <2>3
<1>7. CASE ReceiveReply
  <2>1. pc = "await" /\ UNCHANGED req /\ rsp'.status = "none"
    BY <1>7 DEF ReceiveReply, NoReply
  <2>2. CASE rsp.status = "ok" /\ pc' = "copy"
    <3>1. InFlight' = InFlight /\ Arrived' = Arrived
      BY <1>1, <2>1, <2>2 DEF InFlight, Arrived
    <3>2. SocketInv'
      BY <1>4, <2>1, <2>2 DEF SocketInv
    <3>3. MetricsFor(R)'
      BY <1>1, <1>4, <2>1, <2>2, <3>1 DEF MetricsFor, Failed
    <3> QED BY <3>2, <3>3
  <2>3. CASE pc' = "error" /\ (rsp.status = "error" \/ (rsp.status = "none" /\ srv = "gone"))
    <3>1. InFlight' = {} /\ Arrived' \subseteq Arrived
      BY <1>1, <2>3 DEF InFlight, Arrived
    <3>2. SocketInv'
      BY <1>1, <1>4, <2>1, <2>3 DEF SocketInv
    <3>3. MetricsFor(R)'
      BY <1>1, <1>4, <2>3, <3>1 DEF MetricsFor, Failed
    <3> QED BY <3>2, <3>3
  <2> QED BY <1>7, <2>2, <2>3 DEF ReceiveReply
<1> QED BY <1>5, <1>6, <1>7 DEF Reading

(* Installing a page turns one that has arrived into one that is loaded.   *)
LEMMA InstallKeeps ==
  ASSUME HandlerInv, ServiceInv, CopyWp PROVE ServiceInv'
<1>1. /\ pc = "copy" /\ pc' \in {"wait", "snapshot", "read"} /\ UNCHANGED <<service, source>>
      /\ todo' = todo \ {LoadPage}
      /\ state' = state \/ state' = [state EXCEPT ![LoadPage] = "SHARED_READY"]
  BY DEF CopyWp, config
<1>2. LoadPage \in todo /\ LoadPage \in Pages /\ state[LoadPage] = "LOADING"
  BY <1>1, LoadPageInTodo DEF HandlerInv, HandlerTypes, LoadingInv, Loads
<1>3. ServiceTypeOK' /\ UNCHANGED <<srv, cur, req, rsp, metrics>> /\ \A R : Asked(R)' = Asked(R)
  BY <1>1 DEF ServiceInv, ServiceTypeOK, service, Asked
<1> SUFFICES ASSUME source = "service" PROVE SocketInv' /\ MetricsInv'
  BY <1>1, <1>3 DEF ServiceInv
<1> PICK R \in SUBSET Pages : MetricsFor(R)
  BY DEF ServiceInv, MetricsInv
<1> SUFFICES SocketInv' /\ MetricsFor(R)'
  BY DEF MetricsInv
<1>4. SocketInv /\ MetricsFor(R)
  BY DEF ServiceInv
<1>5. Loaded' = Loaded \cup {LoadPage}
  BY <1>1, <1>2 DEF Loaded, HandlerInv, HandlerTypes
<1>6. InFlight = {LoadPage} /\ InFlight' = {} /\ Arrived' = Arrived
  BY <1>1, <1>5 DEF InFlight, Arrived
<1>7. SocketInv'
  BY <1>1, <1>3, <1>4 DEF SocketInv
<1>8. MetricsFor(R)'
  BY <1>1, <1>3, <1>4, <1>5, <1>6 DEF MetricsFor, Failed
<1> QED BY <1>7, <1>8

(* A request covers base pages. *)
LEMMA UniquePagesType ==
  ASSUME NEW p \in Pages PROVE record_unique_pages(Request[p]) \in SUBSET Nat
<1>1. Request[p].offset \in Nat /\ Request[p].len \in Nat /\ ServicePageSize \in Nat
  BY ServiceConstants
<1>2. ServicePageSize # 0 => Request[p].offset \div ServicePageSize \in Nat
  BY <1>1
<1> QED BY <1>1, <1>2 DEF record_unique_pages

(* The connection's thread answers, records, and ends. *)
LEMMA ServerKeeps ==
  ASSUME HandlerInv, ServiceInv, source = "service", ServerStep \/ ServerFailure \/ Disconnect
  PROVE  ServiceInv'
<1>1. UNCHANGED <<source, pc, state, todo>> /\ Loaded' = Loaded /\ LoadPage' = LoadPage
  BY DEF ServerStep, ServerFailure, Disconnect, config, work, Loaded, LoadPage
<1> PICK R \in SUBSET Pages : MetricsFor(R)
  BY DEF ServiceInv, MetricsInv
<1>2. SocketInv /\ MetricsFor(R) /\ ServiceTypeOK
  BY DEF ServiceInv
<1>3. todo \in SUBSET Pages /\ Loaded \in SUBSET Pages /\ (pc = "await" => LoadPage \in todo)
  BY LoadPageInTodo DEF HandlerInv, HandlerTypes, LoadingInv, Loads, Loaded
<1> SUFFICES ServiceTypeOK' /\ SocketInv' /\ \E Q \in SUBSET Pages : MetricsFor(Q)'
  BY DEF ServiceInv, MetricsInv
<1>4. CASE Accept
  <2>1. srv = "listening" /\ srv' = "idle" /\ UNCHANGED <<cur, req, rsp, metrics>>
    BY <1>4 DEF Accept
  <2>2. Asked(R)' = Asked(R) /\ InFlight' = InFlight /\ Arrived' = Arrived
    BY <1>1, <2>1 DEF Asked, InFlight, Arrived
  <2> QED BY <1>1, <1>2, <2>1, <2>2 DEF ServiceTypeOK, SocketInv, MetricsFor
<1>5. CASE ServePage
  <2>1. /\ srv = "idle" /\ req # NoPage /\ cur' = req /\ req' = NoPage /\ UNCHANGED metrics
        /\ pc = "await" /\ req = LoadPage /\ rsp.status = "none"
    BY <1>2, <1>5 DEF ServePage, SocketInv
  <2>2. LoadPage \in todo /\ LoadPage \in Pages /\ InFlight = {}
    BY <1>3, <2>1 DEF InFlight
  <2>3. CASE srv' = "record" /\ rsp' = [status |-> "ok", page |-> req]
    <3>1. ServiceTypeOK'
      BY <1>2, <2>1, <2>2, <2>3 DEF ServiceTypeOK
    <3>2. SocketInv'
      BY <1>1, <2>1, <2>3 DEF SocketInv
    <3>3. Asked(R)' = Asked(R) \cup {LoadPage} /\ InFlight' = {LoadPage} /\ Arrived' = Arrived \cup {LoadPage}
      BY <1>1, <2>1, <2>2, <2>3 DEF Asked, InFlight, Arrived
    <3>4. LoadPage \notin R
      BY <1>2, <2>1, <2>2 DEF MetricsFor, Asked, Failed
    <3>5. MetricsFor(R)'
      BY <1>1, <1>2, <2>1, <2>2, <2>3, <3>3, <3>4 DEF MetricsFor, Failed
    <3> QED BY <3>1, <3>2, <3>5
  <2>4. CASE srv' = "record_error" /\ rsp' = [status |-> "error", page |-> NoPage]
    <3>1. ServiceTypeOK' /\ SocketInv'
      BY <1>1, <1>2, <2>1, <2>2, <2>4 DEF ServiceTypeOK, SocketInv
    <3>2. Asked(R)' = Asked(R) /\ InFlight' = {} /\ Arrived' = Arrived
      BY <1>1, <2>1, <2>2, <2>4 DEF Asked, InFlight, Arrived
    <3>3. MetricsFor(R)'
      BY <1>1, <1>2, <2>1, <2>2, <2>4, <3>2 DEF MetricsFor
    <3> QED BY <3>1, <3>3
  <2> QED BY <1>5, <2>3, <2>4 DEF ServePage
<1>6. CASE RecordPageRequest
  <2> PICK Q : Q = R \cup {cur}
    OBVIOUS
  <2>1. /\ srv = "record" /\ srv' = "idle" /\ cur' = NoPage /\ UNCHANGED <<req, rsp>>
        /\ metrics' = [metrics EXCEPT !.requests = @ + 1,
                                     !.unique = @ \cup record_unique_pages(Request[cur])]
    BY <1>6 DEF RecordPageRequest
  <2>2. metrics \in [requests : Nat, errors : Nat, unique : SUBSET Nat]
    BY <1>2 DEF ServiceTypeOK
  <2>3. /\ metrics'.unique = metrics.unique \cup record_unique_pages(Request[cur])
        /\ metrics'.requests = metrics.requests + 1
    BY <2>1, <2>2
  <2>4. Asked(Q)' = Asked(R) /\ InFlight' = InFlight /\ Arrived' = Arrived
    BY <1>1, <2>1 DEF Asked, InFlight, Arrived
  <2>5. cur \in Pages /\ cur \notin R /\ Q \in SUBSET Pages
    BY <1>2, <1>3, <2>1 DEF MetricsFor, Asked
  <2>6. Cardinality(Q) = Cardinality(R) + 1
    <3>1. IsFiniteSet(R)
      BY PagesFinite, FS_Subset
    <3> QED BY <2>5, <3>1, FS_AddElement
  <2>7. metrics'.unique = UNION {record_unique_pages(Request[p]) : p \in Q}
    BY <1>2, <2>3 DEF MetricsFor
  <2>8. ServiceTypeOK'
    <3>1. record_unique_pages(Request[cur]) \in SUBSET Nat
      BY <2>5, UniquePagesType
    <3>2. /\ metrics.requests + 1 \in Nat
          /\ metrics.unique \cup record_unique_pages(Request[cur]) \in SUBSET Nat
      BY <2>2, <3>1
    <3>3. metrics' \in [requests : Nat, errors : Nat, unique : SUBSET Nat]
      BY <2>1, <2>2, <3>2
    <3> QED BY <1>2, <2>1, <3>3 DEF ServiceTypeOK
  <2>9. SocketInv'
    BY <1>1, <1>2, <2>1 DEF SocketInv
  <2>10. MetricsFor(Q)'
    BY <1>1, <1>2, <2>1, <2>3, <2>4, <2>6, <2>7 DEF MetricsFor
  <2> QED BY <2>5, <2>8, <2>9, <2>10
<1>7. CASE RecordPageRequestError \/ ServiceExits \/ Disconnect
  <2>1. /\ srv # "gone" /\ srv' = "gone" /\ cur' \in {cur, NoPage} /\ UNCHANGED <<req, rsp>>
        /\ metrics'.unique = metrics.unique /\ metrics'.requests = metrics.requests
        /\ metrics' \in [requests : Nat, errors : Nat, unique : SUBSET Nat]
    <3>1. metrics \in [requests : Nat, errors : Nat, unique : SUBSET Nat]
      BY <1>2 DEF ServiceTypeOK
    <3>2. CASE RecordPageRequestError
      BY <3>1, <3>2 DEF RecordPageRequestError
    <3>3. CASE ServiceExits \/ Disconnect
      BY <3>1, <3>3 DEF ServiceExits, Disconnect
    <3> QED BY <1>7, <3>2, <3>3
  <2>2. ServiceTypeOK' /\ SocketInv'
    BY <1>1, <1>2, <2>1 DEF ServiceTypeOK, SocketInv
  <2>3. Asked(R)' = R /\ Asked(R)' \subseteq Asked(R) /\ InFlight' = InFlight /\ Arrived' = Arrived
    BY <1>1, <2>1 DEF Asked, InFlight, Arrived
  <2>4. \E c \in Pages \cup {NoPage} : Arrived \subseteq R \cup {c}
    BY <1>2, <2>1 DEF MetricsFor, Asked, ServiceTypeOK
  <2>5. MetricsFor(R)'
    BY <1>1, <1>2, <2>1, <2>3, <2>4 DEF MetricsFor
  <2> QED BY <2>2, <2>5
<1> QED BY <1>4, <1>5, <1>6, <1>7 DEF ServerStep, ServerFailure, ServiceStep

LEMMA ServiceStepKeeps ==
  ASSUME HandlerInv, LifeInv, ServiceInv, [Next]_vars PROVE ServiceInv'
<1>1. CASE source = "service" /\ (ServerStep \/ ServerFailure \/ Disconnect)
  BY <1>1, ServerKeeps
<1>2. CASE Reading
  BY <1>2, ReadingKeeps
<1>3. CASE CopyWp
  BY <1>3, InstallKeeps
<1>4. CASE ~ ((source = "service" /\ (ServerStep \/ ServerFailure \/ Disconnect)) \/ Reading \/ CopyWp)
  <2>1. ClientStep
    BY <1>4, ClientSteps DEF Next, HandlerStep, Reading, Copying, Waking
  <2> QED BY <2>1, ClientKeeps
<1> QED BY <1>1, <1>2, <1>3, <1>4

LEMMA ServiceStarts == Init => ServiceInv
<1> SUFFICES ASSUME Init PROVE ServiceInv
  OBVIOUS
<1>1. ServiceTypeOK /\ SocketInv
  BY DEF Init, ServiceInit, ServiceTypeOK, SocketInv, NoReply
<1>2. Asked({}) = {} /\ Loaded = {} /\ InFlight = {} /\ Arrived = {}
  BY DEF Init, ServiceInit, Asked, Loaded, InFlight, Arrived
<1>3. MetricsFor({})
  BY <1>2, FS_EmptySet DEF Init, ServiceInit, MetricsFor
<1> QED BY <1>1, <1>3 DEF ServiceInv, MetricsInv

(* What the handler and the page service agree on, whichever of them is    *)
(* ahead.                                                                  *)
THEOREM ServiceInductive == Spec => [](HandlerInv /\ LifeInv /\ ServiceInv)
<1>1. HandlerInv /\ LifeInv /\ ServiceInv /\ [Next]_vars => (HandlerInv /\ LifeInv /\ ServiceInv)'
  BY HandlerStepKeeps, LifeStep, ServiceStepKeeps
<1> QED BY <1>1, HandlerStarts, ServiceStarts, PTL DEF Spec

(* The counters of the handler and the metrics of the page service are     *)
(* exact: every page is loaded and asked for once, and the service has     *)
(* recorded all that arrived, but for one.                                 *)
THEOREM CountersAreExact == Spec => []CountersExact
<1>1. ServiceInv /\ HandlerInv => MetricsExact
  <2> SUFFICES ASSUME ServiceInv, HandlerInv, source = "service" PROVE MetricsExact
    BY DEF MetricsExact
  <2>1. PICK R \in SUBSET Pages : MetricsFor(R)
    BY DEF ServiceInv, MetricsInv
  <2>2. R \subseteq Loaded \cup todo
    BY <2>1 DEF MetricsFor, Asked
  <2>3. srv = "idle" => Loaded \subseteq R
    BY <2>1 DEF MetricsFor, Asked, Arrived
  <2>4. PICK c : Loaded \ R \subseteq {c}
    <3>1. CASE srv = "gone"
      BY <2>1, <3>1 DEF MetricsFor, Arrived
    <3>2. CASE srv # "gone"
      <4>1. Loaded \ R \subseteq {cur}
        BY <2>1, <3>2 DEF MetricsFor, Asked, Arrived
      <4> QED BY <4>1
    <3> QED BY <3>1, <3>2
  <2>5. Cardinality(Loaded \ R) <= 1
    <3>1. IsFiniteSet({c}) /\ Cardinality({c}) = 1
      BY FS_Singleton
    <3> QED BY <2>4, <3>1, FS_Subset
  <2>6. /\ metrics.requests = Cardinality(R)
        /\ metrics.unique = UNION {record_unique_pages(Request[p]) : p \in R}
    BY <2>1 DEF MetricsFor
  <2> QED BY <2>2, <2>3, <2>5, <2>6 DEF MetricsExact, Loaded
<1>2. HandlerInv /\ LifeInv /\ ServiceInv => CountersExact
  BY <1>1, CountsAreExact DEF CountersExact
<1> QED BY <1>2, ServiceInductive, PTL

-----------------------------------------------------------------------------
(* What the guest sees *)

(* Pages are loaded for good. *)
LEMMA LoadedGrows ==
  ASSUME HandlerInv, LifeInv, [Next]_vars
  PROVE  /\ Loaded \subseteq Loaded'
         /\ \A q \in Pages : state[q] # "UNLOADED" => state'[q] # "UNLOADED"
<1> USE DEF Loaded, HandlerInv, HandlerTypes
<1>1. CASE QuietStep
  BY <1>1 DEF QuietStep
<1>2. CASE RemapChunk
  BY <1>2 DEF RemapChunk, work
<1>3. CASE ReadMessage
  <2>1. todo = {}
    BY <1>3 DEF ReadMessage, LoadingInv, AtRest
  <2>2. PICK v \in VCpus :
          LET p == acc[v].page
              load == st[v] = "missing" /\ state[p] = "UNLOADED"
          IN  /\ p \in Pages
              /\ state' = IF load THEN [state EXCEPT ![p] = "LOADING"] ELSE state
              /\ todo' = IF load THEN {p} ELSE {}
    BY <1>3 DEF ReadMessage, GuestTypes
  <2> QED BY <2>1, <2>2
<1>4. CASE CopyWp
  <2>1. todo' = todo \ {LoadPage} /\ (state' = state \/ state' = [state EXCEPT ![LoadPage] = "SHARED_READY"])
    BY <1>4 DEF CopyWp
  <2> QED BY <2>1
<1>5. CASE AcquireChunk
  BY <1>5 DEF AcquireChunk, Acquired
<1>6. CASE MarkAndWake
  BY <1>6 DEF MarkAndWake
<1> QED BY <1>1, <1>2, <1>3, <1>4, <1>5, <1>6, NextSteps, QuietSteps DEF LifeInv

(* While the userfaultfd is open only the handler maps pages. *)
LEMMA MappedStep ==
  ASSUME HandlerInv, LifeInv, [Next]_vars,
         open => \A q \in Pages : present[q] # "none" => q \in Loaded
  PROVE  open' => \A q \in Pages : present'[q] # "none" => q \in Loaded'
<1>1. SUFFICES ASSUME open', NEW q \in Pages, present'[q] # "none", q \notin Loaded PROVE q \in Loaded'
  BY LoadedGrows
<1>2. SUFFICES ASSUME present[q] = "none", present' # present, open PROVE q \in Loaded'
  <2>1. open \/ vmm = "setup"
    <3>1. CASE Idling
      BY <1>1, <3>1 DEF Idling, VmmStep, RestoreByUffd, RecvReady, CheckResult, JoinHandler, StopUffdHandler,
         Connect, Setup, StopEvent, SendResult, Errors, Fail, Goto, ServerStep, ServerFailure, Disconnect,
         vars, channel
    <3>2. CASE Reading \/ Copying \/ Waking
      BY <1>1, <3>2 DEF Reading, ReadFile, SendRequest, ReceiveReply, Copying, SnapshotChunk, CopyBack,
         Waking, DropUffd, WakeFaulted, channel
    <3>3. CASE \/ \E v \in VCpus, a \in Accesses : Issue(v, a)
               \/ \E v \in VCpus : Access(v)
               \/ \E p \in Pages : Discard(p)
      BY <1>1, <3>3 DEF Issue, Access, Discard, channel
    <3>4. CASE ReadMessage \/ CopyWp \/ AcquireChunk \/ Unprotect \/ RemapChunk \/ MarkAndWake
      BY <1>1, <3>4 DEF ReadMessage, CopyWp, AcquireChunk, Unprotect, RemapChunk, MarkAndWake, channel
    <3> QED BY <3>1, <3>2, <3>3, <3>4, NextSteps
  <2>2. CASE open
    BY <1>1, <1>2, <2>2
  <2>3. CASE ~open /\ vmm = "setup"
    <3>1. pc = "none" /\ present[q] = "none" /\ \A v \in VCpus : st[v] = "idle"
      BY <2>3 DEF LifeInv
    <3>2. present' = present
      BY <1>1, <2>3, <3>1 DEF Next, VmmStep, RestoreByUffd, RecvReady, CheckResult, JoinHandler, StopUffdHandler,
         HandlerStep, Connect, Setup, StopEvent, SendResult, DropUffd, ReadMessage, WakeFaulted, ReadFile,
         SendRequest, ReceiveReply, CopyWp, AcquireChunk, SnapshotChunk, Unprotect, RemapChunk, CopyBack,
         MarkAndWake, Errors, Fail, Goto, ServerStep, ServerFailure, Disconnect, Issue, Access, Discard,
         vars, guest
    <3> QED BY <1>1, <3>1, <3>2
  <2> QED BY <2>1, <2>2, <2>3
<1>3. CASE CopyWp
  <2>1. pc = "copy" /\ todo' = todo \ {LoadPage} /\ present' \in {present, [present EXCEPT ![LoadPage] = "wp"]}
        /\ (state' = state \/ state' = [state EXCEPT ![LoadPage] = "SHARED_READY"])
    BY <1>3 DEF CopyWp
  <2>2. q = LoadPage
    BY <1>1, <1>2, <2>1 DEF HandlerInv, GuestTypes
  <2>3. state[q] # "UNLOADED"
    BY <2>1, <2>2, LoadPageInTodo DEF HandlerInv, HandlerTypes, LoadingInv, Loads
  <2> QED BY <2>1, <2>2, <2>3 DEF Loaded, HandlerInv, HandlerTypes
<1>4. CASE RemapChunk
  <2>1. pc = "remap" /\ q \in COW /\ UNCHANGED <<state, todo>>
    BY <1>1, <1>2, <1>4 DEF RemapChunk, work
  <2>2. todo = {} /\ state[q] = "LOADING"
    BY <2>1 DEF HandlerInv, HandlerTypes, LoadingInv, Replacing, Batch
  <2> QED BY <2>1, <2>2 DEF Loaded
<1>5. CASE Unprotect
  BY <1>1, <1>2, <1>5 DEF Unprotect
<1>6. ASSUME NEW v \in VCpus, Access(v) PROVE FALSE
  <2>1. acc[v].page \in Pages
    BY <1>6 DEF Access, HandlerInv, GuestTypes
  <2>2. present' = [present EXCEPT ![acc[v].page] = present[acc[v].page]]
    BY <1>2, <1>6 DEF Access, Complete, Fault, guest
  <2> QED BY <1>2, <2>1, <2>2 DEF HandlerInv, GuestTypes
<1>7. ASSUME NEW p \in Pages, Discard(p) PROVE FALSE
  BY <1>1, <1>2, <1>7 DEF Discard, HandlerInv, GuestTypes
<1>8. ASSUME Idling \/ Reading \/ Copying \/ Waking \/ ReadMessage \/ AcquireChunk \/ MarkAndWake
      PROVE  FALSE
  <2>1. CASE Idling
    BY <1>2, <2>1 DEF Idling, VmmStep, RestoreByUffd, RecvReady, CheckResult, JoinHandler, StopUffdHandler,
       Connect, Setup, StopEvent, SendResult, Errors, Fail, Goto, ServerStep, ServerFailure, Disconnect, vars, guest
  <2>2. CASE ~Idling
    BY <1>2, <1>8, <2>2 DEF Reading, ReadFile, SendRequest, ReceiveReply, Copying, SnapshotChunk, CopyBack,
       Waking, DropUffd, WakeFaulted, ReadMessage, AcquireChunk, MarkAndWake, guest
  <2> QED BY <2>1, <2>2
<1>9. ASSUME NEW v \in VCpus, NEW a \in Accesses, Issue(v, a) PROVE FALSE
  BY <1>2, <1>9 DEF Issue, guest
<1> QED BY <1>3, <1>4, <1>5, <1>6, <1>7, <1>8, <1>9, NextSteps

(* What a step does to a vCPU: nothing; it begins or ends an access, or    *)
(* finds a page missing; it finds a page protected; its message is read;   *)
(* or it is woken, which while a message is handled happens only on the    *)
(* page that is being installed.                                           *)
Working == {"acquire"} \cup Loads \cup Replacing

Undisturbed(v) == st'[v] = st[v] /\ acc'[v] = acc[v]
Runs(v)     == st[v] \in {"idle", "access"} /\ st'[v] \in {"idle", "access", "missing"}
Protected(v) == /\ st[v] = "access" /\ st'[v] = "wp" /\ acc'[v] = acc[v]
                /\ open /\ acc[v].page \in Pages /\ present[acc[v].page] = "wp"
Claimed(v)  == /\ ReadMessage /\ st[v] \in {"missing", "wp"} /\ st'[v] = "claimed"
               /\ acc'[v] = acc[v] /\ fault' = [page |-> acc[v].page, kind |-> st[v]]
Woken(v)    == /\ st[v] \in Asleep /\ st'[v] = "access" /\ acc'[v] = acc[v]
               /\ pc' \notin Working \/ (CopyWp /\ acc[v].page = LoadPage)

LEMMA CpuSteps ==
  ASSUME HandlerInv, [Next]_vars, NEW v \in VCpus
  PROVE  Undisturbed(v) \/ Runs(v) \/ Protected(v) \/ Claimed(v) \/ Woken(v)
<1> USE DEF HandlerInv, GuestTypes
<1>1. CASE Idling
  BY <1>1 DEF Undisturbed, Idling, VmmStep, RestoreByUffd, RecvReady, CheckResult, JoinHandler, StopUffdHandler,
     Connect, Setup, StopEvent, SendResult, Errors, Fail, Goto, ServerStep, ServerFailure, Disconnect, vars, cpus
<1>2. CASE Reading \/ Copying \/ AcquireChunk \/ Unprotect \/ RemapChunk \/ \E p \in Pages : Discard(p)
  BY <1>2 DEF Undisturbed, Reading, ReadFile, SendRequest, ReceiveReply, Copying, SnapshotChunk, CopyBack,
     AcquireChunk, Unprotect, RemapChunk, Discard, cpus
<1>3. CASE Waking
  <2>1. UNCHANGED acc /\ pc' \notin Working /\ (UNCHANGED st \/ \E P : Wake(P))
    BY <1>3 DEF Waking, DropUffd, WakeFaulted, Working, Loads, Replacing
  <2> QED BY <2>1, WakeOnlySleepers DEF Undisturbed, Woken
<1>4. CASE MarkAndWake
  <2>1. UNCHANGED acc /\ pc' \notin Working /\ (UNCHANGED st \/ \E P : Wake(P))
    BY <1>4 DEF MarkAndWake, Working, Loads, Replacing
  <2> QED BY <2>1, WakeOnlySleepers DEF Undisturbed, Woken
<1>5. CASE CopyWp
  <2>1. UNCHANGED acc /\ (UNCHANGED st \/ Wake({LoadPage}))
    BY <1>5 DEF CopyWp
  <2> QED BY <1>5, <2>1, WakeOnlySleepers DEF Undisturbed, Woken
<1>6. CASE ReadMessage
  <2>1. PICK u \in VCpus : /\ st[u] \in {"missing", "wp"} /\ st' = [st EXCEPT ![u] = "claimed"] /\ UNCHANGED acc
                           /\ fault' = [page |-> acc[u].page, kind |-> st[u]]
    BY <1>6 DEF ReadMessage
  <2> QED BY <1>6, <2>1 DEF Undisturbed, Claimed
<1>7. ASSUME NEW u \in VCpus, NEW a \in Accesses, Issue(u, a)
      PROVE  Undisturbed(v) \/ Runs(v)
  BY <1>7 DEF Issue, Undisturbed, Runs
<1>8. ASSUME NEW u \in VCpus, Access(u)
      PROVE  Undisturbed(v) \/ Runs(v) \/ Protected(v)
  <2>1. st[u] = "access" /\ acc[u].page \in Pages
    BY <1>8 DEF Access
  <2>2. CASE Fault(u, "missing")
    BY <2>1, <2>2 DEF Fault, Undisturbed, Runs
  <2>3. CASE Fault(u, "wp") /\ open /\ present[acc[u].page] = "wp"
    BY <2>1, <2>3 DEF Fault, Undisturbed, Protected
  <2>4. ASSUME NEW m, NEW new, Complete(u, m, new) PROVE Undisturbed(v) \/ Runs(v)
    BY <2>1, <2>4 DEF Complete, Undisturbed, Runs
  <2> QED BY <1>8, <2>2, <2>3, <2>4 DEF Access
<1> QED BY <1>1, <1>2, <1>3, <1>4, <1>5, <1>6, <1>7, <1>8, NextSteps

(* The handler comes to a fault only by reading one. *)
LEMMA WorkSteps ==
  ASSUME HandlerInv, LifeInv, [Next]_vars, ~ReadMessage, pc' \in Working
  PROVE  pc \in Working /\ fault' = fault
<1> USE DEF Working, AtRest, Loads, Replacing, Failed
<1>1. CASE QuietStep
  BY <1>1 DEF QuietStep, HandlerInv, HandlerTypes
<1>2. CASE CopyWp \/ AcquireChunk \/ RemapChunk \/ MarkAndWake
  BY <1>2 DEF CopyWp, AcquireChunk, RemapChunk, MarkAndWake, work
<1> QED BY <1>1, <1>2, NextSteps, QuietSteps DEF LifeInv, HandlerInv

(* The handler's view of the guest: MappedInv. *)
LEMMA MappedInvStep ==
  ASSUME HandlerInv, LifeInv, ServiceInv, MappedInv, [Next]_vars PROVE MappedInv'
<1>1. open' => \A q \in Pages : present'[q] # "none" => q \in Loaded'
  BY MappedStep DEF MappedInv
<1>2. ASSUME NEW v \in VCpus, st'[v] = "wp" PROVE state'[acc'[v].page] # "UNLOADED"
  <2>1. acc'[v] = acc[v] /\ (st[v] = "wp" \/ Protected(v))
    BY <1>2, CpuSteps DEF Undisturbed, Runs, Protected, Claimed, Woken
  <2>2. acc[v].page \in Pages /\ state[acc[v].page] # "UNLOADED"
    BY <2>1 DEF HandlerInv, GuestTypes, MappedInv, Protected, Loaded
  <2> QED BY <2>1, <2>2, LoadedGrows
<1>3. ASSUME pc' = "acquire" PROVE state'[fault'.page] # "UNLOADED"
  <2>1. CASE ReadMessage
    <3>1. PICK v \in VCpus : /\ acc[v].page \in Pages /\ st[v] \in {"missing", "wp"}
                             /\ fault' = [page |-> acc[v].page, kind |-> st[v]]
      BY <2>1 DEF ReadMessage, HandlerInv, GuestTypes
    <3>2. fault'.kind = "wp"
      BY <1>3, HandlerStepKeeps DEF HandlerInv, HandlerTypes
    <3>3. state[acc[v].page] # "UNLOADED"
      BY <3>1, <3>2 DEF MappedInv
    <3> QED BY <3>1, <3>3, LoadedGrows
  <2>2. CASE ~ReadMessage
    <3>1. pc = "acquire" /\ fault' = fault
      <4>1. fault' = fault /\ pc \in Working
        BY <1>3, <2>2, WorkSteps DEF Working
      <4>2. CASE QuietStep
        BY <1>3, <4>1, <4>2 DEF QuietStep, AtRest, Loads, Failed
      <4>3. CASE CopyWp \/ AcquireChunk \/ RemapChunk \/ MarkAndWake
        BY <1>3, <4>3 DEF CopyWp, AcquireChunk, RemapChunk, MarkAndWake
      <4> QED BY <2>2, <4>1, <4>2, <4>3, NextSteps, QuietSteps DEF LifeInv, HandlerInv
    <3>2. fault.page \in Pages /\ state[fault.page] # "UNLOADED"
      BY <3>1 DEF HandlerInv, HandlerTypes, MappedInv
    <3> QED BY <3>1, <3>2, LoadedGrows
  <2> QED BY <2>1, <2>2
<1>4. ASSUME pc' \in Loads, fault'.kind = "wp" PROVE fault'.page \notin todo'
  <2>1. CASE ReadMessage
    <3>1. PICK v \in VCpus : /\ st[v] = "wp" => todo' = {}
                             /\ fault' = [page |-> acc[v].page, kind |-> st[v]]
      BY <2>1 DEF ReadMessage, HandlerInv, GuestTypes
    <3> QED BY <1>4, <3>1
  <2>2. CASE AcquireChunk
    BY <2>2 DEF AcquireChunk, MappedInv
  <2>3. CASE CopyWp
    BY <1>4, <2>3 DEF CopyWp, MappedInv, Loads
  <2>4. CASE QuietStep
    BY <1>4, <2>4 DEF QuietStep, MappedInv, AtRest, Loads, Failed
  <2>5. CASE RemapChunk \/ MarkAndWake
    BY <1>4, <2>5 DEF RemapChunk, MarkAndWake, Loads
  <2> QED BY <2>1, <2>2, <2>3, <2>4, <2>5, NextSteps, QuietSteps DEF LifeInv, HandlerInv
<1>5. ASSUME pc' = "copy" PROVE buf'[LoadPage'] = TemplatePage(LoadPage')
  <2>1. CASE Reading
    <3>1. todo' = todo /\ LoadPage' = LoadPage /\ pc \in Loads
      BY <2>1 DEF Reading, ReadFile, SendRequest, ReceiveReply, LoadPage, Loads, work
    <3>2. LoadPage \in Pages
      BY <3>1, LoadPageInTodo DEF HandlerInv, HandlerTypes, LoadingInv
    <3>3. CASE ReadFile
      BY <3>1, <3>2, <3>3 DEF ReadFile, HandlerInv, GuestTypes
    <3>4. CASE ReceiveReply
      <4>1. rsp.status = "ok" /\ buf' = [buf EXCEPT ![LoadPage] = TemplatePage(rsp.page)] /\ pc = "await"
        BY <1>5, <3>4 DEF ReceiveReply
      <4>2. rsp.page = LoadPage
        BY <4>1 DEF ServiceInv, SocketInv, MappedInv
      <4> QED BY <3>1, <3>2, <4>1, <4>2 DEF HandlerInv, GuestTypes
    <3>5. ~SendRequest
      BY <1>5 DEF SendRequest
    <3> QED BY <2>1, <3>3, <3>4, <3>5 DEF Reading
  <2>2. CASE ~Reading
    <3>1. pc = "copy" /\ todo' = todo /\ buf' = buf
      <4>1. CASE Idling
        BY <1>5, <4>1 DEF Idling, VmmStep, RestoreByUffd, RecvReady, CheckResult, JoinHandler, StopUffdHandler,
           Connect, Setup, StopEvent, SendResult, Errors, Fail, Goto, ServerStep, ServerFailure, Disconnect, vars, work
      <4>2. CASE Copying \/ Waking \/ CopyWp \/ AcquireChunk \/ Unprotect \/ RemapChunk \/ MarkAndWake \/ ReadMessage
        <5>1. ~ReadMessage /\ ~AcquireChunk
          BY <1>5 DEF ReadMessage, AcquireChunk
        <5> QED BY <1>5, <4>2, <5>1 DEF Copying, SnapshotChunk, CopyBack, Waking, DropUffd, WakeFaulted, CopyWp,
           Unprotect, RemapChunk, MarkAndWake
      <4>3. CASE \/ \E v \in VCpus, a \in Accesses : Issue(v, a)
                 \/ \E v \in VCpus : Access(v)
                 \/ \E p \in Pages : Discard(p)
        BY <1>5, <4>3 DEF Issue, Access, Discard, work
      <4> QED BY <2>2, <4>1, <4>2, <4>3, NextSteps
    <3>2. LoadPage' = LoadPage
      BY <3>1 DEF LoadPage
    <3> QED BY <3>1, <3>2 DEF MappedInv
  <2> QED BY <2>1, <2>2
<1>6. ASSUME pc' = "await" PROVE source' = "service"
  <2>1. source' = source
    BY DEF Next, VmmStep, RestoreByUffd, RecvReady, CheckResult, JoinHandler, StopUffdHandler,
       HandlerStep, Connect, Setup, StopEvent, SendResult, DropUffd, ReadMessage, WakeFaulted, ReadFile,
       SendRequest, ReceiveReply, CopyWp, AcquireChunk, SnapshotChunk, Unprotect, RemapChunk, CopyBack,
       MarkAndWake, Errors, Fail, Goto, ServerStep, ServerFailure, Disconnect, Issue, Access, Discard,
       vars, config
  <2>2. CASE Reading
    BY <1>6, <2>1, <2>2 DEF Reading, ReadFile, SendRequest, ReceiveReply
  <2>3. CASE CopyWp \/ (source = "service" /\ (ServerStep \/ ServerFailure \/ Disconnect))
    BY <1>6, <2>1, <2>3 DEF CopyWp
  <2>4. CASE ClientStep
    BY <1>6, <2>1, <2>4 DEF ClientStep, MappedInv
  <2> QED BY <2>2, <2>3, <2>4, ClientSteps DEF Next, HandlerStep, Reading, Copying, Waking
<1> QED BY <1>1, <1>2, <1>3, <1>4, <1>5, <1>6 DEF MappedInv

(* The only vCPU of a VM sleeps while its protection fault is handled. *)
LEMMA AloneStep ==
  ASSUME HandlerInv, LifeInv, ServiceInv, MappedInv, AloneInv, [Next]_vars PROVE AloneInv'
<1>1. UNCHANGED active
  BY DEF Next, VmmStep, RestoreByUffd, RecvReady, CheckResult, JoinHandler, StopUffdHandler,
     HandlerStep, Connect, Setup, StopEvent, SendResult, DropUffd, ReadMessage, WakeFaulted, ReadFile,
     SendRequest, ReceiveReply, CopyWp, AcquireChunk, SnapshotChunk, Unprotect, RemapChunk, CopyBack,
     MarkAndWake, Errors, Fail, Goto, ServerStep, ServerFailure, Disconnect, Issue, Access, Discard,
     vars, config
<1> SUFFICES ASSUME NEW v \in VCpus, active = {v}
             PROVE  /\ pc' \in Working /\ fault'.kind = "wp" => st'[v] = "claimed" /\ acc'[v].page = fault'.page
                    /\ pc' \in {"unprotect", "remap"} /\ gone' = {} => \A q \in COW' : buf'[q] = mem'[q]
  BY <1>1 DEF AloneInv, Working
<1>2. ASSUME pc' \in Working, fault'.kind = "wp" PROVE st'[v] = "claimed" /\ acc'[v].page = fault'.page
  <2>1. CASE ReadMessage
    <3>1. /\ st[v] \in {"missing", "wp"} /\ st' = [st EXCEPT ![v] = "claimed"] /\ UNCHANGED acc
          /\ fault' = [page |-> acc[v].page, kind |-> st[v]]
      BY <2>1 DEF ReadMessage
    <3> QED BY <3>1 DEF HandlerInv, GuestTypes
  <2>2. CASE ~ReadMessage
    <3>1. pc \in Working /\ fault' = fault
      BY <1>2, <2>2, WorkSteps
    <3>2. st[v] = "claimed" /\ acc[v].page = fault.page
      BY <1>2, <3>1 DEF AloneInv, Working
    <3>3. ~Woken(v)
      <4>1. SUFFICES ASSUME CopyWp, fault.page = LoadPage PROVE FALSE
        BY <1>2, <3>2 DEF Woken
      <4>2. pc = "copy" /\ LoadPage \in todo
        BY <4>1, LoadPageInTodo DEF CopyWp, HandlerInv, HandlerTypes, LoadingInv, Loads
      <4> QED BY <1>2, <3>1, <4>1, <4>2 DEF MappedInv, Loads
    <3> QED BY <3>1, <3>2, <3>3, CpuSteps DEF Undisturbed, Runs, Protected, Claimed, Asleep
  <2> QED BY <2>1, <2>2
<1>3. ASSUME pc' \in {"unprotect", "remap"}, gone' = {}, NEW q \in COW' PROVE buf'[q] = mem'[q]
  <2>1. pc \in {"snapshot", "unprotect", "remap"} /\ ~ReadMessage
    <3>1. ~ReadMessage /\ ~AcquireChunk
      BY <1>3 DEF ReadMessage, AcquireChunk, AtRest
    <3>2. CASE QuietStep
      BY <1>3, <3>1, <3>2 DEF QuietStep, AtRest, Loads, Failed
    <3>3. CASE CopyWp \/ RemapChunk \/ MarkAndWake
      BY <1>3, <3>1, <3>3 DEF CopyWp, RemapChunk, MarkAndWake
    <3> QED BY <3>1, <3>2, <3>3, NextSteps, QuietSteps DEF LifeInv, HandlerInv
  <2>2. fault' = fault /\ COW' = COW /\ q \in Pages /\ fault.kind = "wp" /\ st[v] = "claimed"
    <3>1. fault' = fault
      BY <1>3, <2>1, WorkSteps DEF Working, Replacing
    <3>2. fault.kind = "wp" /\ fault.page \in Pages
      BY <2>1 DEF HandlerInv, HandlerTypes, Replacing
    <3>3. COW' = COW
      BY <3>1 DEF COW
    <3>4. q \in Pages
      BY <1>3, <3>2, <3>3, ChunkClass DEF COW
    <3> QED BY <2>1, <3>1, <3>2, <3>3, <3>4 DEF AloneInv, Replacing
  <2>3. CASE SnapshotChunk
    BY <1>3, <2>2, <2>3 DEF SnapshotChunk, guest
  <2>4. CASE ~SnapshotChunk
    <3>1. pc \in {"unprotect", "remap"} /\ UNCHANGED <<mem, buf, gone>>
      <4>1. CASE Idling
        BY <1>3, <2>1, <4>1 DEF Idling, VmmStep, RestoreByUffd, RecvReady, CheckResult, JoinHandler, StopUffdHandler,
           Connect, Setup, StopEvent, SendResult, Errors, Fail, Goto, ServerStep, ServerFailure, Disconnect, vars,
           work, guest
      <4>2. CASE Reading \/ Waking \/ CopyBack \/ CopyWp \/ AcquireChunk \/ RemapChunk \/ MarkAndWake
        BY <1>3, <2>1, <4>2 DEF Reading, ReadFile, SendRequest, ReceiveReply, CopyBack, Waking, DropUffd, WakeFaulted,
           CopyWp, AcquireChunk, RemapChunk, MarkAndWake
      <4>3. CASE Unprotect
        BY <4>3 DEF Unprotect, work
      <4>4. ASSUME NEW u \in VCpus, Access(u) PROVE FALSE
        BY <2>2, <4>4 DEF Access, HandlerInv, GuestTypes
      <4>5. ASSUME NEW p \in Pages, Discard(p) PROVE FALSE
        BY <1>3, <4>5 DEF Discard
      <4>6. ASSUME NEW u \in VCpus, NEW a \in Accesses, Issue(u, a) PROVE FALSE
        <5>1. u = v
          BY <4>6 DEF Issue
        <5> QED BY <2>2, <4>6, <5>1 DEF Issue
      <4> QED BY <2>1, <2>4, <4>1, <4>2, <4>3, <4>4, <4>5, <4>6, NextSteps DEF Copying
    <3> QED BY <1>3, <2>2, <3>1 DEF AloneInv
  <2> QED BY <2>3, <2>4
<1> QED BY <1>2, <1>3

(* The conjunction is inductive. *)
THEOREM RestoreInductive == Spec => []AllInv
<1>1. Init => AllInv
  <2> SUFFICES ASSUME Init PROVE AllInv
    OBVIOUS
  <2>1. MappedInv /\ AloneInv
    BY DEF Init, MappedInv, AloneInv, Loads, Replacing
  <2> QED BY <2>1, HandlerStarts, ServiceStarts DEF AllInv
<1>2. AllInv /\ [Next]_vars => AllInv'
  BY HandlerStepKeeps, LifeStep, ServiceStepKeeps, MappedInvStep, AloneStep DEF AllInv
<1> QED BY <1>1, <1>2, PTL DEF Spec

-----------------------------------------------------------------------------
(* Refinement of CowMemory *)

(* A VM that has not several vCPUs has one. *)
LEMMA OnlyVcpu ==
  ASSUME HandlerInv, ~ (Cardinality(active) > 1) PROVE \E v \in VCpus : active = {v}
<1>1. IsFiniteSet(active) /\ active # {} /\ active \in SUBSET VCpus
  <2>1. active # {} /\ active \in SUBSET VCpus
    BY DEF HandlerInv, GuestTypes
  <2>2. IsFiniteSet(VCpus)
    BY RestoreConstants, Zenon
  <2>3. IsFiniteSet(active)
    BY <2>1, <2>2, FS_Subset
  <2> QED BY <2>1, <2>3
<1>2. Cardinality(active) \in Nat /\ Cardinality(active) # 0
  <2>1. Cardinality(active) \in Nat
    BY <1>1, FS_CardinalityType
  <2>2. Cardinality(active) # 0
    BY <1>1, FS_EmptySet, Zenon
  <2> QED BY <2>1, <2>2
<1>3. Cardinality(active) = 1
  BY <1>2
<1>4. PICK v : active = {v}
  BY <1>1, <1>3, FS_Singleton
<1> QED BY <1>1, <1>4

(* An access of a vCPU, while the userfaultfd is open, is an access to the *)
(* memory it sees: it takes place only outside a replacement, or there     *)
(* are several vCPUs.                                                      *)
LEMMA AccessIsCow ==
  ASSUME AllInv, NEW v \in VCpus, Access(v), open', Cardinality(active) > 1 => pc \notin {"remap", "copyback"}
  PROVE  Cow!Next \/ UNCHANGED Cow!vars
<1>1. /\ st[v] = "access" /\ v \in active /\ acc[v].page \in Pages /\ open
      /\ UNCHANGED <<pc, fault, buf>>
  BY DEF Access, AllInv, HandlerInv, GuestTypes, channel, work
<1>2. pc # "copyback"
  <2> SUFFICES ASSUME pc = "copyback", active = {v} PROVE FALSE
    BY <1>1, OnlyVcpu DEF AllInv
  <2>1. fault.kind = "wp"
    BY DEF AllInv, HandlerInv, HandlerTypes, Replacing
  <2> QED BY <1>1, <2>1 DEF AllInv, AloneInv, Replacing
<1>3. \A q \in Pages : View(q) = IF present[q] = "none" THEN TemplatePage(q) ELSE mem[q]
  BY <1>2 DEF View
<1>4. \A q \in Pages : View(q)' = IF present'[q] = "none" THEN TemplatePage(q) ELSE mem'[q]
  BY <1>1, <1>2 DEF View
<1>5. CASE \E k : Fault(v, k)
  <2>1. UNCHANGED <<present, mem, res>>
    BY <1>5 DEF Fault, guest
  <2>2. \A q \in Pages : View(q)' = View(q)
    BY <1>3, <1>4, <2>1
  <2> QED BY <2>1, <2>2 DEF Cow!vars
<1>6. CASE Complete(v, mem[acc[v].page], present[acc[v].page]) /\ present[acc[v].page] # "none"
  <2> DEFINE p == acc[v].page
  <2>1. present' = present
    BY <1>1, <1>6 DEF Complete, AllInv, HandlerInv, GuestTypes
  <2>2. CASE acc[v].op = "read"
    <3>1. res' = [res EXCEPT ![v] = mem[p]] /\ \A q \in Pages : mem'[q] = mem[q]
      BY <1>1, <1>6, <2>2 DEF Complete, AllInv, HandlerInv, GuestTypes
    <3>2. \A q \in Pages : View(q)' = View(q)
      BY <1>3, <1>4, <2>1, <3>1
    <3>3. mem[p] = View(p)
      BY <1>1, <1>3, <1>6
    <3>4. Cow!Read(v, p, 0)
      BY <1>1, <3>1, <3>2, <3>3 DEF Cow!Read
    <3> QED BY <1>1, <3>4 DEF Cow!Next
  <2>3. CASE acc[v].op # "read"
    <3>1. res' = res /\ \A q \in Pages : mem'[q] = IF q = p THEN v ELSE mem[q]
      BY <1>1, <1>6, <2>3 DEF Complete, AllInv, HandlerInv, GuestTypes
    <3>2. \A q \in Pages : View(q)' = IF q = p THEN v ELSE View(q)
      BY <1>1, <1>3, <1>4, <1>6, <2>1, <3>1
    <3>3. Cow!Write(v, p, 0)
      BY <1>1, <3>1, <3>2 DEF Cow!Write
    <3> QED BY <1>1, <3>3 DEF Cow!Next
  <2> QED BY <2>2, <2>3
<1> QED BY <1>1, <1>5, <1>6 DEF Access

(* Nothing else changes what the guest sees, but for the balloon: a page   *)
(* that is installed holds the template's content, and a chunk is replaced *)
(* by what the handler saved of it.                                        *)
LEMMA OthersHidden ==
  ASSUME AllInv, [Next]_vars, gone' = {}, ~ (\E v \in VCpus : Access(v)),
         Cardinality(active) > 1 => pc \notin {"remap", "copyback"}
  PROVE  UNCHANGED Cow!vars
<1>1. SUFFICES res' = res /\ \A q \in Pages : View(q)' = View(q)
  BY DEF Cow!vars
<1>2. SUFFICES ASSUME NEW q \in Pages PROVE View(q)' = View(q)
  BY DEF Next, VmmStep, RestoreByUffd, RecvReady, CheckResult, JoinHandler, StopUffdHandler,
     HandlerStep, Connect, Setup, StopEvent, SendResult, DropUffd, ReadMessage, WakeFaulted, ReadFile,
     SendRequest, ReceiveReply, CopyWp, AcquireChunk, SnapshotChunk, Unprotect, RemapChunk, CopyBack,
     MarkAndWake, Errors, Fail, Goto, ServerStep, ServerFailure, Disconnect, Issue, Discard,
     vars, cpus
<1>3. ASSUME UNCHANGED <<present, mem>>, pc # "copyback", pc' # "copyback" PROVE View(q)' = View(q)
  BY <1>3 DEF View
<1>4. ASSUME UNCHANGED <<present, mem, buf, fault, pc>> PROVE View(q)' = View(q)
  BY <1>4 DEF View, COW
<1>5. CASE Idling
  <2>1. UNCHANGED <<present, mem, buf, fault>> /\ (pc' = pc \/ (pc # "copyback" /\ pc' # "copyback"))
    BY <1>5 DEF Idling, VmmStep, RestoreByUffd, RecvReady, CheckResult, JoinHandler, StopUffdHandler,
       Connect, Setup, StopEvent, SendResult, Errors, Fail, Goto, ServerStep, ServerFailure, Disconnect, vars,
       work, guest, AllInv, LifeInv
  <2> QED BY <1>3, <1>4, <2>1
<1>6. CASE \E v \in VCpus, a \in Accesses : Issue(v, a)
  BY <1>4, <1>6 DEF Issue, guest, work
<1>7. CASE Reading \/ SnapshotChunk \/ Waking \/ ReadMessage \/ AcquireChunk \/ MarkAndWake
  <2>1. UNCHANGED <<present, mem>> /\ pc # "copyback"
    BY <1>7 DEF Reading, ReadFile, SendRequest, ReceiveReply, SnapshotChunk, Waking, DropUffd, WakeFaulted,
       ReadMessage, AcquireChunk, MarkAndWake, guest
  <2>2. pc' # "copyback"
    BY <1>7 DEF Reading, ReadFile, SendRequest, ReceiveReply, SnapshotChunk, Waking, DropUffd, WakeFaulted,
       ReadMessage, AcquireChunk, MarkAndWake
  <2> QED BY <1>3, <2>1, <2>2
<1>8. ASSUME NEW p \in Pages, Discard(p) PROVE FALSE
  BY <1>8 DEF Discard
<1>9. CASE CopyWp
  <2>1. pc = "copy" /\ pc' # "copyback" /\ LoadPage \in Pages
    BY <1>9, LoadPageInTodo DEF CopyWp, AllInv, HandlerInv, HandlerTypes, LoadingInv, Loads
  <2>2. buf[LoadPage] = TemplatePage(LoadPage)
    BY <2>1 DEF AllInv, MappedInv
  <2>3. CASE present[LoadPage] # "none"
    BY <1>3, <1>9, <2>1, <2>3 DEF CopyWp
  <2>4. CASE present[LoadPage] = "none"
    <3>1. present' = [present EXCEPT ![LoadPage] = "wp"] /\ mem' = [mem EXCEPT ![LoadPage] = buf[LoadPage]]
      BY <1>9, <2>4 DEF CopyWp
    <3>2. CASE q = LoadPage
      <4>1. View(q) = TemplatePage(q)
        BY <2>1, <2>4, <3>2 DEF View
      <4>2. View(q)' = mem'[q]
        BY <2>1, <3>1, <3>2 DEF View, AllInv, HandlerInv, GuestTypes
      <4> QED BY <2>1, <2>2, <3>1, <3>2, <4>1, <4>2 DEF AllInv, HandlerInv, GuestTypes
    <3>3. CASE q # LoadPage
      <4>1. present'[q] = present[q] /\ mem'[q] = mem[q]
        BY <3>1, <3>3 DEF AllInv, HandlerInv, GuestTypes
      <4> QED BY <2>1, <4>1 DEF View
    <3> QED BY <3>2, <3>3
  <2> QED BY <2>3, <2>4
<1>10. CASE Unprotect
  BY <1>10 DEF Unprotect, View, AllInv, HandlerInv, GuestTypes
<1>11. CASE RemapChunk
  <2>1. /\ pc = "remap" /\ pc' = "copyback" /\ UNCHANGED <<buf, fault, gone, state, todo>> /\ COW' = COW
        /\ present' = [x \in Pages |-> IF x \in COW THEN "priv" ELSE present[x]]
        /\ mem' = [x \in Pages |-> IF x \in COW THEN Zero ELSE mem[x]]
    BY <1>11 DEF RemapChunk, work, COW
  <2>2. CASE q \in COW
    <3>1. q \in Loaded
      BY <2>1, <2>2 DEF AllInv, HandlerInv, HandlerTypes, LoadingInv, Replacing, Batch, Loaded
    <3>2. present[q] # "none"
      BY <2>1, <3>1 DEF AllInv, HandlerInv, LoadedInv
    <3>3. buf[q] = mem[q]
      BY <2>1, <2>2, OnlyVcpu DEF AllInv, AloneInv
    <3> QED BY <2>1, <2>2, <3>2, <3>3 DEF View
  <2>3. CASE q \notin COW
    BY <2>1, <2>3 DEF View
  <2> QED BY <2>2, <2>3
<1>12. CASE CopyBack
  <2>1. /\ pc = "copyback" /\ pc' = "mark" /\ UNCHANGED <<fault, present>> /\ COW' = COW
        /\ mem' = [x \in Pages |-> IF x \in COW THEN buf[x] ELSE mem[x]]
    BY <1>12 DEF CopyBack, COW
  <2>2. q \in COW => present[q] = "priv"
    BY <2>1 DEF AllInv, HandlerInv, ReplacedInv
  <2> QED BY <2>1, <2>2 DEF View
<1> QED BY <1>5, <1>6, <1>7, <1>8, <1>9, <1>10, <1>11, <1>12, NextSteps DEF Copying

(* A restored VM sees a private copy of the template, whatever fails: each *)
(* step is a load, a store or nothing to the guest, while the handler runs *)
(* and with the two exceptions the property names.                         *)
THEOREM RestoredIsCow == Spec => RestoredMemoryIsCow
<1> DEFINE CowStep == \/ Cow!Next
                      \/ ~open' \/ gone' # {}
                      \/ Cardinality(active) > 1 /\ pc \in {"remap", "copyback"}
<1>1. Init => Cow!Init
  BY DEF Init, Cow!Init, View
<1>2. AllInv /\ [Next]_vars => [CowStep]_(Cow!vars)
  <2> SUFFICES ASSUME AllInv, [Next]_vars, open', gone' = {},
                      Cardinality(active) > 1 => pc \notin {"remap", "copyback"}
               PROVE  Cow!Next \/ UNCHANGED Cow!vars
    OBVIOUS
  <2>1. CASE \E v \in VCpus : Access(v)
    BY <2>1, AccessIsCow
  <2>2. CASE ~ (\E v \in VCpus : Access(v))
    BY <2>2, OthersHidden
  <2> QED BY <2>1, <2>2
<1> QED BY <1>1, <1>2, RestoreInductive, PTL DEF Spec, RestoredMemoryIsCow

=============================================================================
