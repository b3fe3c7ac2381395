------------------------ MODULE TemplateMemoryProofs ------------------------
(* Proofs about TemplateMemory, for any number of clients, threads, pages. *)
EXTENDS TemplateMemory, TLAPS

(* Zenon settles most steps at once; the others get more than the default. *)
USE ZenonT(3), SMTT(20), ZenonT(20)

(* The page contents the model writes are page contents. *)
LEMMA ContentFacts ==
  /\ ZeroPage \in Contents
  /\ \A p \in Pages : BackendPage(p) \in Contents
  /\ \A m \in Contents, o \in Offsets, t \in Threads : [m EXCEPT ![o] = t] \in Contents
  /\ \A m \in Contents, o \in Offsets : m[o] \in Cells
  /\ \A m \in Contents : m # Absent
  /\ 0 \in Pages
  /\ \A p \in Pages : p + 1 \in 0 .. PageCount
<1>1. ZeroPage \in Contents
  BY DEF ZeroPage, Contents, Cells
<1>2. ASSUME NEW p \in Pages PROVE BackendPage(p) \in Contents
  BY DEF BackendPage, Contents, Cells
<1>3. ASSUME NEW m \in Contents, NEW o \in Offsets, NEW t \in Threads
      PROVE  [m EXCEPT ![o] = t] \in Contents
  BY DEF Contents, Cells
<1>4. ASSUME NEW m \in Contents, NEW o \in Offsets PROVE m[o] \in Cells
  BY DEF Contents
<1>5. ASSUME NEW m \in Contents PROVE m # Absent
  BY AbsentIsNoPage
<1>6. 0 \in Pages /\ \A p \in Pages : p + 1 \in 0 .. PageCount
  BY ConstantsOK DEF Pages
<1> QED
  BY <1>1, <1>2, <1>3, <1>4, <1>5, <1>6

(* The types most steps need, without the rest of TypeOK. *)
LEMMA HandlerTypes ==
  ASSUME TypeOK
  PROVE  /\ pc \in [Clients -> PCs]
         /\ page \in [Clients -> Pages]
         /\ map \in [Clients -> [Pages -> {"none", "wp", "rw", "priv"}]]
         /\ state \in [Pages -> PageStates]
         /\ dirty \in [Clients -> SUBSET Pages]
BY DEF TypeOK

LEMMA ThreadTypes ==
  ASSUME TypeOK
  PROVE  /\ st \in [Threads -> ThreadStates]
         /\ \A t \in Threads : Owner[t] \in Clients /\ acc[t] \in Accesses /\ acc[t].page \in Pages
BY ConstantsOK DEF TypeOK, Accesses

LEMMA InitIInv == Init => IInv
<1> SUFFICES ASSUME Init PROVE IInv
  OBVIOUS
<1>1. (CHOOSE o \in Offsets : TRUE) \in Offsets
  BY ConstantsOK
<1>2. TypeOK
  BY <1>1, ContentFacts, ConstantsOK
     DEF Init, TypeOK, PageStates, PCs, ThreadStates, Accesses, Pages
<1>3. LoaderExclusive /\ ReadyIsCached
  BY DEF Init, LoaderExclusive, ReadyIsCached, Loads, LoaderPCs
<1>4. PrivateIsDirty /\ HandlerNeverFaults /\ WpPending
  BY ConstantsOK DEF Init, PrivateIsDirty, HandlerNeverFaults, WpPending
<1> QED
  BY <1>2, <1>3, <1>4 DEF IInv

-----------------------------------------------------------------------------
(* Steps of the handler *)

(* The loading protocol is undisturbed by a step that changes no state     *)
(* word and lets nobody begin or end loading.                              *)
LEMMA LoaderFrame ==
  ASSUME LoaderExclusive, state' = state,
         \A d \in Clients, p \in Pages : Loads(d, p)' <=> Loads(d, p)
  PROVE  LoaderExclusive'
BY DEF LoaderExclusive

(* A handler that is not loading moves to a label outside the loading and  *)
(* copying sections and changes nothing else: StartHandler, CheckStop,     *)
(* PollTimeout, SpinDone and the errors of handle_wp_fault.                *)
LEMMA HandlerMoves ==
  ASSUME IInv, NEW c \in Clients,
         NEW l \in {"check", "poll", "spin", "wake", "exited", "failed"},
         pc[c] \notin LoaderPCs \cup EndPCs \cup {"copyback", "mark"},
         l \notin EndPCs => pc[c] \notin {"remap", "wake"},
         l = "wake" => cache[page[c]] # Absent,
         pc' = [pc EXCEPT ![c] = l],
         UNCHANGED <<shared, space, client, page, buf, thread>>
  PROVE  IInv'
<1> USE DEF shared, space, client, thread
<1>1. TypeOK'
  BY DEF IInv, TypeOK, PCs, EndPCs
<1>2. LoaderExclusive'
  <2>1. \A d \in Clients, p \in Pages : Loads(d, p)' <=> Loads(d, p)
    BY HandlerTypes DEF IInv, Loads, LoaderPCs, EndPCs
  <2> QED
    BY <2>1, LoaderFrame DEF IInv
<1>3. ReadyIsCached'
  BY HandlerTypes DEF IInv, ReadyIsCached
<1>4. PrivateIsDirty'
  BY HandlerTypes DEF IInv, PrivateIsDirty
<1>5. HandlerNeverFaults'
  BY HandlerTypes DEF IInv, HandlerNeverFaults
<1>6. WpPending'
  BY HandlerTypes, ThreadTypes DEF IInv, WpPending, EndPCs
<1> QED
  BY <1>1, <1>2, <1>3, <1>4, <1>5, <1>6 DEF IInv

(* A loading handler moves on, or fails, before it copies the page. *)
LEMMA LoaderMoves ==
  ASSUME IInv, NEW c \in Clients, NEW l \in {"copy", "failed_loading"},
         pc[c] \in {"read_page", "copy"},
         pc' = [pc EXCEPT ![c] = l],
         buf' \in [Clients -> Contents],
         UNCHANGED <<shared, space, client, page, thread>>
  PROVE  IInv'
<1> USE DEF shared, space, client, thread
<1>1. TypeOK'
  BY DEF IInv, TypeOK, PCs, LoaderPCs, EndPCs
<1>2. LoaderExclusive'
  <2>1. \A d \in Clients, p \in Pages : Loads(d, p)' <=> Loads(d, p)
    BY HandlerTypes DEF IInv, Loads, LoaderPCs, EndPCs
  <2> QED
    BY <2>1, LoaderFrame DEF IInv
<1>3. ReadyIsCached'
  BY HandlerTypes DEF IInv, ReadyIsCached
<1>4. PrivateIsDirty'
  BY HandlerTypes DEF IInv, PrivateIsDirty
<1>5. HandlerNeverFaults'
  BY HandlerTypes DEF IInv, HandlerNeverFaults
<1>6. WpPending'
  BY HandlerTypes, ThreadTypes DEF IInv, WpPending, EndPCs
<1> QED
  BY <1>1, <1>2, <1>3, <1>4, <1>5, <1>6 DEF IInv

(* The loop of fault_handler_main, except reading a message. *)
LEMMA LoopStep ==
  ASSUME IInv, NEW c \in Clients,
         \/ StartHandler(c) \/ CheckStop(c) \/ PollTimeout(c) \/ PollError(c)
  PROVE  IInv'
<1> USE DEF Goto, Fail, LoaderPCs, EndPCs
<1>1. CASE StartHandler(c)
  BY <1>1, HandlerMoves DEF StartHandler
<1>2. CASE CheckStop(c)
  <2>1. CASE stop[c]
    BY <1>2, <2>1, HandlerMoves DEF CheckStop
  <2>2. CASE ~stop[c]
    BY <1>2, <2>2, HandlerMoves DEF CheckStop
  <2> QED
    BY <2>1, <2>2
<1>3. CASE PollTimeout(c)
  BY <1>3, HandlerMoves DEF PollTimeout
<1>4. CASE PollError(c)
  BY <1>4, HandlerMoves DEF PollError
<1> QED
  BY <1>1, <1>2, <1>3, <1>4

(* The errors that end handle_wp_fault, and a wake-up that fails. *)
LEMMA CowErrorStep ==
  ASSUME IInv, NEW c \in Clients,
         SnapshotError(c) \/ ClearWriteProtectError(c) \/ RemapError(c) \/ WakeError(c)
  PROVE  IInv'
BY HandlerMoves
   DEF SnapshotError, ClearWriteProtectError, RemapError, WakeError, Goto, Fail, LoaderPCs, EndPCs

(* Reading the backend, and the errors that leave a page LOADING. *)
LEMMA LoadingStep ==
  ASSUME IInv, NEW c \in Clients,
         ReadPage(c) \/ ReadPageError(c) \/ CopyError(c)
  PROVE  IInv'
<1> buf \in [Clients -> Contents] /\ page[c] \in Pages
  BY DEF IInv, TypeOK
<1>1. CASE ReadPage(c)
  BY <1>1, LoaderMoves, ContentFacts DEF ReadPage, Goto
<1>2. CASE ReadPageError(c)
  BY <1>2, LoaderMoves DEF ReadPageError, Goto
<1>3. CASE CopyError(c)
  BY <1>3, LoaderMoves DEF CopyError, Goto, Fail
<1> QED
  BY <1>1, <1>2, <1>3

(* A peer stops waiting because the page is ready, hence in the memfd. *)
LEMMA SpinDoneStep == ASSUME IInv, NEW c \in Clients, SpinDone(c) PROVE IInv'
<1> cache[page[c]] # Absent
  BY DEF IInv, TypeOK, ReadyIsCached, SpinDone
<1> QED
  BY HandlerMoves DEF SpinDone, Goto, LoaderPCs, EndPCs

(* A message is read.  A write-protect message is about a protected page:  *)
(* this is where WpPending is needed.                                      *)
LEMMA ReadMessageStep == ASSUME IInv, NEW c \in Clients, ReadMessage(c) PROVE IInv'
<1> PICK t \in Threads :
      /\ Owner[t] = c /\ st[t] \in {"missing", "wp"}
      /\ st' = [st EXCEPT ![t] = "claimed"]
      /\ page' = [page EXCEPT ![c] = acc[t].page]
      /\ pc' = [pc EXCEPT ![c] = IF st[t] = "wp" THEN "snapshot" ELSE "cas"]
  BY DEF ReadMessage, Goto
<1> pc[c] = "poll" /\ UNCHANGED <<shared, space, client, buf, acc, res, next, ckpt>>
  BY DEF ReadMessage
<1> acc[t].page \in Pages
  BY DEF IInv, TypeOK, Accesses
<1> USE DEF shared, space, client
<1>1. TypeOK'
  BY DEF IInv, TypeOK, PCs, CowPCs, ThreadStates
<1>2. LoaderExclusive'
  <2>1. \A d \in Clients, p \in Pages : Loads(d, p)' <=> Loads(d, p)
    BY HandlerTypes DEF IInv, Loads, LoaderPCs
  <2> QED
    BY <2>1, LoaderFrame DEF IInv
<1>3. ReadyIsCached' /\ PrivateIsDirty'
  BY DEF IInv, TypeOK, ReadyIsCached, PrivateIsDirty
<1>4. HandlerNeverFaults'
  <2>1. st[t] = "wp" => map[c][acc[t].page] = "wp"
    BY DEF IInv, WpPending, EndPCs
  <2> QED
    BY <2>1 DEF IInv, TypeOK, HandlerNeverFaults
<1>5. WpPending'
  BY HandlerTypes, ThreadTypes DEF IInv, WpPending, EndPCs
<1> QED
  BY <1>1, <1>2, <1>3, <1>4, <1>5 DEF IInv

(* The winner of the compare-and-swap becomes the only loader: the page    *)
(* was UNLOADED, so nobody was loading it.                                 *)
LEMMA CompareExchangeStep ==
  ASSUME IInv, NEW c \in Clients, CompareExchange(c) PROVE IInv'
<1> DEFINE p == page[c]
<1> p \in Pages /\ pc[c] = "cas"
  BY DEF IInv, TypeOK, CompareExchange
<1> USE DEF Goto
<1>1. CASE state[p] = "UNLOADED"
  <2> /\ state' = [state EXCEPT ![p] = "LOADING"]
      /\ pc' = [pc EXCEPT ![c] = "read_page"]
      /\ UNCHANGED <<cache, space, client, page, buf, thread>>
    BY <1>1 DEF CompareExchange
  <2> USE DEF space, client, thread
  <2>1. TypeOK'
    BY DEF IInv, TypeOK, PCs, LoaderPCs, PageStates
  <2>2. LoaderExclusive'
    <3>1. \A d \in Clients : ~Loads(d, p)
      BY <1>1 DEF IInv, LoaderExclusive
    <3>2. \A d \in Clients, q \in Pages :
            Loads(d, q)' <=> Loads(d, q) \/ (d = c /\ q = p)
      BY HandlerTypes DEF IInv, Loads, LoaderPCs
    <3>3. \A q \in Pages : state'[q] = "LOADING" <=> state[q] = "LOADING" \/ q = p
      BY DEF IInv, TypeOK
    <3> QED
      BY <3>1, <3>2, <3>3 DEF IInv, LoaderExclusive
  <2>3. ReadyIsCached'
    BY HandlerTypes DEF IInv, ReadyIsCached
  <2>4. PrivateIsDirty'
    BY HandlerTypes DEF IInv, PrivateIsDirty
  <2>5. HandlerNeverFaults'
    BY HandlerTypes DEF IInv, HandlerNeverFaults
  <2>6. WpPending'
    BY HandlerTypes, ThreadTypes DEF IInv, WpPending, EndPCs
  <2> QED
    BY <2>1, <2>2, <2>3, <2>4, <2>5, <2>6 DEF IInv
<1>2. CASE state[p] = "LOADING"
  BY <1>2, HandlerMoves DEF CompareExchange, shared, LoaderPCs, EndPCs
<1>3. CASE state[p] = "SHARED_READY"
  <2>1. cache[p] # Absent
    BY <1>3 DEF IInv, ReadyIsCached
  <2> QED
    BY <1>3, <2>1, HandlerMoves DEF CompareExchange, shared, LoaderPCs, EndPCs
<1> QED
  BY <1>1, <1>2, <1>3 DEF IInv, TypeOK, PageStates

(* A wake-up withdraws messages and adds none. *)
LEMMA WakeFacts ==
  ASSUME IInv, NEW c \in Clients, NEW p \in Pages, Wake(c, p)
  PROVE  /\ st' \in [Threads -> ThreadStates]
         /\ \A t \in Threads : st'[t] = "wp" => st[t] = "wp" /\ ~(Owner[t] = c /\ acc[t].page = p)
BY DEF IInv, TypeOK, Wake, ThreadStates, Asleep

(* The page goes into the memfd and is mapped protected.  It was a hole,   *)
(* so no client had it mapped.                                             *)
LEMMA CopyPageStep == ASSUME IInv, NEW c \in Clients, CopyPage(c) PROVE IInv'
<1> DEFINE p == page[c]
<1> /\ p \in Pages /\ pc[c] = "copy" /\ buf[c] \in Contents /\ buf[c] # Absent
    /\ pc' = [pc EXCEPT ![c] = "publish"]
    /\ Wake(c, p)
    /\ UNCHANGED <<state, anon, dirty, stop, joined, page, buf, acc, res, next, ckpt>>
  BY ContentFacts DEF IInv, TypeOK, CopyPage, Goto, client
<1>w. /\ st' \in [Threads -> ThreadStates]
      /\ \A t \in Threads : st'[t] = "wp" => st[t] = "wp" /\ ~(Owner[t] = c /\ acc[t].page = p)
  BY WakeFacts
<1>m. /\ cache' \in [Pages -> Contents \cup {Absent}]
      /\ cache'[p] # Absent
      /\ \A q \in Pages : cache[q] # Absent => cache'[q] # Absent
      /\ map' \in [Clients -> [Pages -> {"none", "wp", "rw", "priv"}]]
      /\ \A d \in Clients, q \in Pages :
           map'[d][q] # map[d][q] => d = c /\ q = p /\ map[d][q] = "none" /\ map'[d][q] = "wp"
  <2>1. CASE cache[p] = Absent
    <3>1. cache' = [cache EXCEPT ![p] = buf[c]] /\ map' = [map EXCEPT ![c][p] = "wp"]
      BY <2>1 DEF CopyPage
    <3>2. map[c][p] = "none"
      BY <2>1 DEF IInv, TypeOK, HandlerNeverFaults
    <3> QED
      BY <3>1, <3>2 DEF IInv, TypeOK
  <2>2. CASE cache[p] # Absent
    BY <2>2 DEF IInv, TypeOK, CopyPage
  <2> QED
    BY <2>1, <2>2
<1>1. TypeOK'
  BY <1>w, <1>m DEF IInv, TypeOK, PCs, LoaderPCs
<1>2. LoaderExclusive'
  <2>1. \A d \in Clients, q \in Pages : Loads(d, q)' <=> Loads(d, q)
    BY HandlerTypes DEF IInv, Loads, LoaderPCs
  <2> QED
    BY <2>1, LoaderFrame DEF IInv
<1>3. ReadyIsCached'
  BY <1>m DEF IInv, TypeOK, ReadyIsCached
<1>4. PrivateIsDirty'
  BY <1>m, HandlerTypes, SMTT(20) DEF IInv, PrivateIsDirty
<1>5. HandlerNeverFaults'
  BY <1>m, HandlerTypes, SMTT(20) DEF IInv, HandlerNeverFaults
<1>6. WpPending'
  <2> SUFFICES ASSUME NEW t \in Threads, st'[t] = "wp"
               PROVE  LET d == Owner[t]
                          q == acc[t].page
                      IN  \/ map'[d][q] = "wp"
                          \/ page[d] = q /\ pc'[d] \in {"remap", "copyback", "mark", "wake"}
                          \/ pc'[d] \in EndPCs
    BY DEF WpPending
  <2>1. Owner[t] \in Clients /\ acc[t].page \in Pages
    BY ThreadTypes DEF IInv
  <2>2. st[t] = "wp" /\ ~(Owner[t] = c /\ acc[t].page = p)
    BY <1>w
  <2>3. map'[Owner[t]][acc[t].page] = map[Owner[t]][acc[t].page]
    BY <1>m, <2>1, <2>2
  <2>4. pc'[Owner[t]] = IF Owner[t] = c THEN "publish" ELSE pc[Owner[t]]
    BY <2>1, HandlerTypes DEF IInv
  <2>5. \/ map[Owner[t]][acc[t].page] = "wp"
        \/ /\ page[Owner[t]] = acc[t].page
           /\ pc[Owner[t]] \in {"remap", "copyback", "mark", "wake"}
        \/ pc[Owner[t]] \in EndPCs
    BY <2>2 DEF IInv, WpPending
  <2> QED
    BY <2>3, <2>4, <2>5 DEF EndPCs
<1> QED
  BY <1>1, <1>2, <1>3, <1>4, <1>5, <1>6 DEF IInv

(* The only loader stores SHARED_READY, with the page in the memfd. *)
LEMMA PublishStep == ASSUME IInv, NEW c \in Clients, Publish(c) PROVE IInv'
<1> DEFINE p == page[c]
<1> p \in Pages /\ pc[c] = "publish" /\ cache[p] # Absent
  BY DEF IInv, TypeOK, Publish, ReadyIsCached
<1> USE DEF Publish, Goto, space, client, thread
<1>1. TypeOK'
  BY ContentFacts DEF IInv, TypeOK, PCs, PageStates
<1>2. LoaderExclusive'
  <2>1. Loads(c, p)
    BY DEF Loads, LoaderPCs
  <2>5. \A d \in Clients : Loads(d, p) => d = c
    BY <2>1 DEF IInv, LoaderExclusive
  <2>2. \A d \in Clients, q \in Pages : Loads(d, q)' <=> Loads(d, q) /\ d # c
    BY HandlerTypes DEF IInv, Loads, LoaderPCs
  <2>3. \A q \in Pages : state'[q] = "LOADING" <=> state[q] = "LOADING" /\ q # p
    BY DEF IInv, TypeOK
  <2>4. \A q \in Pages : Loads(c, q) => q = p
    BY DEF Loads
  <2> QED
    <3>1. ASSUME NEW q \in Pages
          PROVE  (state[q] = "LOADING")' <=> \E d \in Clients : Loads(d, q)'
      BY <2>1, <2>2, <2>3, <2>4, <2>5 DEF IInv, LoaderExclusive
    <3>2. ASSUME NEW q \in Pages, NEW d \in Clients, NEW e \in Clients, Loads(d, q)', Loads(e, q)'
          PROVE  d = e
      BY <2>2, <3>2 DEF IInv, LoaderExclusive
    <3> QED
      BY <3>1, <3>2 DEF LoaderExclusive
<1>3. ReadyIsCached'
  BY HandlerTypes DEF IInv, ReadyIsCached
<1>4. PrivateIsDirty'
  BY HandlerTypes DEF IInv, PrivateIsDirty
<1>5. HandlerNeverFaults'
  BY HandlerTypes DEF IInv, HandlerNeverFaults
<1>6. WpPending'
  BY HandlerTypes, ThreadTypes DEF IInv, WpPending, EndPCs
<1> QED
  BY <1>1, <1>2, <1>3, <1>4, <1>5, <1>6 DEF IInv

(* A wake-up leaves no write-protect message about the page behind. *)
LEMMA WakePageStep == ASSUME IInv, NEW c \in Clients, WakePage(c) PROVE IInv'
<1> DEFINE p == page[c]
<1> /\ p \in Pages /\ pc[c] = "wake" /\ Wake(c, p)
    /\ pc' = [pc EXCEPT ![c] = "check"]
    /\ UNCHANGED <<shared, space, client, page, buf, acc, res, next, ckpt>>
  BY DEF IInv, TypeOK, WakePage, Goto
<1> USE DEF shared, space, client
<1>w. /\ st' \in [Threads -> ThreadStates]
      /\ \A t \in Threads : st'[t] = "wp" => st[t] = "wp" /\ ~(Owner[t] = c /\ acc[t].page = p)
  BY WakeFacts
<1>1. TypeOK'
  BY <1>w DEF IInv, TypeOK, PCs
<1>2. LoaderExclusive'
  <2>1. \A d \in Clients, q \in Pages : Loads(d, q)' <=> Loads(d, q)
    BY HandlerTypes DEF IInv, Loads, LoaderPCs
  <2> QED
    BY <2>1, LoaderFrame DEF IInv
<1>3. ReadyIsCached'
  BY HandlerTypes DEF IInv, ReadyIsCached
<1>4. PrivateIsDirty'
  BY HandlerTypes DEF IInv, PrivateIsDirty
<1>5. HandlerNeverFaults'
  BY HandlerTypes DEF IInv, HandlerNeverFaults
<1>6. WpPending'
  BY <1>w, HandlerTypes, ThreadTypes DEF IInv, WpPending, EndPCs
<1> QED
  BY <1>1, <1>2, <1>3, <1>4, <1>5, <1>6 DEF IInv

(* handle_wp_fault takes its copy of the protected page. *)
LEMMA SnapshotStep == ASSUME IInv, NEW c \in Clients, Snapshot(c) PROVE IInv'
<1> USE DEF Snapshot, Goto, shared, space, client, thread
<1>1. TypeOK'
  <2>1. Mapped(c, page[c]) \in Contents
    BY DEF IInv, TypeOK, HandlerNeverFaults, Mapped
  <2> QED
    BY <2>1 DEF IInv, TypeOK, PCs, CowPCs
<1>2. LoaderExclusive'
  <2>1. \A d \in Clients, q \in Pages : Loads(d, q)' <=> Loads(d, q)
    BY HandlerTypes DEF IInv, Loads, LoaderPCs, EndPCs
  <2> QED
    BY <2>1, LoaderFrame DEF IInv
<1>3. ReadyIsCached'
  BY HandlerTypes DEF IInv, ReadyIsCached
<1>4. PrivateIsDirty'
  BY HandlerTypes DEF IInv, PrivateIsDirty
<1>5. HandlerNeverFaults'
  BY HandlerTypes DEF IInv, HandlerNeverFaults
<1>6. WpPending'
  BY HandlerTypes, ThreadTypes DEF IInv, WpPending, EndPCs
<1> QED
  BY <1>1, <1>2, <1>3, <1>4, <1>5, <1>6 DEF IInv

(* The protection goes; who still sleeps on it will be woken by this       *)
(* handler.                                                                *)
LEMMA ClearWriteProtectStep ==
  ASSUME IInv, NEW c \in Clients, ClearWriteProtect(c) PROVE IInv'
<1> page[c] \in Pages /\ pc[c] = "writeprotect"
  BY DEF IInv, TypeOK, ClearWriteProtect
<1> USE DEF ClearWriteProtect, Goto, shared, client, thread
<1>1. TypeOK'
  BY DEF IInv, TypeOK, PCs, CowPCs
<1>2. LoaderExclusive'
  <2>1. \A d \in Clients, q \in Pages : Loads(d, q)' <=> Loads(d, q)
    BY HandlerTypes DEF IInv, Loads, LoaderPCs, EndPCs
  <2> QED
    BY <2>1, LoaderFrame DEF IInv
<1>3. ReadyIsCached'
  BY HandlerTypes DEF IInv, ReadyIsCached
<1>4. PrivateIsDirty'
  BY HandlerTypes DEF IInv, PrivateIsDirty, HandlerNeverFaults
<1>5. HandlerNeverFaults'
  BY HandlerTypes DEF IInv, HandlerNeverFaults
<1>6. WpPending'
  BY HandlerTypes, ThreadTypes DEF IInv, WpPending, EndPCs
<1> QED
  BY <1>1, <1>2, <1>3, <1>4, <1>5, <1>6 DEF IInv

(* The private page replaces the shared one, unmarked until "mark". *)
LEMMA RemapPrivateStep ==
  ASSUME IInv, NEW c \in Clients, RemapPrivate(c) PROVE IInv'
<1> page[c] \in Pages /\ pc[c] = "remap"
  BY DEF IInv, TypeOK, RemapPrivate
<1> USE DEF RemapPrivate, Goto, shared, client, thread
<1>1. TypeOK'
  BY ContentFacts DEF IInv, TypeOK, PCs, CowPCs
<1>2. LoaderExclusive'
  <2>1. \A d \in Clients, q \in Pages : Loads(d, q)' <=> Loads(d, q)
    BY HandlerTypes DEF IInv, Loads, LoaderPCs, EndPCs
  <2> QED
    BY <2>1, LoaderFrame DEF IInv
<1>3. ReadyIsCached'
  BY HandlerTypes DEF IInv, ReadyIsCached
<1>4. PrivateIsDirty'
  BY HandlerTypes DEF IInv, PrivateIsDirty, HandlerNeverFaults
<1>5. HandlerNeverFaults'
  BY HandlerTypes DEF IInv, HandlerNeverFaults
<1>6. WpPending'
  BY HandlerTypes, ThreadTypes DEF IInv, WpPending, EndPCs
<1> QED
  BY <1>1, <1>2, <1>3, <1>4, <1>5, <1>6 DEF IInv

LEMMA CopyBackStep == ASSUME IInv, NEW c \in Clients, CopyBack(c) PROVE IInv'
<1> page[c] \in Pages /\ pc[c] = "copyback"
  BY DEF IInv, TypeOK, CopyBack
<1> USE DEF CopyBack, Goto, shared, client, thread
<1>1. TypeOK'
  BY ContentFacts DEF IInv, TypeOK, PCs, CowPCs
<1>2. LoaderExclusive'
  <2>1. \A d \in Clients, q \in Pages : Loads(d, q)' <=> Loads(d, q)
    BY HandlerTypes DEF IInv, Loads, LoaderPCs, EndPCs
  <2> QED
    BY <2>1, LoaderFrame DEF IInv
<1>3. ReadyIsCached'
  BY HandlerTypes DEF IInv, ReadyIsCached
<1>4. PrivateIsDirty'
  BY HandlerTypes DEF IInv, PrivateIsDirty
<1>5. HandlerNeverFaults'
  BY HandlerTypes DEF IInv, HandlerNeverFaults
<1>6. WpPending'
  BY HandlerTypes, ThreadTypes DEF IInv, WpPending, EndPCs
<1> QED
  BY <1>1, <1>2, <1>3, <1>4, <1>5, <1>6 DEF IInv

(* The page is private, so marking it is right; it is in the memfd too, so *)
(* the wake-up that follows is.                                            *)
LEMMA MarkPrivateDirtyStep ==
  ASSUME IInv, NEW c \in Clients, MarkPrivateDirty(c) PROVE IInv'
<1> page[c] \in Pages /\ pc[c] = "mark" /\ map[c][page[c]] = "priv"
  BY DEF IInv, TypeOK, HandlerNeverFaults, MarkPrivateDirty
<1> USE DEF MarkPrivateDirty, Goto, shared, space, thread
<1>1. TypeOK'
  BY DEF IInv, TypeOK, PCs
<1>2. LoaderExclusive'
  <2>1. \A d \in Clients, q \in Pages : Loads(d, q)' <=> Loads(d, q)
    BY HandlerTypes DEF IInv, Loads, LoaderPCs, EndPCs
  <2> QED
    BY <2>1, LoaderFrame DEF IInv
<1>3. ReadyIsCached'
  BY HandlerTypes DEF IInv, ReadyIsCached, HandlerNeverFaults
<1>4. PrivateIsDirty'
  BY HandlerTypes, SMTT(20) DEF IInv, PrivateIsDirty
<1>5. HandlerNeverFaults'
  BY HandlerTypes DEF IInv, HandlerNeverFaults
<1>6. WpPending'
  BY HandlerTypes, ThreadTypes DEF IInv, WpPending, EndPCs
<1> QED
  BY <1>1, <1>2, <1>3, <1>4, <1>5, <1>6 DEF IInv

(* A dead loader is still the one the page waits for. *)
LEMMA CrashStep == ASSUME IInv, NEW c \in Clients, Crash(c) PROVE IInv'
<1> pc[c] \notin EndPCs
  BY DEF Crash
<1> USE DEF Crash, Goto, shared
<1>1. TypeOK'
  BY DEF IInv, TypeOK, PCs, EndPCs, ThreadStates
<1>2. LoaderExclusive'
  <2>1. \A d \in Clients, q \in Pages : Loads(d, q)' <=> Loads(d, q)
    BY HandlerTypes DEF IInv, Loads, LoaderPCs, EndPCs
  <2> QED
    BY <2>1, LoaderFrame DEF IInv
<1>3. ReadyIsCached'
  BY HandlerTypes DEF IInv, ReadyIsCached
<1>4. PrivateIsDirty'
  BY HandlerTypes, SMTT(20) DEF IInv, PrivateIsDirty
<1>5. HandlerNeverFaults'
  BY HandlerTypes DEF IInv, HandlerNeverFaults
<1>6. WpPending'
  BY HandlerTypes, ThreadTypes DEF IInv, WpPending, EndPCs
<1> QED
  BY <1>1, <1>2, <1>3, <1>4, <1>5, <1>6 DEF IInv

(* Setting the stop flag and joining touch nothing the invariant relates. *)
LEMMA StopStep ==
  ASSUME IInv, NEW c \in Clients, StopHandler(c) \/ Join(c) PROVE IInv'
<1> /\ stop' \in [Clients -> BOOLEAN] /\ joined' \in [Clients -> BOOLEAN]
    /\ UNCHANGED <<state, cache, map, anon, dirty, pc, page, buf, st, acc, res, next, ckpt>>
  BY DEF StopHandler, Join, shared, space, handler, thread, IInv, TypeOK
<1>1. TypeOK'
  BY DEF IInv, TypeOK
<1>2. LoaderExclusive'
  <2>1. \A d \in Clients, q \in Pages : Loads(d, q)' <=> Loads(d, q)
    BY HandlerTypes DEF IInv, Loads, LoaderPCs, EndPCs
  <2> QED
    BY <2>1, LoaderFrame DEF IInv
<1>3. ReadyIsCached'
  BY DEF IInv, ReadyIsCached
<1>4. PrivateIsDirty'
  BY DEF IInv, PrivateIsDirty
<1>5. HandlerNeverFaults'
  BY DEF IInv, HandlerNeverFaults
<1>6. WpPending'
  BY DEF IInv, WpPending
<1> QED
  BY <1>1, <1>2, <1>3, <1>4, <1>5, <1>6 DEF IInv

-----------------------------------------------------------------------------
(* Steps of the application threads and of the kernel *)

(* What a step of an application thread, or a touch through an             *)
(* unregistered mapping, does to the invariant: the state words and the    *)
(* handlers stay, no page leaves the memfd, an entry changes only from     *)
(* "none" to "rw" and only where the memfd has the page, and a thread goes *)
(* to sleep on write protection only if the page is protected.             *)
LEMMA ThreadFrame ==
  ASSUME IInv, TypeOK', UNCHANGED <<state, client, handler>>,
         \A p \in Pages : cache[p] # Absent => cache'[p] # Absent,
         \A c \in Clients, p \in Pages :
           map'[c][p] # map[c][p] =>
             map[c][p] = "none" /\ map'[c][p] = "rw" /\ cache[p] # Absent,
         \A t \in Threads :
           st'[t] = "wp" =>
             \/ st[t] = "wp" /\ acc'[t] = acc[t]
             \/ map[Owner[t]][acc'[t].page] = "wp"
  PROVE  IInv'
<1> USE DEF client, handler
<1>1. LoaderExclusive'
  <2>1. \A d \in Clients, q \in Pages : Loads(d, q)' <=> Loads(d, q)
    BY DEF IInv, TypeOK, Loads, LoaderPCs, EndPCs
  <2> QED
    BY <2>1, LoaderFrame DEF IInv
<1>2. ReadyIsCached'
  BY DEF IInv, TypeOK, ReadyIsCached
<1>3. \A c \in Clients, p \in Pages : map[c][p] # "none" => map'[c][p] = map[c][p]
  OBVIOUS
<1>4. PrivateIsDirty'
  <2>1. \A c \in Clients, p \in Pages : map'[c][p] = "priv" <=> map[c][p] = "priv"
    BY <1>3
  <2> QED
    BY <2>1 DEF IInv, PrivateIsDirty
<1>5. HandlerNeverFaults'
  <2>1. \A c \in Clients, p \in Pages : map'[c][p] # "none" => cache'[p] # Absent
    BY SMTT(20) DEF IInv, HandlerNeverFaults
  <2>2. \A c \in Clients : page[c] \in Pages
    BY DEF IInv, TypeOK
  <2> QED
    BY <1>3, <2>1, <2>2, SMTT(20) DEF IInv, HandlerNeverFaults
<1>6. WpPending'
  <2> SUFFICES ASSUME NEW t \in Threads, st'[t] = "wp"
               PROVE  \/ map'[Owner[t]][acc'[t].page] = "wp"
                      \/ /\ page[Owner[t]] = acc'[t].page
                         /\ pc[Owner[t]] \in {"remap", "copyback", "mark", "wake"}
                      \/ pc[Owner[t]] \in EndPCs
    BY DEF WpPending
  <2>a. acc'[t] \in Accesses
    BY DEF TypeOK
  <2> acc'[t].page \in Pages
    BY <2>a DEF Accesses
  <2> Owner[t] \in Clients
    BY ConstantsOK
  <2>1. CASE st[t] = "wp" /\ acc'[t] = acc[t]
    <3>1. \/ map[Owner[t]][acc[t].page] = "wp"
          \/ page[Owner[t]] = acc[t].page /\ pc[Owner[t]] \in {"remap", "copyback", "mark", "wake"}
          \/ pc[Owner[t]] \in EndPCs
      BY <2>1 DEF IInv, WpPending
    <3> QED
      BY <1>3, <2>1, <3>1
  <2>2. CASE map[Owner[t]][acc'[t].page] = "wp"
    BY <1>3, <2>2
  <2> QED
    BY <2>1, <2>2
<1> QED
  BY <1>1, <1>2, <1>4, <1>5, <1>6 DEF IInv

LEMMA IssueStep ==
  ASSUME IInv, NEW t \in Threads, NEW a \in Accesses, Issue(t, a) PROVE IInv'
<1> USE DEF Issue, shared, space, client, handler
<1>1. TypeOK'
  BY DEF IInv, TypeOK, ThreadStates
<1>2. \A u \in Threads : st'[u] = "wp" => st[u] = "wp" /\ acc'[u] = acc[u]
  BY DEF IInv, TypeOK
<1> QED
  BY <1>1, <1>2, ThreadFrame

(* A fault puts the thread to sleep and does nothing else. *)
LEMMA FaultStep ==
  ASSUME IInv, NEW t \in Threads, NEW kind \in {"missing", "wp"}, Fault(t, kind),
         kind = "wp" => map[Owner[t]][acc[t].page] = "wp"
  PROVE  IInv'
<1> USE DEF Fault, shared, space, client, handler
<1>1. TypeOK'
  BY DEF IInv, TypeOK, ThreadStates
<1>2. \A u \in Threads : st'[u] = "wp" => st[u] = "wp" \/ map[Owner[u]][acc[u].page] = "wp"
  BY DEF IInv, TypeOK
<1> QED
  BY <1>1, <1>2, ThreadFrame

(* An access that completes finds the page in the memfd. *)
LEMMA CompleteStep ==
  ASSUME IInv, NEW t \in Threads, NEW m \in Contents, NEW n \in {"wp", "rw", "priv"},
         Complete(t, m, n),
         LET old == map[Owner[t]][acc[t].page]
         IN  old = n \/ (old = "none" /\ n = "rw" /\ cache[acc[t].page] # Absent)
  PROVE  IInv'
<1> DEFINE c == Owner[t]
           a == acc[t]
           w == [m EXCEPT ![a.off] = t]
<1> /\ c \in Clients /\ a \in Accesses /\ a.page \in Pages /\ a.off \in Offsets
    /\ m[a.off] \in Cells /\ w \in Contents
  BY ContentFacts, ConstantsOK DEF IInv, TypeOK, Accesses
<1>1. /\ st' = [st EXCEPT ![t] = "idle"]
      /\ map' = [map EXCEPT ![c][a.page] = n]
      /\ cache' = cache \/ cache' = [cache EXCEPT ![a.page] = w]
      /\ anon' = anon \/ anon' = [anon EXCEPT ![c][a.page] = w]
      /\ res' = res \/ res' = [res EXCEPT ![t] = m[a.off]]
      /\ UNCHANGED <<state, client, handler, acc, next, ckpt>>
  BY DEF Complete
<1>2. TypeOK'
  <2>1. cache' \in [Pages -> Contents \cup {Absent}]
    <3>1. [cache EXCEPT ![a.page] = w] \in [Pages -> Contents \cup {Absent}]
      <4> HIDE DEF w
      <4> QED
        BY DEF IInv, TypeOK
    <3> QED
      BY <1>1, <3>1 DEF IInv, TypeOK
  <2>2. anon' \in [Clients -> [Pages -> Contents]]
    <3>1. [anon EXCEPT ![c][a.page] = w] \in [Clients -> [Pages -> Contents]]
      <4> HIDE DEF w
      <4> QED
        BY DEF IInv, TypeOK
    <3> QED
      BY <1>1, <3>1 DEF IInv, TypeOK
  <2>3. res' \in [Threads -> Cells \cup {NoRead}]
    BY <1>1 DEF IInv, TypeOK
  <2>4. st' \in [Threads -> ThreadStates] /\ map' \in [Clients -> [Pages -> {"none", "wp", "rw", "priv"}]]
    BY <1>1 DEF IInv, TypeOK, ThreadStates
  <2> QED
    BY <1>1, <2>1, <2>2, <2>3, <2>4 DEF IInv, TypeOK, client, handler
<1>3. \A p \in Pages : cache[p] # Absent => cache'[p] # Absent
  BY <1>1, ContentFacts DEF IInv, TypeOK
<1>4. \A d \in Clients, p \in Pages :
        map'[d][p] # map[d][p] => map[d][p] = "none" /\ map'[d][p] = "rw" /\ cache[p] # Absent
  BY <1>1, HandlerTypes DEF IInv
<1>5. \A u \in Threads : st'[u] = "wp" => st[u] = "wp" /\ acc'[u] = acc[u]
  BY <1>1 DEF IInv, TypeOK
<1> QED
  BY <1>1, <1>2, <1>3, <1>4, <1>5, ThreadFrame

LEMMA AccessStep == ASSUME IInv, NEW t \in Threads, Access(t) PROVE IInv'
<1> DEFINE c == Owner[t]
           p == acc[t].page
<1> c \in Clients /\ p \in Pages
  BY ThreadTypes DEF IInv
<1> map[c][p] \in {"none", "wp", "rw", "priv"}
  BY HandlerTypes DEF IInv
<1>1. cache[p] # Absent => cache[p] \in Contents
  BY DEF IInv, TypeOK
<1>2. map[c][p] # "none" => cache[p] # Absent
  BY DEF IInv, HandlerNeverFaults
<1>3. anon[c][p] \in Contents
  BY DEF IInv, TypeOK
<1>4. CASE map[c][p] = "none" /\ cache[p] = Absent
  BY <1>4, FaultStep DEF Access
<1>5. CASE map[c][p] = "none" /\ cache[p] # Absent
  BY <1>1, <1>5, CompleteStep DEF Access
<1>6. CASE map[c][p] = "wp"
  BY <1>1, <1>2, <1>6, FaultStep, CompleteStep DEF Access
<1>7. CASE map[c][p] = "rw"
  BY <1>1, <1>2, <1>7, CompleteStep DEF Access
<1>8. CASE map[c][p] = "priv"
  BY <1>3, <1>8, CompleteStep DEF Access
<1> QED
  BY <1>4, <1>5, <1>6, <1>7, <1>8

(* A checkpoint reads dirty pages, which are private. *)
LEMMA ExportStep ==
  ASSUME IInv, NEW t \in Threads, StartExport(t) \/ ExportPage(t) \/ FinishExport(t)
  PROVE  IInv'
<1> Owner[t] \in Clients
  BY ConstantsOK
<1>a. \A p \in Pages : anon[Owner[t]][p] \in Contents
  BY DEF IInv, TypeOK
<1>1. CASE StartExport(t)
  <2> USE <1>1 DEF StartExport, shared, space, client, handler
  <2>1. TypeOK'
    BY DEF IInv, TypeOK, ThreadStates
  <2>2. \A u \in Threads : st'[u] = "wp" => st[u] = "wp"
    BY DEF IInv, TypeOK
  <2> QED
    BY <2>1, <2>2, ThreadFrame
<1>2. CASE ExportPage(t)
  <2> USE <1>2 DEF ExportPage, shared, space, client, handler
  <2>a. next[t] \in 0 .. PageCount /\ next[t] < PageCount
    BY DEF IInv, TypeOK
  <2>1. next[t] \in Pages
    BY <2>a, ConstantsOK DEF Pages
  <2>2. next[t] \in dirty[Owner[t]] => Mapped(Owner[t], next[t]) \in Contents
    <3>1. anon[Owner[t]][next[t]] \in Contents
      BY <1>a, <2>1
    <3>2. next[t] \in dirty[Owner[t]] => map[Owner[t]][next[t]] = "priv"
      BY <2>1 DEF IInv, PrivateIsDirty
    <3> QED
      BY <3>1, <3>2 DEF Mapped
  <2>3. TypeOK'
    BY <2>1, <2>2, ContentFacts DEF IInv, TypeOK
  <2> QED
    BY <2>3, ThreadFrame
<1>3. CASE FinishExport(t)
  <2> USE <1>3 DEF FinishExport, shared, space, client, handler
  <2>1. TypeOK'
    <3>1. 0 \in 0 .. PageCount
      BY ConstantsOK
    <3>2. [p \in Pages |-> Absent] \in [Pages -> Contents \cup {Absent}]
      OBVIOUS
    <3> QED
      BY <3>1, <3>2 DEF IInv, TypeOK, ThreadStates
  <2>2. \A u \in Threads : st'[u] = "wp" => st[u] = "wp"
    BY DEF IInv, TypeOK
  <2> QED
    BY <2>1, <2>2, ThreadFrame
<1> QED
  BY <1>1, <1>2, <1>3

LEMMA UnregisteredTouchStep ==
  ASSUME IInv, NEW p \in Pages, UnregisteredTouch(p) PROVE IInv'
<1> USE DEF UnregisteredTouch, space, client, handler, thread
<1>1. TypeOK' /\ \A q \in Pages : cache[q] # Absent => cache'[q] # Absent
  BY ContentFacts DEF IInv, TypeOK
<1> QED
  BY <1>1, ThreadFrame

-----------------------------------------------------------------------------
LEMMA HandlerStepIInv == ASSUME IInv, NEW c \in Clients, HandlerStep(c) PROVE IInv'
BY LoopStep, ReadMessageStep, CompareExchangeStep, LoadingStep, CopyPageStep,
   PublishStep, SpinDoneStep, WakePageStep, SnapshotStep, ClearWriteProtectStep,
   RemapPrivateStep, CopyBackStep, MarkPrivateDirtyStep, CowErrorStep
   DEF HandlerStep

LEMMA NextIInv == IInv /\ [Next]_vars => IInv'
<1> SUFFICES ASSUME IInv, [Next]_vars PROVE IInv'
  OBVIOUS
<1>1. ASSUME NEW c \in Clients, HandlerStep(c) \/ PollTimeout(c) PROVE IInv'
  BY <1>1, HandlerStepIInv, LoopStep
<1>2. ASSUME NEW c \in Clients, StartHandler(c) \/ StopHandler(c) \/ Join(c) \/ Crash(c)
      PROVE  IInv'
  BY <1>2, LoopStep, StopStep, CrashStep
<1>3. ASSUME NEW t \in Threads, ThreadStep(t) \/ StartExport(t) PROVE IInv'
  BY <1>3, AccessStep, ExportStep DEF ThreadStep
<1>4. ASSUME NEW t \in Threads, NEW a \in Accesses, Issue(t, a) PROVE IInv'
  BY <1>4, IssueStep
<1>5. ASSUME NEW p \in Pages, UnregisteredTouch(p) PROVE IInv'
  BY <1>5, UnregisteredTouchStep
<1>6. CASE UNCHANGED vars
  <2> USE <1>6 DEF vars
  <2>1. TypeOK'
    BY DEF IInv, TypeOK
  <2> QED
    BY <2>1, ThreadFrame DEF client, handler
<1> QED
  BY <1>1, <1>2, <1>3, <1>4, <1>5, <1>6 DEF Next

(* The inductive invariant holds in every reachable state, for any number  *)
(* of clients, threads and pages and whatever fails.                       *)
THEOREM Invariance == Spec => []IInv
BY InitIInv, NextIInv, PTL DEF Spec

(* Variables have their types: in particular no handler and no checkpoint  *)
(* ever copies a page that is not there.                                   *)
THEOREM TypeCorrect == Spec => []TypeOK
<1>1. IInv => TypeOK
  BY DEF IInv
<1> QED
  BY <1>1, Invariance, PTL

(* At most one handler loads a page, and a page is LOADING only while one  *)
(* does (handle_missing_fault's compare-and-swap).                         *)
THEOREM Exclusion == Spec => []LoaderExclusive
<1>1. IInv => LoaderExclusive
  BY DEF IInv
<1> QED
  BY <1>1, Invariance, PTL

(* SHARED_READY is stored, and sleepers are woken, only with the page in   *)
(* the memfd.                                                              *)
THEOREM ReadyPagesCached == Spec => []ReadyIsCached
<1>1. IInv => ReadyIsCached
  BY DEF IInv
<1> QED
  BY <1>1, Invariance, PTL

(* mark_private_dirty marks the private pages and only these. *)
THEOREM DirtyExact == Spec => []PrivateIsDirty
<1>1. IInv => PrivateIsDirty
  BY DEF IInv
<1> QED
  BY <1>1, Invariance, PTL

(* handle_wp_fault never faults on the page it copies. *)
THEOREM NoHandlerFault == Spec => []HandlerNeverFaults
<1>1. IInv => HandlerNeverFaults
  BY DEF IInv
<1> QED
  BY <1>1, Invariance, PTL

(* A thread asleep on write protection sleeps on a protected page, is      *)
(* about to be woken by handle_wp_fault, or has lost its handler.          *)
THEOREM NoStaleMessage == Spec => []WpPending
<1>1. IInv => WpPending
  BY DEF IInv
<1> QED
  BY <1>1, Invariance, PTL
-----------------------------------------------------------------------------
(* A client alone with the template: one process with one thread, and no   *)
(* mapping of the memfd that is not registered.  Then the library keeps    *)
(* its promise.  (With a second client a page that is in the memfd is      *)
(* mapped without write protection: TemplateReadOnly fails.)               *)

Alone == ~EarlyTouch /\ \E c, t : Clients = {c} /\ Threads = {t}

(* While the handler serves a fault its thread sleeps. *)
ServingPCs == {"cas", "spin", "read_page", "copy", "wake"} \cup CowPCs

(* The page is client c's own copy, and not the one being filled. *)
OwnPage(c, p) == map[c][p] = "priv" /\ ~(page[c] = p /\ pc[c] = "copyback")

(* A page in the memfd is mapped, and writable only while the handler      *)
(* replaces it, so the memfd keeps the template; the buffer holds the      *)
(* template's page too.                                                    *)
SharedInv(c, t) ==
  /\ \A p \in Pages : cache[p] \in {Absent, BackendPage(p)}
  /\ st[t] # "dead" => \A p \in Pages : cache[p] # Absent => map[c][p] # "none"
  /\ \A p \in Pages : map[c][p] = "rw" =>
       st[t] = "claimed" /\ page[c] = p /\ pc[c] \in {"remap"} \cup EndPCs
  /\ pc[c] \in {"copy", "writeprotect", "remap", "copyback"} => buf[c] = BackendPage(page[c])

FaultInv(c, t) ==
  /\ pc[c] \in ServingPCs => st[t] = "claimed" /\ acc[t].page = page[c]
  /\ st[t] = "dead" => pc[c] \in EndPCs

(* The pages exported so far are the client's. *)
ExportInv(c, t) ==
  /\ st[t] \notin {"export", "dead"} => next[t] = 0
  /\ st[t] = "export" =>
       \A p \in Pages : p < next[t] =>
         ckpt[t][p] = IF OwnPage(c, p) THEN anon[c][p] ELSE Absent

SInv(c, t) == SharedInv(c, t) /\ FaultInv(c, t) /\ ExportInv(c, t)

(* What client c finds at page p, and that a step leaves it. *)
Content(c, p) == IF OwnPage(c, p) THEN anon[c][p] ELSE BackendPage(p)
Kept(c) == \A p \in Pages : Content(c, p)' = Content(c, p)

LEMMA AloneFacts ==
  ASSUME Alone, NEW c \in Clients, NEW t \in Threads
  PROVE  Clients = {c} /\ Threads = {t} /\ Owner[t] = c /\ ~EarlyTouch
BY ConstantsOK DEF Alone

LEMMA ContentIsView ==
  ASSUME IInv, NEW c \in Clients, NEW t \in Threads, SInv(c, t), NEW p \in Pages
  PROVE  View(c, p) = Content(c, p)
<1> /\ cache[p] \in {Absent, BackendPage(p)}
    /\ pc[c] = "copyback" => buf[c] = BackendPage(page[c]) /\ map[c][page[c]] = "priv"
  BY DEF SInv, SharedInv, IInv, HandlerNeverFaults
<1>1. CASE page[c] = p /\ pc[c] = "copyback"
  BY <1>1 DEF View, Content, OwnPage
<1>2. CASE map[c][p] = "priv" /\ ~(page[c] = p /\ pc[c] = "copyback")
  BY <1>2 DEF View, Content, OwnPage
<1>3. CASE map[c][p] # "priv" /\ cache[p] # Absent
  BY <1>3 DEF View, Content, OwnPage
<1>4. CASE map[c][p] # "priv" /\ cache[p] = Absent /\ ~(page[c] = p /\ pc[c] = "copyback")
  BY <1>4 DEF View, Content, OwnPage
<1> QED
  BY <1>1, <1>2, <1>3, <1>4

(* A handler moves on, and perhaps fills its buffer. *)
LEMMA AloneMoves ==
  ASSUME IInv, NEW c \in Clients, NEW t \in Threads, SInv(c, t), NEW l \in PCs,
         pc[c] \notin EndPCs \cup {"copyback"}, l \notin {"remap", "copyback"},
         pc[c] = "remap" => l \in EndPCs,
         l \in ServingPCs => pc[c] \in ServingPCs,
         l \in {"copy", "writeprotect"} => buf'[c] = BackendPage(page[c]),
         pc' = [pc EXCEPT ![c] = l],
         UNCHANGED <<cache, map, anon, page, st, acc, next, ckpt>>
  PROVE  SInv(c, t)' /\ Kept(c)
<1>1. pc'[c] = l
  BY HandlerTypes DEF IInv
<1>2. \A p \in Pages : OwnPage(c, p)' <=> OwnPage(c, p)
  BY <1>1 DEF OwnPage
<1>3. SharedInv(c, t)'
  BY <1>1 DEF SInv, SharedInv
<1>4. FaultInv(c, t)'
  BY <1>1 DEF SInv, FaultInv
<1>5. ExportInv(c, t)'
  BY <1>2 DEF SInv, ExportInv
<1>6. Kept(c)
  BY <1>2 DEF Kept, Content
<1> QED
  BY <1>3, <1>4, <1>5, <1>6 DEF SInv

LEMMA AloneLoop ==
  ASSUME IInv, NEW c \in Clients, NEW t \in Threads, SInv(c, t),
         \/ StartHandler(c) \/ CheckStop(c) \/ PollTimeout(c) \/ PollError(c)
         \/ CompareExchange(c) \/ ReadPageError(c) \/ CopyError(c) \/ SpinDone(c) \/ WakeError(c)
         \/ SnapshotError(c) \/ ClearWriteProtectError(c) \/ RemapError(c)
         \/ Publish(c) \/ MarkPrivateDirty(c)
  PROVE  SInv(c, t)' /\ Kept(c)
<1> USE DEF Goto, Fail, shared, space, client, thread, handler, ServingPCs, LoaderPCs, CowPCs, EndPCs
<1>1. PICK l \in PCs :
        /\ pc[c] \notin EndPCs \cup {"copyback"} /\ l \notin {"remap", "copyback", "copy", "writeprotect"}
        /\ pc[c] = "remap" => l \in EndPCs
        /\ l \in ServingPCs => pc[c] \in ServingPCs
        /\ pc' = [pc EXCEPT ![c] = l]
        /\ UNCHANGED <<cache, map, anon, page, st, acc, next, ckpt>>
  <2> USE DEF PCs
  <2>1. CASE StartHandler(c) \/ CheckStop(c) \/ PollTimeout(c) \/ PollError(c)
    BY <2>1 DEF StartHandler, CheckStop, PollTimeout, PollError
  <2>2. CASE CompareExchange(c)
    BY <2>2 DEF CompareExchange
  <2>3. CASE ReadPageError(c) \/ CopyError(c) \/ SpinDone(c) \/ WakeError(c)
    BY <2>3 DEF ReadPageError, CopyError, SpinDone, WakeError
  <2>4. CASE SnapshotError(c) \/ ClearWriteProtectError(c) \/ RemapError(c)
    BY <2>4 DEF SnapshotError, ClearWriteProtectError, RemapError
  <2>5. CASE Publish(c) \/ MarkPrivateDirty(c)
    BY <2>5 DEF Publish, MarkPrivateDirty
  <2> QED
    BY <2>1, <2>2, <2>3, <2>4, <2>5
<1> QED
  BY <1>1, AloneMoves

(* The buffer is filled from the backend, or with the page in the memfd.   *)
LEMMA AloneFill ==
  ASSUME IInv, NEW c \in Clients, NEW t \in Threads, SInv(c, t), ReadPage(c) \/ Snapshot(c)
  PROVE  SInv(c, t)' /\ Kept(c)
<1> page[c] \in Pages /\ buf \in [Clients -> Contents]
  BY DEF IInv, TypeOK
<1> "copy" \in PCs /\ "writeprotect" \in PCs
  BY DEF PCs, LoaderPCs, CowPCs
<1>1. CASE ReadPage(c)
  <2>1. buf'[c] = BackendPage(page[c]) /\ pc[c] = "read_page"
    BY <1>1 DEF ReadPage
  <2>2. "copy" \in ServingPCs /\ pc[c] \in ServingPCs /\ pc[c] \notin EndPCs
    BY <2>1 DEF ServingPCs, EndPCs
  <2> QED
    BY <1>1, <2>1, <2>2, AloneMoves DEF ReadPage, Goto, shared, space, thread
<1>2. CASE Snapshot(c)
  <2>1. pc[c] = "snapshot" /\ map[c][page[c]] = "wp" /\ cache[page[c]] # Absent
    BY <1>2 DEF Snapshot, IInv, HandlerNeverFaults
  <2>2. buf'[c] = BackendPage(page[c])
    BY <1>2, <2>1 DEF Snapshot, Mapped, SInv, SharedInv
  <2>3. "writeprotect" \in ServingPCs /\ pc[c] \in ServingPCs /\ pc[c] \notin EndPCs
    BY <2>1 DEF ServingPCs, EndPCs, CowPCs
  <2> QED
    BY <1>2, <2>1, <2>2, <2>3, AloneMoves DEF Snapshot, Goto, shared, space, thread
<1> QED
  BY <1>1, <1>2
(* From here c is the client and t its thread. *)
LEMMA AloneReadMessage ==
  ASSUME Alone, IInv, NEW c \in Clients, NEW t \in Threads, SInv(c, t), ReadMessage(c)
  PROVE  SInv(c, t)' /\ Kept(c)
<1>1. /\ pc[c] = "poll" /\ st[t] \in {"missing", "wp"} /\ st'[t] = "claimed"
      /\ page'[c] = acc[t].page /\ pc'[c] \in {"snapshot", "cas"}
      /\ UNCHANGED <<cache, map, anon, buf, acc, next, ckpt>>
  BY AloneFacts, HandlerTypes, ThreadTypes DEF ReadMessage, Goto, IInv, shared, space
<1>2. \A p \in Pages : OwnPage(c, p)' <=> OwnPage(c, p)
  BY <1>1 DEF OwnPage
<1>3. SharedInv(c, t)'
  BY <1>1 DEF SInv, SharedInv, EndPCs
<1>4. FaultInv(c, t)' /\ ExportInv(c, t)'
  BY <1>1 DEF SInv, FaultInv, ExportInv
<1> QED
  BY <1>1, <1>2, <1>3, <1>4 DEF SInv, Kept, Content

(* The thread is woken, and its page is there and mapped. *)
LEMMA AloneWake ==
  ASSUME Alone, NEW c \in Clients, NEW t \in Threads, IInv, SInv(c, t),
         pc[c] \in ServingPCs, Wake(c, page[c])
  PROVE  st[t] = "claimed" /\ st'[t] = "access"
BY AloneFacts DEF Wake, Asleep, SInv, FaultInv

LEMMA AloneCopyPage ==
  ASSUME Alone, IInv, NEW c \in Clients, NEW t \in Threads, SInv(c, t), CopyPage(c)
  PROVE  SInv(c, t)' /\ Kept(c)
<1>1. /\ pc[c] = "copy" /\ pc'[c] = "publish" /\ Wake(c, page[c]) /\ page[c] \in Pages
      /\ UNCHANGED <<anon, page, acc, next, ckpt>>
  BY HandlerTypes DEF CopyPage, Goto, IInv
<1>2. st[t] = "claimed" /\ st'[t] = "access"
  BY <1>1, AloneWake DEF ServingPCs
<1>3. /\ \A p \in Pages : cache'[p] \in {Absent, BackendPage(p)}
      /\ \A p \in Pages : cache'[p] # Absent => map'[c][p] # "none"
      /\ \A p \in Pages : map'[c][p] \in {"rw", "priv"} \/ map[c][p] \in {"rw", "priv"} => map'[c][p] = map[c][p]
  <2>1. /\ buf[c] = BackendPage(page[c])
        /\ \A p \in Pages : cache[p] \in {Absent, BackendPage(p)}
        /\ \A p \in Pages : cache[p] # Absent => map[c][p] # "none"
    BY <1>1, <1>2 DEF SInv, SharedInv
  <2>2. CASE cache[page[c]] = Absent
    <3>1. /\ cache' = [cache EXCEPT ![page[c]] = buf[c]] /\ map' = [map EXCEPT ![c][page[c]] = "wp"]
          /\ map[c][page[c]] = "none"
      BY <1>1, <2>2 DEF CopyPage, IInv, TypeOK, HandlerNeverFaults
    <3>2. cache \in [Pages -> Contents \cup {Absent}] /\ map[c] \in [Pages -> {"none", "wp", "rw", "priv"}]
      BY DEF IInv, TypeOK
    <3>3. map'[c] = [map[c] EXCEPT ![page[c]] = "wp"]
      BY <3>1 DEF IInv, TypeOK
    <3> QED
      BY <1>1, <2>1, <3>1, <3>2, <3>3
  <2>3. CASE cache[page[c]] # Absent
    BY <2>1, <2>3 DEF CopyPage
  <2> QED
    BY <2>2, <2>3
<1>4. \A p \in Pages : OwnPage(c, p)' <=> OwnPage(c, p)
  BY <1>1, <1>3 DEF OwnPage
<1>5. SharedInv(c, t)'
  BY <1>1, <1>2, <1>3 DEF SInv, SharedInv, EndPCs
<1>6. FaultInv(c, t)' /\ ExportInv(c, t)'
  BY <1>1, <1>2 DEF SInv, FaultInv, ExportInv, ServingPCs, CowPCs
<1> QED
  BY <1>1, <1>4, <1>5, <1>6 DEF SInv, Kept, Content

LEMMA AloneWakePage ==
  ASSUME Alone, IInv, NEW c \in Clients, NEW t \in Threads, SInv(c, t), WakePage(c)
  PROVE  SInv(c, t)' /\ Kept(c)
<1>1. /\ pc[c] = "wake" /\ pc'[c] = "check" /\ Wake(c, page[c])
      /\ UNCHANGED <<cache, map, anon, page, buf, acc, next, ckpt>>
  BY HandlerTypes DEF WakePage, Goto, IInv, shared, space
<1>2. st[t] = "claimed" /\ st'[t] = "access"
  BY <1>1, AloneWake DEF ServingPCs
<1>3. \A p \in Pages : OwnPage(c, p)' <=> OwnPage(c, p)
  BY <1>1 DEF OwnPage
<1>4. SharedInv(c, t)'
  BY <1>1, <1>2 DEF SInv, SharedInv, EndPCs
<1>5. FaultInv(c, t)' /\ ExportInv(c, t)'
  BY <1>1, <1>2 DEF SInv, FaultInv, ExportInv, ServingPCs, CowPCs
<1> QED
  BY <1>1, <1>3, <1>4, <1>5 DEF SInv, Kept, Content

(* The three steps that replace a page: the client sees the same content   *)
(* before, during and after.                                               *)
LEMMA AloneReplace ==
  ASSUME Alone, IInv, NEW c \in Clients, NEW t \in Threads, SInv(c, t),
         ClearWriteProtect(c) \/ RemapPrivate(c) \/ CopyBack(c)
  PROVE  SInv(c, t)' /\ Kept(c)
<1>0. /\ page[c] \in Pages /\ map[c] \in [Pages -> {"none", "wp", "rw", "priv"}]
      /\ anon[c] \in [Pages -> Contents]
  BY DEF IInv, TypeOK
<1>1. /\ UNCHANGED <<cache, page, st, acc, next, ckpt>>
      /\ \/ /\ pc[c] = "writeprotect" /\ pc'[c] = "remap" /\ anon' = anon /\ buf' = buf
            /\ map'[c] = [map[c] EXCEPT ![page[c]] = "rw"] /\ map[c][page[c]] = "wp"
         \/ /\ pc[c] = "remap" /\ pc'[c] = "copyback" /\ buf' = buf
            /\ map'[c] = [map[c] EXCEPT ![page[c]] = "priv"] /\ map[c][page[c]] = "rw"
            /\ anon'[c] = [anon[c] EXCEPT ![page[c]] = ZeroPage]
         \/ /\ pc[c] = "copyback" /\ pc'[c] = "mark" /\ map' = map
            /\ map[c][page[c]] = "priv"
            /\ anon'[c] = [anon[c] EXCEPT ![page[c]] = buf[c]]
  <2> USE DEF Goto, shared, space, client, thread, IInv, TypeOK, HandlerNeverFaults
  <2>1. CASE ClearWriteProtect(c)
    BY <2>1 DEF ClearWriteProtect
  <2>2. CASE RemapPrivate(c)
    BY <2>2 DEF RemapPrivate
  <2>3. CASE CopyBack(c)
    BY <2>3 DEF CopyBack
  <2> QED
    BY <2>1, <2>2, <2>3
<1>2. st[t] = "claimed" /\ acc[t].page = page[c] /\ buf[c] = BackendPage(page[c])
  BY <1>1 DEF SInv, FaultInv, SharedInv, ServingPCs, CowPCs
<1>3. SharedInv(c, t)'
  BY <1>0, <1>1, <1>2 DEF SInv, SharedInv, EndPCs
<1>4. FaultInv(c, t)' /\ ExportInv(c, t)'
  BY <1>1, <1>2 DEF SInv, FaultInv, ExportInv
<1>5. Kept(c)
  BY <1>0, <1>1, <1>2 DEF Kept, Content, OwnPage
<1> QED
  BY <1>3, <1>4, <1>5 DEF SInv

(* stop_handler changes nothing of this; when the process dies its memory  *)
(* goes with it, and the memfd keeps the template.                         *)
LEMMA AloneStop ==
  ASSUME IInv, NEW c \in Clients, NEW t \in Threads, SInv(c, t),
         UNCHANGED <<cache, map, anon, handler, st, acc, next, ckpt>>
  PROVE  SInv(c, t)' /\ Kept(c)
BY DEF handler, SInv, SharedInv, FaultInv, ExportInv, Kept, Content, OwnPage

LEMMA AloneCrash ==
  ASSUME Alone, IInv, NEW c \in Clients, NEW t \in Threads, SInv(c, t), Crash(c)
  PROVE  SInv(c, t)'
<1>1. /\ pc'[c] \in EndPCs /\ st'[t] = "dead" /\ \A p \in Pages : map'[c][p] = "none"
      /\ UNCHANGED <<cache, page, buf>>
  BY AloneFacts, HandlerTypes DEF Crash, Goto, IInv, shared, EndPCs
<1> QED
  BY <1>1 DEF SInv, SharedInv, FaultInv, ExportInv, ServingPCs, CowPCs, EndPCs
-----------------------------------------------------------------------------
(* Steps of the thread.  It reads and writes what the promise says. *)

Reads(c, t) ==
  /\ Kept(c)
  /\ res' = [res EXCEPT ![t] = Content(c, acc[t].page)[acc[t].off]]
Writes(c, t) ==
  /\ \A p \in Pages :
       Content(c, p)' = IF p = acc[t].page THEN [Content(c, p) EXCEPT ![acc[t].off] = t]
                                           ELSE Content(c, p)
  /\ UNCHANGED res

(* A thread that does not sleep in a fault goes on; no page changes. *)
LEMMA AloneThreadMoves ==
  ASSUME IInv, NEW c \in Clients, NEW t \in Threads, SInv(c, t),
         st[t] \in {"idle", "access", "export"}, st'[t] \in {"idle", "access", "missing", "wp", "export"},
         st'[t] # "export" => next'[t] = 0,
         st'[t] = "export" => \A p \in Pages : p < next'[t] =>
                                ckpt'[t][p] = IF OwnPage(c, p) THEN anon[c][p] ELSE Absent,
         UNCHANGED <<cache, map, anon, handler>>
  PROVE  SInv(c, t)' /\ Kept(c)
<1> USE DEF handler
<1>1. \A p \in Pages : OwnPage(c, p)' <=> OwnPage(c, p)
  BY DEF OwnPage
<1>2. SharedInv(c, t)'
  BY DEF SInv, SharedInv
<1>3. FaultInv(c, t)'
  BY DEF SInv, FaultInv
<1>4. ExportInv(c, t)'
  BY <1>1 DEF ExportInv
<1> QED
  BY <1>1, <1>2, <1>3, <1>4 DEF SInv, Kept, Content

LEMMA AloneIssue ==
  ASSUME IInv, NEW c \in Clients, NEW t \in Threads, SInv(c, t),
         \/ \E a \in Accesses : Issue(t, a)
         \/ StartExport(t)
         \/ st[t] = "access" /\ \E kind \in {"missing", "wp"} : Fault(t, kind)
  PROVE  SInv(c, t)' /\ Kept(c)
<1> st \in [Threads -> ThreadStates]
  BY DEF IInv, TypeOK
<1>1. /\ st[t] \in {"idle", "access"} /\ st'[t] \in {"idle", "access", "missing", "wp", "export"}
      /\ UNCHANGED <<cache, map, anon, handler, next, ckpt>>
  BY DEF Issue, StartExport, Fault, shared, space
<1>2. next[t] = 0 /\ \A p \in Pages : ~(p < 0)
  BY <1>1, ConstantsOK DEF SInv, ExportInv, Pages
<1> QED
  BY <1>1, <1>2, AloneThreadMoves

LEMMA AloneExport ==
  ASSUME Alone, IInv, NEW c \in Clients, NEW t \in Threads, SInv(c, t),
         ExportPage(t) \/ FinishExport(t)
  PROVE  SInv(c, t)' /\ Kept(c)
<1>0. /\ st \in [Threads -> ThreadStates] /\ next \in [Threads -> 0 .. PageCount]
      /\ ckpt \in [Threads -> [Pages -> Contents \cup {Absent}]]
      /\ Owner[t] = c /\ st[t] = "export"
  BY AloneFacts DEF IInv, TypeOK, ExportPage, FinishExport
<1>1. CASE FinishExport(t)
  <2>1. st'[t] = "idle" /\ next'[t] = 0 /\ UNCHANGED <<cache, map, anon, handler>>
    BY <1>0, <1>1 DEF FinishExport, shared, space
  <2> QED
    BY <1>0, <2>1, AloneThreadMoves
<1>2. CASE ExportPage(t)
  <2>0. PICK n \in Pages : n = next[t]
    BY <1>0, <1>2, ConstantsOK DEF ExportPage, Pages
  <2>a. UNCHANGED <<cache, map, anon, handler, st>>
    BY <1>2 DEF ExportPage, shared, space
  <2>b. next'[t] = n + 1
    BY <1>0, <1>2, <2>0 DEF ExportPage
  <2>c. ckpt'[t] = [ckpt[t] EXCEPT ![n] = IF n \in dirty[c] THEN Mapped(c, n) ELSE Absent]
    BY <1>0, <1>2, <2>0 DEF ExportPage
  <2>1. /\ n = next[t] /\ next'[t] = n + 1
        /\ ckpt'[t] = [ckpt[t] EXCEPT ![n] = IF n \in dirty[c] THEN Mapped(c, n) ELSE Absent]
        /\ UNCHANGED <<cache, map, anon, handler, st>>
    BY <2>0, <2>a, <2>b, <2>c
  <2>2. pc[c] \notin {"copyback", "mark"}
    BY <1>0 DEF SInv, FaultInv, ServingPCs, CowPCs
  <2>3. n \in dirty[c] <=> OwnPage(c, n)
    BY <2>2 DEF IInv, PrivateIsDirty, OwnPage
  <2>4. ckpt'[t][n] = IF OwnPage(c, n) THEN anon[c][n] ELSE Absent
    BY <1>0, <2>1, <2>3 DEF Mapped, OwnPage
  <2>5. ASSUME NEW p \in Pages, p < next'[t]
        PROVE  ckpt'[t][p] = IF OwnPage(c, p) THEN anon[c][p] ELSE Absent
    <3>1. CASE p = n
      BY <2>4, <3>1
    <3>2. CASE p # n
      <4>1. p < next[t]
        BY <2>1, <2>5, <3>2, ConstantsOK DEF Pages
      <4>2. ckpt'[t][p] = ckpt[t][p]
        BY <1>0, <2>1, <3>2
      <4> QED
        BY <1>0, <4>1, <4>2 DEF SInv, ExportInv
    <3> QED
      BY <3>1, <3>2
  <2> QED
    BY <1>0, <2>1, <2>5, AloneThreadMoves
<1> QED
  BY <1>1, <1>2

(* An access that completes does so on a protected page it reads, or on a  *)
(* page of its own.                                                        *)
LEMMA AloneComplete ==
  ASSUME Alone, IInv, NEW c \in Clients, NEW t \in Threads, SInv(c, t), st[t] = "access",
         \/ acc[t].op = "read" /\ map[c][acc[t].page] = "wp" /\ Complete(t, cache[acc[t].page], "wp")
         \/ map[c][acc[t].page] = "priv" /\ Complete(t, anon[c][acc[t].page], "priv")
  PROVE  SInv(c, t)' /\ (Reads(c, t) \/ Writes(c, t))
<1> DEFINE a == acc[t]
<1>0. /\ a.page \in Pages /\ a.off \in Offsets /\ a.op \in {"read", "write"} /\ Owner[t] = c
      /\ st \in [Threads -> ThreadStates] /\ anon \in [Clients -> [Pages -> Contents]]
      /\ map \in [Clients -> [Pages -> {"none", "wp", "rw", "priv"}]]
  BY AloneFacts DEF IInv, TypeOK, Accesses
<1> HIDE DEF a
<1>1. next[t] = 0 /\ \A p \in Pages : ~(p < 0)
  BY ConstantsOK DEF SInv, ExportInv, Pages
<1>2. pc[c] # "copyback"
  BY DEF SInv, FaultInv, ServingPCs, CowPCs
<1>3. st'[t] = "idle" /\ UNCHANGED <<handler, acc, next, ckpt>>
  BY <1>0 DEF Complete
<1>4. map' = map
  BY <1>0 DEF Complete, a
<1>5. CASE a.op = "read"
  <2>1. /\ UNCHANGED <<cache, anon>>
        /\ res' = [res EXCEPT ![t] = Content(c, a.page)[a.off]]
    <3>1. map[c][a.page] = "wp" => cache[a.page] = BackendPage(a.page)
      BY <1>0 DEF IInv, HandlerNeverFaults, SInv, SharedInv
    <3> QED
      BY <1>2, <1>5, <3>1 DEF Complete, Content, OwnPage, a
  <2>2. SInv(c, t)' /\ Kept(c)
    BY <1>1, <1>3, <1>4, <2>1, AloneThreadMoves
  <2> QED
    BY <2>1, <2>2 DEF Reads, a
<1>6. CASE a.op # "read"
  <2>1. /\ map[c][a.page] = "priv" /\ UNCHANGED <<cache, res>>
        /\ anon' = [anon EXCEPT ![c][a.page] = [anon[c][a.page] EXCEPT ![a.off] = t]]
    BY <1>0, <1>6 DEF Complete, a
  <2>2. \A p \in Pages : anon'[c][p] = IF p = a.page THEN [anon[c][p] EXCEPT ![a.off] = t] ELSE anon[c][p]
    BY <1>0, <2>1
  <2>3. \A p \in Pages : OwnPage(c, p)' <=> OwnPage(c, p)
    BY <1>3, <1>4 DEF OwnPage, handler
  <2>4. OwnPage(c, a.page)
    BY <1>2, <2>1 DEF OwnPage
  <2>5. Writes(c, t)
    BY <2>1, <2>2, <2>3, <2>4 DEF Writes, Content, a
  <2>6. SharedInv(c, t)'
    BY <1>3, <1>4, <2>1 DEF SInv, SharedInv, handler
  <2>7. FaultInv(c, t)' /\ ExportInv(c, t)'
    BY <1>1, <1>3 DEF SInv, FaultInv, ExportInv, handler
  <2> QED
    BY <2>5, <2>6, <2>7 DEF SInv
<1> QED
  BY <1>5, <1>6

LEMMA AloneAccess ==
  ASSUME Alone, IInv, NEW c \in Clients, NEW t \in Threads, SInv(c, t), Access(t)
  PROVE  SInv(c, t)' /\ (Reads(c, t) \/ Writes(c, t) \/ (Kept(c) /\ UNCHANGED res))
<1> DEFINE a == acc[t]
<1>0. /\ a.page \in Pages /\ a.op \in {"read", "write"} /\ Owner[t] = c /\ st[t] = "access"
  BY AloneFacts DEF IInv, TypeOK, Accesses, Access
<1>1. map[c][a.page] # "rw" /\ (map[c][a.page] = "none" => cache[a.page] = Absent)
  BY <1>0 DEF SInv, SharedInv
<1>2. \/ Fault(t, "missing") \/ Fault(t, "wp")
      \/ a.op = "read" /\ map[c][a.page] = "wp" /\ Complete(t, cache[a.page], "wp")
      \/ map[c][a.page] = "priv" /\ Complete(t, anon[c][a.page], "priv")
  BY <1>0, <1>1 DEF Access
<1>3. CASE Fault(t, "missing") \/ Fault(t, "wp")
  <2>1. SInv(c, t)' /\ Kept(c)
    BY <1>0, <1>3, AloneIssue
  <2> QED
    BY <1>3, <2>1 DEF Fault
<1> QED
  BY <1>0, <1>2, <1>3, AloneComplete
-----------------------------------------------------------------------------
LEMMA AloneInit ==
  ASSUME Init, NEW c \in Clients, NEW t \in Threads
  PROVE  SInv(c, t)
<1>1. SharedInv(c, t)
  BY DEF Init, SharedInv
<1>2. FaultInv(c, t) /\ ExportInv(c, t)
  BY DEF Init, FaultInv, ExportInv, ServingPCs, CowPCs
<1> QED
  BY <1>1, <1>2 DEF SInv

LEMMA AloneHandler ==
  ASSUME Alone, IInv, NEW c \in Clients, NEW t \in Threads, SInv(c, t),
         \/ HandlerStep(c) \/ PollTimeout(c) \/ StartHandler(c) \/ StopHandler(c) \/ Join(c)
  PROVE  SInv(c, t)' /\ Kept(c) /\ UNCHANGED res
<1>1. UNCHANGED res
  <2> USE DEF Goto, Fail, thread
  <2>1. CASE PollTimeout(c) \/ StartHandler(c) \/ StopHandler(c) \/ Join(c)
    BY <2>1 DEF PollTimeout, StartHandler, StopHandler, Join
  <2>2. CASE CheckStop(c) \/ ReadMessage(c) \/ PollError(c) \/ CompareExchange(c)
    BY <2>2 DEF CheckStop, ReadMessage, PollError, CompareExchange
  <2>3. CASE ReadPage(c) \/ ReadPageError(c) \/ CopyPage(c) \/ CopyError(c) \/ Publish(c)
    BY <2>3 DEF ReadPage, ReadPageError, CopyPage, CopyError, Publish
  <2>4. CASE SpinDone(c) \/ WakePage(c) \/ WakeError(c) \/ Snapshot(c) \/ SnapshotError(c)
    BY <2>4 DEF SpinDone, WakePage, WakeError, Snapshot, SnapshotError
  <2>5. CASE \/ ClearWriteProtect(c) \/ ClearWriteProtectError(c)
             \/ RemapPrivate(c) \/ RemapError(c) \/ CopyBack(c) \/ MarkPrivateDirty(c)
    BY <2>5 DEF ClearWriteProtect, ClearWriteProtectError, RemapPrivate, RemapError, CopyBack,
                MarkPrivateDirty
  <2> QED
    BY <2>1, <2>2, <2>3, <2>4, <2>5 DEF HandlerStep
<1>2. CASE StopHandler(c) \/ Join(c)
  <2>1. UNCHANGED <<cache, map, anon, handler, st, acc, next, ckpt>>
    BY <1>2 DEF StopHandler, Join, shared, space, thread
  <2> QED
    BY <1>1, <2>1, AloneStop
<1> QED
  BY <1>1, <1>2, AloneLoop, AloneFill, AloneReadMessage, AloneCopyPage, AloneWakePage, AloneReplace
     DEF HandlerStep

(* Every step keeps the invariant, and is a read, a write or nothing to    *)
(* who uses the memory, unless the process dies.                           *)
LEMMA AloneNext ==
  ASSUME Alone, IInv, NEW c \in Clients, NEW t \in Threads, SInv(c, t), [Next]_vars
  PROVE  /\ SInv(c, t)'
         /\ "crash" \notin Failures =>
              (Kept(c) /\ UNCHANGED res) \/ (st[t] = "access" /\ (Reads(c, t) \/ Writes(c, t)))
<1>0. Clients = {c} /\ Threads = {t} /\ ~EarlyTouch
  BY AloneFacts
<1>1. CASE \E d \in Clients : \/ HandlerStep(d) \/ PollTimeout(d) \/ StartHandler(d)
                              \/ StopHandler(d) \/ Join(d)
  BY <1>0, <1>1, AloneHandler
<1>2. CASE \E d \in Clients : Crash(d)
  <2>1. Crash(c) /\ "crash" \in Failures
    BY <1>0, <1>2 DEF Crash
  <2> QED
    BY <2>1, AloneCrash
<1>3. CASE \E s \in Threads : Access(s)
  <2>1. Access(t) /\ st[t] = "access"
    BY <1>0, <1>3 DEF Access
  <2> QED
    BY <2>1, AloneAccess
<1>4. CASE \E s \in Threads : ExportPage(s) \/ FinishExport(s)
  <2>1. ExportPage(t) \/ FinishExport(t)
    BY <1>0, <1>4
  <2>2. UNCHANGED res
    BY <2>1 DEF ExportPage, FinishExport
  <2> QED
    BY <2>1, <2>2, AloneExport
<1>5. CASE \/ \E s \in Threads : StartExport(s)
           \/ \E s \in Threads, a \in Accesses : Issue(s, a)
  <2>1. StartExport(t) \/ \E a \in Accesses : Issue(t, a)
    BY <1>0, <1>5
  <2>2. UNCHANGED res
    BY <2>1 DEF StartExport, Issue
  <2> QED
    BY <2>1, <2>2, AloneIssue
<1>6. CASE UNCHANGED vars
  BY <1>6, AloneStop DEF vars, handler
<1> QED
  BY <1>0, <1>1, <1>2, <1>3, <1>4, <1>5, <1>6 DEF Next, ThreadStep, UnregisteredTouch

AloneInv == IInv /\ \A c \in Clients, t \in Threads : SInv(c, t)

(* A client alone keeps the template in the memfd and the pages it wrote   *)
(* in private copies.                                                      *)
THEOREM AloneInductive == ASSUME Alone PROVE Spec => []AloneInv
<1>1. Init => AloneInv
  BY InitIInv, AloneInit DEF AloneInv
<1>2. AloneInv /\ [Next]_vars => AloneInv'
  BY NextIInv, AloneNext DEF AloneInv
<1> QED
  BY <1>1, <1>2, PTL DEF Spec

(* A checkpoint that Checkpoint::export has finished, laid over the        *)
(* backend, is the memory of the client, whatever fails.                   *)
THEOREM ExportExact == ASSUME Alone PROVE Spec => []CheckpointExact
<1>1. AloneInv => CheckpointExact
  <2> SUFFICES ASSUME AloneInv, NEW t \in Threads, NEW p \in Pages,
                      st[t] = "export", next[t] = PageCount
               PROVE  View(Owner[t], p) = IF ckpt[t][p] = Absent THEN BackendPage(p) ELSE ckpt[t][p]
    BY DEF CheckpointExact
  <2>1. PICK c \in Clients : c = Owner[t]
    BY ConstantsOK
  <2>2. ckpt[t][p] = IF OwnPage(c, p) THEN anon[c][p] ELSE Absent
    BY ConstantsOK DEF AloneInv, SInv, ExportInv, Pages
  <2>3. anon[c][p] # Absent
    BY AbsentIsNoPage DEF AloneInv, IInv, TypeOK
  <2>4. View(c, p) = Content(c, p)
    BY ContentIsView DEF AloneInv
  <2> QED
    BY <2>1, <2>2, <2>3, <2>4 DEF Content
<1> QED
  BY <1>1, AloneInductive, PTL

(* The memfd of a client alone is never written but with the template: the *)
(* kernel never maps a page of it writable for the thread.                 *)
THEOREM TemplateUnchanged == ASSUME Alone PROVE Spec => []TemplateReadOnly
<1>1. AloneInv => TemplateReadOnly
  BY DEF Alone, AloneInv, SInv, SharedInv, TemplateReadOnly
<1> QED
  BY <1>1, AloneInductive, PTL

(* The library implements copy-on-write memory for a client alone that     *)
(* does not die: loads and stores, in spite of faults, copies and errors,  *)
(* are those of CowMemory.                                                 *)
THEOREM ImplementsCow ==
  ASSUME Alone, "crash" \notin Failures
  PROVE  Spec => CowSpec
<1> DEFINE Mem == [c \in Clients |-> [p \in Pages |-> View(c, p)]]
<1>0. PICK c \in Clients, t \in Threads : Clients = {c} /\ Threads = {t} /\ Owner[t] = c
  BY AloneFacts DEF Alone
<1>1. Init => Cow!Init
  <2> SUFFICES ASSUME Init PROVE Cow!Init
    OBVIOUS
  <2>1. ASSUME NEW d \in Clients, NEW p \in Pages PROVE View(d, p) = BackendPage(p)
    <3>1. SInv(c, t) /\ IInv /\ d = c
      BY <1>0, InitIInv, AloneInit
    <3>2. ~OwnPage(c, p)
      BY DEF Init, OwnPage
    <3> QED
      BY <3>1, <3>2, ContentIsView DEF Content
  <2> QED
    BY <2>1 DEF Cow!Init, Init
<1> DEFINE Seen == \A d \in Clients, p \in Pages : View(d, p) = Content(d, p)
<1>2. AloneInv => Seen
  BY <1>0, ContentIsView DEF AloneInv
<1>3. AloneInv /\ Seen /\ Seen' /\ [Next]_vars => [Cow!Next]_(Cow!vars)
  <2> SUFFICES ASSUME AloneInv, Seen, Seen', [Next]_vars PROVE [Cow!Next]_(Cow!vars)
    OBVIOUS
  <2>1. IInv /\ SInv(c, t)
    BY DEF AloneInv
  <2>2. \A p \in Pages : View(c, p) = Content(c, p) /\ View(c, p)' = Content(c, p)'
    OBVIOUS
  <2>3. acc[t].page \in Pages /\ acc[t].off \in Offsets
    BY <2>1 DEF IInv, TypeOK, Accesses
  <2>4. CASE Kept(c) /\ UNCHANGED res
    <3>1. Mem' = Mem
      BY <1>0, <2>2, <2>4 DEF Kept
    <3> QED
      BY <2>4, <3>1 DEF Cow!vars
  <2>5. CASE Reads(c, t)
    <3>1. Mem' = Mem
      BY <1>0, <2>2, <2>5 DEF Reads, Kept
    <3>2. Mem[Owner[t]][acc[t].page] = Content(c, acc[t].page)
      BY <1>0, <2>2, <2>3
    <3>3. Cow!Read(t, acc[t].page, acc[t].off)
      BY <2>5, <3>1, <3>2 DEF Cow!Read, Reads
    <3> QED
      BY <2>3, <3>3 DEF Cow!Next
  <2>6. CASE Writes(c, t)
    <3>1. ASSUME NEW d \in Clients, NEW p \in Pages
          PROVE  View(d, p)' = IF p = acc[t].page THEN [View(d, p) EXCEPT ![acc[t].off] = t] ELSE View(d, p)
      BY <1>0, <2>2, <2>6 DEF Writes
    <3>2. Mem' = [Mem EXCEPT ![Owner[t]][acc[t].page][acc[t].off] = t]
      BY <1>0, <2>3, <3>1
    <3>3. Cow!Write(t, acc[t].page, acc[t].off)
      BY <2>6, <3>2 DEF Cow!Write, Writes
    <3> QED
      BY <2>3, <3>3 DEF Cow!Next
  <2> QED
    BY <2>1, <2>4, <2>5, <2>6, AloneNext
<1> HIDE DEF Seen
<1> QED
  BY <1>1, <1>2, <1>3, AloneInductive, PTL DEF Spec, CowSpec, Cow!Spec
=============================================================================
