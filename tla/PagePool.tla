------------------------------ MODULE PagePool ------------------------------
(***************************************************************************)
(* The page pool of the snapshot driver: conch-driver/driver,              *)
(* snapshot_pool.c and the fault and close handlers of snapshot_mmap.c.    *)
(*                                                                         *)
(* Physical pages are shared by hash: a fault looks its page up in the     *)
(* pool, or loads it from pages.bin and adds it, takes a reference, notes  *)
(* it in the mapping's tree and maps the page.  Closing a mapping drops    *)
(* one reference per node of its tree; the last reference frees the page.  *)
(* Deleting the last template clears the pool.                             *)
(*                                                                         *)
(* Faults of one mapping run in parallel (they share the mmap lock), a     *)
(* close does not run beside a fault of its mapping.  The pool's lock      *)
(* makes each of its sections one step; the tree has no lock.  A step that *)
(* would touch a freed entry or bucket array is not taken: the properties  *)
(* are about the states before it.                                         *)
(***************************************************************************)
EXTENDS Integers, FiniteSets

CONSTANTS
  Vmas,         (* mappings of template devices                            *)
  Pages,        (* page indices                                            *)
  PageTable,    (* PageTable[v][p]: hash_idx of page p of v's template     *)
  PagesBin,     (* the hashes pages.bin has within the probe limit         *)
  Faulters,     (* threads that fault                                      *)
  Entries,      (* phys_page_entry objects, with their page                *)
  Environments, (* sets of events that may happen, see EventKinds          *)
  MaxRef,       (* bound: no fault starts once a count exceeds it          *)
  NoEntry,      (* NULL                                                    *)
  NoVma

Hashes == {PageTable[v][p] : v \in Vmas, p \in Pages}

(* The failure of a read of pages.bin, of the allocation of an entry or a  *)
(* page, of that of a tree node and of vmf_insert_page; and a template     *)
(* created and mapped while a delete clears the pool.                      *)
EventKinds == {"read", "alloc", "node", "insert", "create"}

ASSUME PoolConstants ==
  /\ Pages \subseteq Nat
  /\ PagesBin \subseteq Hashes
  /\ Environments \subseteq SUBSET EventKinds
  /\ MaxRef \in Nat
  /\ NoEntry \notin Entries /\ NoVma \notin Vmas
  /\ IsFiniteSet(Vmas) /\ IsFiniteSet(Pages) /\ IsFiniteSet(Faulters)

VARIABLES
  hash,     (* hash_idx of an entry                                        *)
  ref,      (* its ref_count                                               *)
  pref,     (* the reference count of its struct page                      *)
  live,     (* the entries that are allocated                              *)
  bucket,   (* the entries in the hash table                               *)
  total,    (* total_pages                                                 *)
  ready,    (* the bucket array is allocated                               *)
  vma,      (* "none", "mapped" or "closing"                               *)
  tree,     (* va_to_pa_map: the nodes, pairs of a page and its entry      *)
  pte,      (* the entry whose page is mapped, or NoEntry                  *)
  fault,    (* per faulting thread: its label and local variables          *)
  deleter,  (* snapshot_template_delete: "idle", "destroy" or "init"       *)
  events    (* the events that may happen; chosen at the start             *)

pool  == <<hash, ref, pref, live, bucket, total, ready>>
space == <<vma, tree, pte>>
vars  == <<hash, ref, pref, live, bucket, total, ready, vma, tree, pte, fault, deleter, events>>

FaultPCs == {"lookup", "read", "add", "new", "track", "link", "map"}
Idle == [pc |-> "idle", vma |-> NoVma, page |-> 0, entry |-> NoEntry, seen |-> {}]

TypeOK ==
  /\ hash \in [Entries -> Hashes \cup {0}]
  /\ ref \in [Entries -> Int] /\ pref \in [Entries -> Int]
  /\ bucket \subseteq live /\ live \subseteq Entries
  /\ total \in Nat /\ ready \in BOOLEAN
  /\ vma \in [Vmas -> {"none", "mapped", "closing"}]
  /\ tree \in [Vmas -> SUBSET (Pages \X Entries)]
  /\ pte \in [Vmas -> [Pages -> Entries \cup {NoEntry}]]
  /\ \A f \in Faulters :
       /\ fault[f].pc \in FaultPCs \cup {"idle"}
       /\ fault[f].pc # "idle" => fault[f].vma \in Vmas /\ fault[f].page \in Pages
       /\ fault[f].pc \in {"track", "link", "map"} => fault[f].entry \in Entries
  /\ deleter \in {"idle", "destroy", "init"}
  /\ events \in Environments

Init ==
  /\ hash = [e \in Entries |-> 0]
  /\ ref = [e \in Entries |-> 0] /\ pref = [e \in Entries |-> 0]
  /\ live = {} /\ bucket = {} /\ total = 0 /\ ready = TRUE
  /\ vma = [v \in Vmas |-> "none"]
  /\ tree = [v \in Vmas |-> {}]
  /\ pte = [v \in Vmas |-> [p \in Pages |-> NoEntry]]
  /\ fault = [f \in Faulters |-> Idle]
  /\ deleter = "idle"
  /\ events \in Environments

-----------------------------------------------------------------------------
(* The pool *)

Cached(h) == {e \in bucket : hash[e] = h}

(* snapshot_pool_unref, after the struct page has lost `put' references:   *)
(* the last reference takes the entry out of the table (hlist_del, which   *)
(* must not happen twice) and frees it and its page.                       *)
Unref(e, put) ==
  LET last == ref[e] = 1
  IN  /\ ready /\ e \in live /\ (last => e \in bucket)
      /\ ref' = [ref EXCEPT ![e] = @ - 1]
      /\ pref' = [pref EXCEPT ![e] = IF last THEN 0 ELSE @ - put]
      /\ hash' = [hash EXCEPT ![e] = IF last THEN 0 ELSE @]
      /\ live' = IF last THEN live \ {e} ELSE live
      /\ bucket' = IF last THEN bucket \ {e} ELSE bucket
      /\ total' = IF last THEN total - 1 ELSE total
      /\ UNCHANGED ready

-----------------------------------------------------------------------------
(* snapshot_vma_fault *)

Goto(f, label) == fault' = [fault EXCEPT ![f].pc = label]
Got(f, e) == fault' = [fault EXCEPT ![f].pc = "track", ![f].entry = e]
Return(f) == fault' = [fault EXCEPT ![f] = Idle]
HashOf(f) == PageTable[fault[f].vma][fault[f].page]

(* The nodes that name e. *)
Nodes(e) == {vp \in Vmas \X Pages : <<vp[2], e>> \in tree[vp[1]]}

(* Bounds on how long faults go on: no count is above MaxRef, and none is  *)
(* below the number of nodes (after a failed vmf_insert_page, whose        *)
(* consequences are then played out by the faults and closes under way).   *)
Bounded == \A e \in Entries : Cardinality(Nodes(e)) <= ref[e] /\ ref[e] <= MaxRef

(* An access to a page that is not mapped. *)
StartFault(f, v, p) ==
  /\ fault[f].pc = "idle"
  /\ vma[v] = "mapped" /\ pte[v][p] = NoEntry
  /\ Bounded
  /\ fault' = [fault EXCEPT ![f] = [Idle EXCEPT !.pc = "lookup", !.vma = v, !.page = p]]
  /\ UNCHANGED <<pool, space, deleter, events>>

(* Mutant: the entry is returned without a reference, as by                *)
(* snapshot_pool_lookup_noref.                                             *)
LookupNoref(f) ==
  /\ fault[f].pc = "lookup" /\ ready
  /\ IF Cached(HashOf(f)) = {} THEN Goto(f, "read")
     ELSE \E e \in Cached(HashOf(f)) : Got(f, e)
  /\ UNCHANGED <<pool, space, deleter, events>>

(* Take a reference of an entry in the pool, if there is one. *)
Lookup(f) ==
  /\ fault[f].pc = "lookup" /\ ready
  /\ \/ Cached(HashOf(f)) = {} /\ Goto(f, "read") /\ UNCHANGED ref
     \/ \E e \in Cached(HashOf(f)) : Got(f, e) /\ ref' = [ref EXCEPT ![e] = @ + 1]
  /\ UNCHANGED <<hash, pref, live, bucket, total, ready, space, deleter, events>>

(* Find the page in pages.bin and read it. *)
ReadFile(f) ==
  /\ fault[f].pc = "read" /\ HashOf(f) \in PagesBin
  /\ Goto(f, "add")
  /\ UNCHANGED <<pool, space, deleter, events>>

(* The slot is empty or too far, a read is short, or there is no buffer. *)
ReadFileError(f) ==
  /\ fault[f].pc = "read"
  /\ HashOf(f) \notin PagesBin \/ "read" \in events
  /\ Return(f)
  /\ UNCHANGED <<pool, space, deleter, events>>

(* The first half of snapshot_pool_add: somebody may have loaded the page. *)
AddExisting(f) ==
  /\ fault[f].pc = "add" /\ ready
  /\ \/ Cached(HashOf(f)) = {} /\ Goto(f, "new") /\ UNCHANGED ref
     \/ \E e \in Cached(HashOf(f)) : Got(f, e) /\ ref' = [ref EXCEPT ![e] = @ + 1]
  /\ UNCHANGED <<hash, pref, live, bucket, total, ready, space, deleter, events>>

(* Mutant: the second check is left out. *)
AddNewUnchecked(f) ==
  /\ fault[f].pc = "new" /\ ready
  /\ \E e \in Entries \ live :
       /\ Got(f, e)
       /\ hash' = [hash EXCEPT ![e] = HashOf(f)]
       /\ ref' = [ref EXCEPT ![e] = 1] /\ pref' = [pref EXCEPT ![e] = 1]
       /\ live' = live \cup {e} /\ bucket' = bucket \cup {e} /\ total' = total + 1
  /\ UNCHANGED <<ready, space, deleter, events>>

(* The second half: the entry is allocated, the table checked again, and   *)
(* the new entry inserted or given up.                                     *)
AddNew(f) ==
  /\ fault[f].pc = "new" /\ ready
  /\ \/ /\ Cached(HashOf(f)) = {}
        /\ \E e \in Entries \ live :
             /\ Got(f, e)
             /\ hash' = [hash EXCEPT ![e] = HashOf(f)]
             /\ ref' = [ref EXCEPT ![e] = 1] /\ pref' = [pref EXCEPT ![e] = 1]
             /\ live' = live \cup {e} /\ bucket' = bucket \cup {e} /\ total' = total + 1
     \/ \E e \in Cached(HashOf(f)) :
          /\ Got(f, e) /\ ref' = [ref EXCEPT ![e] = @ + 1]
          /\ UNCHANGED <<hash, pref, live, bucket, total>>
  /\ UNCHANGED <<ready, space, deleter, events>>

AddError(f) ==
  /\ fault[f].pc = "new" /\ "alloc" \in events
  /\ Return(f)
  /\ UNCHANGED <<pool, space, deleter, events>>

(* kmalloc of the node, and va_insert's descent from the root.  If the     *)
(* node cannot be had, or the page is in the tree already, the reference   *)
(* the fault holds is nobody's.                                            *)
Track(f) ==
  LET v == fault[f].vma
      present == \E n \in tree[v] : n[1] = fault[f].page
  IN  /\ fault[f].pc = "track"
      /\ \/ ~present /\ fault' = [fault EXCEPT ![f].pc = "link", ![f].seen = tree[v]]
         \/ (present \/ "node" \in events) /\ Goto(f, "map")
      /\ UNCHANGED <<pool, space, deleter, events>>

(* rb_link_node.  The tree is not locked: nodes linked since the descent   *)
(* may be overwritten.                                                     *)
Link(f) ==
  LET v == fault[f].vma
      n == <<fault[f].page, fault[f].entry>>
  IN  /\ fault[f].pc = "link"
      /\ \E t \in {tree[v], fault[f].seen} : tree' = [tree EXCEPT ![v] = t \cup {n}]
      /\ fault' = [fault EXCEPT ![f].pc = "map", ![f].seen = {}]
      /\ UNCHANGED <<pool, vma, pte, deleter, events>>

(* Mutant: get_page is left out. *)
MapPageNoGet(f) ==
  LET v == fault[f].vma
      p == fault[f].page
      e == fault[f].entry
  IN  /\ fault[f].pc = "map" /\ e \in live
      /\ IF pte[v][p] = NoEntry
         THEN pte' = [pte EXCEPT ![v][p] = e] /\ pref' = [pref EXCEPT ![e] = @ + 1]
         ELSE UNCHANGED <<pte, pref>>
      /\ Return(f)
      /\ UNCHANGED <<hash, ref, live, bucket, total, ready, vma, tree, deleter, events>>

(* get_page and vmf_insert_page, which takes a reference of its own and    *)
(* does nothing if another fault was faster.                               *)
MapPage(f) ==
  LET v == fault[f].vma
      p == fault[f].page
      e == fault[f].entry
  IN  /\ fault[f].pc = "map" /\ e \in live
      /\ IF pte[v][p] = NoEntry
         THEN pte' = [pte EXCEPT ![v][p] = e] /\ pref' = [pref EXCEPT ![e] = @ + 2]
         ELSE UNCHANGED pte /\ pref' = [pref EXCEPT ![e] = @ + 1]
      /\ Return(f)
      /\ UNCHANGED <<hash, ref, live, bucket, total, ready, vma, tree, deleter, events>>

(* vmf_insert_page fails: put_page, and the reference is dropped.  The     *)
(* node stays in the tree.                                                 *)
MapError(f) ==
  /\ fault[f].pc = "map" /\ "insert" \in events
  /\ Unref(fault[f].entry, 0)
  /\ Return(f)
  /\ UNCHANGED <<space, deleter, events>>

-----------------------------------------------------------------------------
(* snapshot_mmap, and snapshot_vma_close *)

MapVma(v) ==
  /\ vma[v] = "none"
  /\ deleter = "idle" \/ "create" \in events
  /\ vma' = [vma EXCEPT ![v] = "mapped"]
  /\ UNCHANGED <<pool, tree, pte, fault, deleter, events>>

(* munmap takes the page table entries down, and their references of the   *)
(* pages, before it calls the driver.  It excludes faults of the mapping.  *)
Unmap(v) ==
  /\ vma[v] = "mapped"
  /\ \A f \in Faulters : fault[f].vma # v
  /\ vma' = [vma EXCEPT ![v] = "closing"]
  /\ pte' = [pte EXCEPT ![v] = [p \in Pages |-> NoEntry]]
  /\ pref' = [e \in Entries |-> pref[e] - Cardinality({p \in Pages : pte[v][p] = e})]
  /\ UNCHANGED <<hash, ref, live, bucket, total, ready, tree, fault, deleter, events>>

(* One turn of the loop: the first node leaves the tree and its page loses *)
(* a reference.                                                            *)
CloseNode(v) ==
  /\ vma[v] = "closing"
  /\ \E n \in tree[v] :
       /\ \A m \in tree[v] : n[1] <= m[1]
       /\ tree' = [tree EXCEPT ![v] = @ \ {n}]
       /\ Unref(n[2], 1)
  /\ UNCHANGED <<vma, pte, fault, deleter, events>>

CloseDone(v) ==
  /\ vma[v] = "closing" /\ tree[v] = {}
  /\ vma' = [vma EXCEPT ![v] = "none"]
  /\ UNCHANGED <<pool, tree, pte, fault, deleter, events>>

-----------------------------------------------------------------------------

(* The end of snapshot_template_delete: no template is left, hence no      *)
(* mapping, and the pool is cleared.                                       *)
ListEmpty ==
  /\ deleter = "idle" /\ \A v \in Vmas : vma[v] = "none"
  /\ deleter' = "destroy"
  /\ UNCHANGED <<pool, space, fault, events>>

(* Only entries nobody refers to are freed; the rest leave the table.      *)
PoolDestroy ==
  /\ deleter = "destroy"
  /\ LET unused == {e \in bucket : ref[e] = 0}
     IN  /\ live' = live \ unused
         /\ hash' = [e \in Entries |-> IF e \in unused THEN 0 ELSE hash[e]]
         /\ pref' = [e \in Entries |-> IF e \in unused THEN 0 ELSE pref[e]]
  /\ bucket' = {} /\ ready' = FALSE
  /\ deleter' = "init"
  /\ UNCHANGED <<ref, total, space, fault, events>>

PoolInit ==
  /\ deleter = "init"
  /\ ready' = TRUE /\ total' = 0
  /\ deleter' = "idle"
  /\ UNCHANGED <<hash, ref, pref, live, bucket, space, fault, events>>

-----------------------------------------------------------------------------
Fault(f) ==
  \/ \E v \in Vmas, p \in Pages : StartFault(f, v, p)
  \/ Lookup(f) \/ ReadFile(f) \/ ReadFileError(f)
  \/ AddExisting(f) \/ AddNew(f) \/ AddError(f)
  \/ Track(f) \/ Link(f) \/ MapPage(f) \/ MapError(f)

Mapping(v) == MapVma(v) \/ Unmap(v) \/ CloseNode(v) \/ CloseDone(v)

Delete == ListEmpty \/ PoolDestroy \/ PoolInit

Next ==
  \/ \E f \in Faulters : Fault(f)
  \/ \E v \in Vmas : Mapping(v)
  \/ Delete

Spec == Init /\ [][Next]_vars

-----------------------------------------------------------------------------
(* Properties *)

(* Who owns a reference of e beside its nodes: the faults that have taken  *)
(* one and not yet handed it to a node.                                    *)
Carriers(e) == {f \in Faulters : fault[f].entry = e /\ fault[f].pc \in {"track", "link"}}
Mapped(e) == {vp \in Vmas \X Pages : pte[vp[1]][vp[2]] = e}

(* Every owner is counted: an entry has at least as many references as     *)
(* nodes and faults that rely on it, and one that has an owner is          *)
(* allocated and in the table.  (snapshot_pool_lookup, _add and _unref     *)
(* against the bookkeeping of snapshot_vma_fault and snapshot_vma_close.   *)
(* A failing vmf_insert_page breaks it, and so does a delete that clears   *)
(* the pool under a new template.)                                         *)
OwnersCounted ==
  events \cap {"insert", "create"} = {} =>
    \A e \in Entries :
      LET n == Cardinality(Nodes(e)) + Cardinality(Carriers(e))
      IN  n > 0 => e \in bucket /\ n <= ref[e]

(* Pages are shared: whatever the faults and closes race, the table never  *)
(* holds two entries of one hash, all its entries are allocated, and       *)
(* total_pages is their number.                                            *)
Deduplicated ==
  ready => /\ \A d, e \in bucket : hash[d] = hash[e] => d = e
           /\ bucket \subseteq live
           /\ total = Cardinality(bucket)

(* A mapping shows the page its page table names: the page is not freed,   *)
(* nor taken for another hash, as long as some process maps it, and the    *)
(* struct page counts every mapping beside the pool's reference.           *)
MappedPageValid ==
  "insert" \notin events =>
    \A e \in Entries :
      /\ \A vp \in Mapped(e) : hash[e] = PageTable[vp[1]][vp[2]]
      /\ Mapped(e) # {} => e \in live /\ pref[e] > Cardinality(Mapped(e))

=============================================================================
