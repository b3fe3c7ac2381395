--------------------------- MODULE PagePoolProofs ---------------------------
(***************************************************************************)
(* The page pool of the snapshot driver, for any mappings, page tables,    *)
(* faulting threads and entries: pages stay shared by hash, every owner of *)
(* an entry is counted, and what a process maps is the page it should see. *)
(***************************************************************************)
EXTENDS PagePool, FiniteSetTheorems, TLAPS

(* Zenon settles most steps at once; the others get more than the default. *)
USE ZenonT(3), SMTT(20), ZenonT(20)

(* The labels at which a fault has an entry. *)
EntryPCs == {"track", "link", "map"}
FaultType == [pc : FaultPCs \cup {"idle"}, vma : Vmas \cup {NoVma}, page : Pages \cup {0},
              entry : Entries \cup {NoEntry}, seen : SUBSET (Pages \X Entries)]
FaultsOK ==
  /\ fault \in [Faulters -> FaultType]
  /\ \A f \in Faulters :
       /\ fault[f].pc # "idle" => fault[f].vma \in Vmas /\ fault[f].page \in Pages
       /\ fault[f].pc \in EntryPCs => fault[f].entry \in Entries
Types ==
  /\ hash \in [Entries -> Hashes \cup {0}]
  /\ ref \in [Entries -> Int] /\ pref \in [Entries -> Int]
  /\ live \subseteq Entries
  /\ total \in Int
  /\ vma \in [Vmas -> {"none", "mapped", "closing"}]
  /\ tree \in [Vmas -> SUBSET (Pages \X Entries)]
  /\ pte \in [Vmas -> [Pages -> Entries \cup {NoEntry}]]
  /\ FaultsOK

(* The table: while the bucket array is there, its entries are allocated,  *)
(* counted by total_pages, and of different hashes.                        *)
TableInv ==
  /\ bucket \subseteq live /\ IsFiniteSet(bucket)
  /\ \A d, e \in bucket : hash[d] = hash[e] => d = e
  /\ ready = (deleter # "init")
  /\ IF ready THEN total = Cardinality(bucket) ELSE bucket = {}

-----------------------------------------------------------------------------
(* Owners, when vmf_insert_page does not fail.  A page of a mapping owns a *)
(* reference of e while a node, a page table entry or a fault about to map *)
(* it names e; so does the copy of a node that a fault saw in its descent, *)
(* which rb_link_node may bring back.                                      *)
Pending(v, p, e) ==
  \E f \in Faulters : /\ fault[f].pc = "map"
                      /\ fault[f].vma = v /\ fault[f].page = p /\ fault[f].entry = e
Seen(v, p, e) == \E f \in Faulters : fault[f].vma = v /\ <<p, e>> \in fault[f].seen
Owns(v, p, e) ==
  <<p, e>> \in tree[v] \/ pte[v][p] = e \/ Seen(v, p, e) \/ Pending(v, p, e)
Owned(e) == {vp \in Vmas \X Pages : Owns(vp[1], vp[2], e)}
(* Those for which the page has been given get_page's reference. *)
Settled(e) == {vp \in Owned(e) : ~Pending(vp[1], vp[2], e)}

(* munmap has excluded the faults and taken the page table down. *)
ClosingInv ==
  \A v \in Vmas : vma[v] = "closing" =>
    /\ \A f \in Faulters : fault[f].vma # v
    /\ \A p \in Pages : pte[v][p] = NoEntry

Counted(e) ==
  /\ ref[e] >= Cardinality(Owned(e)) + Cardinality(Carriers(e))
  /\ Owned(e) \cup Carriers(e) # {} => e \in live
  /\ \A vp \in Owned(e) : hash[e] = PageTable[vp[1]][vp[2]]
  /\ \A f \in Carriers(e) : hash[e] = HashOf(f)
  /\ e \in live => pref[e] >= 1 + Cardinality(Mapped(e)) + Cardinality(Settled(e))
OwnerInv == ClosingInv /\ \A e \in Entries : Counted(e)

(* And when no template is created under a delete: the table is cleared    *)
(* only when there is nothing to map pages of.                             *)
NoneInv ==
  \A v \in Vmas : vma[v] = "none" =>
    /\ tree[v] = {}
    /\ \A f \in Faulters : fault[f].vma # v
    /\ \A p \in Pages : pte[v][p] = NoEntry
QuietInv ==
  /\ NoneInv
  /\ deleter # "idle" => \A v \in Vmas : vma[v] = "none"
  /\ \A e \in Entries : Owned(e) \cup Carriers(e) # {} => e \in bucket

IInv ==
  /\ Types /\ TableInv
  /\ "insert" \notin events => OwnerInv
  /\ events \cap {"insert", "create"} = {} => QuietInv

-----------------------------------------------------------------------------
(* How a fault moves: the others stay. *)
Others(f) == \A g \in Faulters \ {f} : fault'[g] = fault[g]
FaultOK(r) ==
  /\ r \in FaultType
  /\ r.pc # "idle" => r.vma \in Vmas /\ r.page \in Pages
  /\ r.pc \in EntryPCs => r.entry \in Entries

LEMMA FaultUpdate ==
  ASSUME FaultsOK, NEW f \in Faulters, NEW r, FaultOK(r), fault' = [fault EXCEPT ![f] = r]
  PROVE  FaultsOK' /\ Others(f) /\ fault'[f] = r
BY DEF FaultsOK, FaultOK, Others

LEMMA IdleType ==
  /\ Idle \in FaultType /\ Idle.pc = "idle" /\ Idle.vma = NoVma /\ Idle.seen = {}
<1>1. "idle" \in FaultPCs \cup {"idle"} OBVIOUS
<1> QED BY <1>1 DEF Idle, FaultType

LEMMA ReturnMove ==
  ASSUME FaultsOK, NEW f \in Faulters, Return(f)
  PROVE  FaultsOK' /\ Others(f) /\ fault'[f] = Idle
<1>1. FaultOK(Idle) BY IdleType DEF FaultOK, EntryPCs
<1> QED BY <1>1, FaultUpdate DEF Return

LEMMA GotoMove ==
  ASSUME FaultsOK, NEW f \in Faulters, NEW label \in FaultPCs, Goto(f, label),
         fault[f].pc # "idle", label \in EntryPCs => fault[f].pc \in EntryPCs
  PROVE  /\ FaultsOK' /\ Others(f)
         /\ fault'[f].pc = label /\ fault'[f].vma = fault[f].vma /\ fault'[f].page = fault[f].page
         /\ fault'[f].entry = fault[f].entry /\ fault'[f].seen = fault[f].seen
<1> DEFINE r == [fault[f] EXCEPT !.pc = label]
<1>1. fault' = [fault EXCEPT ![f] = r] BY DEF Goto, FaultsOK
<1>2. r \in FaultType BY DEF FaultsOK, FaultType
<1>3. /\ r.pc = label /\ r.vma = fault[f].vma /\ r.page = fault[f].page
      /\ r.entry = fault[f].entry /\ r.seen = fault[f].seen
  BY DEF FaultsOK, FaultType
<1> HIDE DEF r
<1>4. FaultOK(r) BY <1>2, <1>3 DEF FaultOK, FaultsOK
<1> QED BY <1>1, <1>3, <1>4, FaultUpdate

LEMMA GotMove ==
  ASSUME FaultsOK, NEW f \in Faulters, NEW e \in Entries, Got(f, e), fault[f].pc # "idle"
  PROVE  /\ FaultsOK' /\ Others(f)
         /\ fault'[f].pc = "track" /\ fault'[f].vma = fault[f].vma /\ fault'[f].page = fault[f].page
         /\ fault'[f].entry = e /\ fault'[f].seen = fault[f].seen
<1> DEFINE r == [fault[f] EXCEPT !.pc = "track", !.entry = e]
<1>0. "track" \in FaultPCs BY DEF FaultPCs
<1>1. fault' = [fault EXCEPT ![f] = r] BY DEF Got, FaultsOK
<1>2. r \in FaultType BY <1>0 DEF FaultsOK, FaultType
<1>3. /\ r.pc = "track" /\ r.vma = fault[f].vma /\ r.page = fault[f].page
      /\ r.entry = e /\ r.seen = fault[f].seen
  BY DEF FaultsOK, FaultType
<1> HIDE DEF r
<1>4. FaultOK(r) BY <1>2, <1>3 DEF FaultOK, FaultsOK
<1> QED BY <1>1, <1>3, <1>4, FaultUpdate

LEMMA StartMove ==
  ASSUME FaultsOK, NEW f \in Faulters, NEW v \in Vmas, NEW p \in Pages, StartFault(f, v, p)
  PROVE  /\ FaultsOK' /\ Others(f)
         /\ fault'[f].pc = "lookup" /\ fault'[f].vma = v /\ fault'[f].page = p
         /\ fault'[f].seen = {}
<1> DEFINE r == [Idle EXCEPT !.pc = "lookup", !.vma = v, !.page = p]
<1>0. "lookup" \in FaultPCs BY DEF FaultPCs
<1>1. fault' = [fault EXCEPT ![f] = r] BY DEF StartFault
<1>3. r \in FaultType BY <1>0, IdleType DEF FaultType
<1>4. r.pc = "lookup" /\ r.vma = v /\ r.page = p /\ r.seen = {} BY IdleType DEF FaultType
<1> HIDE DEF r
<1>5. FaultOK(r) BY <1>3, <1>4 DEF FaultOK, EntryPCs
<1> QED BY <1>1, <1>4, <1>5, FaultUpdate

(* Track and Link, which also change what the fault saw. *)
LEMMA SeenMove ==
  ASSUME FaultsOK, NEW f \in Faulters, NEW label \in {"link", "map"}, fault[f].pc \in EntryPCs,
         NEW s \in SUBSET (Pages \X Entries),
         fault' = [fault EXCEPT ![f].pc = label, ![f].seen = s]
  PROVE  /\ FaultsOK' /\ Others(f)
         /\ fault'[f].pc = label /\ fault'[f].vma = fault[f].vma /\ fault'[f].page = fault[f].page
         /\ fault'[f].entry = fault[f].entry /\ fault'[f].seen = s
<1> DEFINE r == [fault[f] EXCEPT !.pc = label, !.seen = s]
<1>0. label \in FaultPCs /\ label # "idle" BY DEF FaultPCs
<1>1. fault' = [fault EXCEPT ![f] = r] BY DEF FaultsOK
<1>2. r \in FaultType BY <1>0, ZenonT(60) DEF FaultsOK, FaultType
<1>3. /\ r.pc = label /\ r.vma = fault[f].vma /\ r.page = fault[f].page
      /\ r.entry = fault[f].entry /\ r.seen = s
  BY DEF FaultsOK, FaultType
<1> HIDE DEF r
<1>4. fault[f].pc # "idle" BY DEF EntryPCs
<1>5. FaultOK(r) BY <1>0, <1>2, <1>3, <1>4 DEF FaultOK, FaultsOK
<1> QED BY <1>1, <1>3, <1>5, FaultUpdate

-----------------------------------------------------------------------------
(* A step of a fault, in terms of the fault's label and locals, with what  *)
(* it does to the pool and the mappings.  First those that take no         *)
(* reference and have none.                                                *)
PlainStep(f) ==
  /\ Others(f) /\ UNCHANGED <<pool, space, deleter>>
  /\ fault[f].pc \notin EntryPCs /\ fault'[f].pc \notin EntryPCs
  /\ fault'[f].seen \subseteq fault[f].seen
  /\ \/ fault'[f].vma = fault[f].vma \/ fault'[f].vma = NoVma
     \/ fault'[f].seen = {} /\ fault'[f].vma \in Vmas /\ vma[fault'[f].vma] = "mapped"

(* The pool has an entry of the hash: the fault gets it, with a reference. *)
HitStep(f) ==
  /\ Others(f) /\ UNCHANGED <<hash, pref, live, bucket, total, ready, space, deleter>>
  /\ fault[f].pc \notin EntryPCs /\ fault[f].pc # "idle" /\ fault'[f].pc = "track"
  /\ fault'[f].vma = fault[f].vma /\ fault'[f].page = fault[f].page
  /\ fault'[f].seen = fault[f].seen
  /\ fault'[f].entry \in Cached(HashOf(f))
  /\ ref' = [ref EXCEPT ![fault'[f].entry] = @ + 1]

(* The fault gets a new entry. *)
NewStep(f) ==
  LET e == fault'[f].entry
  IN  /\ Others(f) /\ UNCHANGED <<ready, space, deleter>>
      /\ fault[f].pc \notin EntryPCs /\ fault[f].pc # "idle" /\ fault'[f].pc = "track"
      /\ fault'[f].vma = fault[f].vma /\ fault'[f].page = fault[f].page
      /\ fault'[f].seen = fault[f].seen
      /\ e \in Entries \ live /\ Cached(HashOf(f)) = {} /\ ready
      /\ hash' = [hash EXCEPT ![e] = HashOf(f)]
      /\ ref' = [ref EXCEPT ![e] = 1] /\ pref' = [pref EXCEPT ![e] = 1]
      /\ live' = live \cup {e} /\ bucket' = bucket \cup {e} /\ total' = total + 1

(* The fault remembers its page in the tree, or tries to. *)
TrackStep(f) ==
  /\ Others(f) /\ UNCHANGED <<pool, space, deleter>>
  /\ fault[f].pc = "track"
  /\ fault'[f].vma = fault[f].vma /\ fault'[f].page = fault[f].page
  /\ fault'[f].entry = fault[f].entry
  /\ \/ fault'[f].pc = "link" /\ fault'[f].seen = tree[fault[f].vma]
     \/ fault'[f].pc = "map" /\ fault'[f].seen = fault[f].seen
LinkStep(f) ==
  LET v == fault[f].vma
      n == <<fault[f].page, fault[f].entry>>
  IN  /\ Others(f) /\ UNCHANGED <<pool, vma, pte, deleter>>
      /\ fault[f].pc = "link" /\ fault'[f].pc = "map"
      /\ fault'[f].vma = fault[f].vma /\ fault'[f].page = fault[f].page
      /\ fault'[f].entry = fault[f].entry /\ fault'[f].seen = {}
      /\ \E t \in {tree[v], fault[f].seen} : tree' = [tree EXCEPT ![v] = t \cup {n}]
MapStep(f) ==
  LET v == fault[f].vma
      p == fault[f].page
      e == fault[f].entry
  IN  /\ Others(f) /\ UNCHANGED <<hash, ref, live, bucket, total, ready, vma, tree, deleter>>
      /\ fault[f].pc = "map" /\ e \in live /\ fault'[f] = Idle
      /\ IF pte[v][p] = NoEntry
         THEN pte' = [pte EXCEPT ![v][p] = e] /\ pref' = [pref EXCEPT ![e] = @ + 2]
         ELSE UNCHANGED pte /\ pref' = [pref EXCEPT ![e] = @ + 1]
ErrorStep(f) ==
  /\ Others(f) /\ UNCHANGED <<space, deleter>>
  /\ fault[f].pc = "map" /\ fault'[f] = Idle /\ "insert" \in events
  /\ Unref(fault[f].entry, 0)

LEMMA FaultMoves ==
  ASSUME Types, TableInv, NEW f \in Faulters, Fault(f)
  PROVE  /\ FaultsOK' /\ events' = events
         /\ \/ PlainStep(f) \/ HitStep(f) \/ NewStep(f)
            \/ TrackStep(f) \/ LinkStep(f) \/ MapStep(f) \/ ErrorStep(f)
<1>0. FaultsOK BY DEF Types
<1>1. events' = events
  BY DEF Fault, StartFault, Lookup, ReadFile, ReadFileError, AddExisting, AddNew, AddError,
         Track, Link, MapPage, MapError
<1>2. ASSUME NEW v \in Vmas, NEW p \in Pages, StartFault(f, v, p)
      PROVE  FaultsOK' /\ PlainStep(f)
  BY <1>0, <1>2, StartMove, ZenonT(60) DEF StartFault, PlainStep, EntryPCs
<1>3. ASSUME fault[f].pc \in {"lookup", "add"}, NEW label \in {"read", "new"}, Goto(f, label),
             UNCHANGED <<pool, space, deleter>>
      PROVE  FaultsOK' /\ PlainStep(f)
  BY <1>0, <1>3, GotoMove DEF PlainStep, EntryPCs, FaultPCs
<1>4. ASSUME fault[f].pc \in {"lookup", "add", "new"}, NEW e \in Cached(HashOf(f)), Got(f, e),
             ref' = [ref EXCEPT ![e] = @ + 1],
             UNCHANGED <<hash, pref, live, bucket, total, ready, space, deleter>>
      PROVE  FaultsOK' /\ HitStep(f)
  <2>1. e \in Entries BY DEF Cached, TableInv, Types
  <2>2. fault[f].pc # "idle" BY <1>4
  <2> QED BY <1>0, <1>4, <2>1, <2>2, GotMove DEF HitStep, EntryPCs
<1>5. CASE Lookup(f)
  BY <1>1, <1>3, <1>4, <1>5 DEF Lookup, pool
<1>6. CASE AddExisting(f)
  BY <1>1, <1>3, <1>4, <1>6 DEF AddExisting, pool
<1>7. CASE ReadFile(f)
  BY <1>0, <1>1, <1>7, GotoMove DEF ReadFile, PlainStep, EntryPCs, FaultPCs
<1>8. CASE ReadFileError(f) \/ AddError(f)
  BY <1>0, <1>1, <1>8, ReturnMove DEF ReadFileError, AddError, PlainStep, EntryPCs, Idle
<1>9. CASE AddNew(f)
  <2>1. fault[f].pc = "new" BY <1>9 DEF AddNew
  <2>2. CASE \E e \in Cached(HashOf(f)) :
               /\ Got(f, e) /\ ref' = [ref EXCEPT ![e] = @ + 1]
               /\ UNCHANGED <<hash, pref, live, bucket, total>>
    BY <1>1, <1>4, <1>9, <2>1, <2>2 DEF AddNew
  <2>3. CASE /\ Cached(HashOf(f)) = {}
             /\ \E e \in Entries \ live :
                  /\ Got(f, e)
                  /\ hash' = [hash EXCEPT ![e] = HashOf(f)]
                  /\ ref' = [ref EXCEPT ![e] = 1] /\ pref' = [pref EXCEPT ![e] = 1]
                  /\ live' = live \cup {e} /\ bucket' = bucket \cup {e} /\ total' = total + 1
    <3>1. PICK e \in Entries \ live :
                  /\ Got(f, e)
                  /\ hash' = [hash EXCEPT ![e] = HashOf(f)]
                  /\ ref' = [ref EXCEPT ![e] = 1] /\ pref' = [pref EXCEPT ![e] = 1]
                  /\ live' = live \cup {e} /\ bucket' = bucket \cup {e} /\ total' = total + 1
      BY <2>3
    <3>2. /\ FaultsOK' /\ Others(f)
          /\ fault'[f].pc = "track" /\ fault'[f].vma = fault[f].vma
          /\ fault'[f].page = fault[f].page
          /\ fault'[f].entry = e /\ fault'[f].seen = fault[f].seen
      BY <1>0, <2>1, <3>1, GotMove
    <3> QED BY <1>1, <1>9, <2>1, <2>3, <3>1, <3>2 DEF AddNew, NewStep, EntryPCs
  <2> QED BY <1>9, <2>2, <2>3 DEF AddNew
<1>10. CASE Track(f)
  <2>1. fault[f].pc = "track" /\ fault[f].vma \in Vmas BY <1>0, <1>10 DEF Track, FaultsOK
  <2>2. CASE fault' = [fault EXCEPT ![f].pc = "link", ![f].seen = tree[fault[f].vma]]
    <3>1. PICK s \in SUBSET (Pages \X Entries) : s = tree[fault[f].vma] BY <2>1 DEF Types
    <3>2. fault' = [fault EXCEPT ![f].pc = "link", ![f].seen = s] BY <2>2, <3>1
    <3>3. fault[f].pc \in EntryPCs BY <2>1 DEF EntryPCs
    <3>4. /\ FaultsOK' /\ Others(f)
          /\ fault'[f].pc = "link" /\ fault'[f].vma = fault[f].vma
          /\ fault'[f].page = fault[f].page
          /\ fault'[f].entry = fault[f].entry /\ fault'[f].seen = s
      BY <1>0, <3>2, <3>3, SeenMove
    <3> QED BY <1>1, <1>10, <2>1, <3>1, <3>4 DEF Track, TrackStep
  <2>3. CASE Goto(f, "map")
    BY <1>0, <1>1, <1>10, <2>1, <2>3, GotoMove DEF Track, TrackStep, EntryPCs, FaultPCs
  <2> QED BY <1>10, <2>2, <2>3 DEF Track
<1>11. CASE Link(f)
  <2>1. fault[f].pc = "link" BY <1>11 DEF Link
  <2>2. {} \in SUBSET (Pages \X Entries) OBVIOUS
  <2>3. /\ FaultsOK' /\ Others(f)
        /\ fault'[f].pc = "map" /\ fault'[f].vma = fault[f].vma /\ fault'[f].page = fault[f].page
        /\ fault'[f].entry = fault[f].entry /\ fault'[f].seen = {}
    BY <1>0, <1>11, <2>1, <2>2, SeenMove DEF Link, EntryPCs
  <2> QED BY <1>1, <1>11, <2>1, <2>3 DEF Link, LinkStep
<1>12. CASE MapPage(f)
  BY <1>0, <1>1, <1>12, ReturnMove DEF MapPage, MapStep
<1>13. CASE MapError(f)
  BY <1>0, <1>1, <1>13, ReturnMove DEF MapError, ErrorStep
<1> QED BY <1>1, <1>2, <1>5, <1>6, <1>7, <1>8, <1>9, <1>10, <1>11, <1>12, <1>13 DEF Fault

-----------------------------------------------------------------------------
(* Types *)
LEMMA HashOfType ==
  ASSUME FaultsOK, NEW f \in Faulters, fault[f].pc # "idle"
  PROVE  HashOf(f) \in Hashes
BY DEF FaultsOK, HashOf, Hashes

LEMMA UnrefTypes ==
  ASSUME Types, NEW e \in Entries, NEW put \in {0, 1}, Unref(e, put)
  PROVE  /\ hash' \in [Entries -> Hashes \cup {0}] /\ ref' \in [Entries -> Int]
         /\ pref' \in [Entries -> Int] /\ live' \subseteq Entries /\ total' \in Int
<1>1. ref' \in [Entries -> Int] BY DEF Unref, Types
<1>2. pref' \in [Entries -> Int] BY DEF Unref, Types
<1>3. hash' \in [Entries -> Hashes \cup {0}] BY DEF Unref, Types
<1> QED BY <1>1, <1>2, <1>3 DEF Unref, Types

LEMMA FaultTypes ==
  ASSUME Types, TableInv, NEW f \in Faulters, Fault(f)
  PROVE  Types'
<1>0. FaultsOK /\ FaultsOK' BY FaultMoves DEF Types
<1>1. CASE PlainStep(f) BY <1>0, <1>1 DEF PlainStep, Types, pool, space
<1>2. CASE HitStep(f)
  <2>e. fault'[f].entry \in Entries BY <1>2 DEF HitStep, Cached, TableInv, Types
  <2>1. ref' \in [Entries -> Int] BY <1>2, <2>e DEF HitStep, Types
  <2> QED BY <1>0, <1>2, <2>1 DEF HitStep, Types, space
<1>3. CASE NewStep(f)
  <2>1. HashOf(f) \in Hashes BY <1>0, <1>3, HashOfType DEF NewStep
  <2>2. ref' \in [Entries -> Int] /\ pref' \in [Entries -> Int] BY <1>3 DEF NewStep, Types
  <2>3. hash' \in [Entries -> Hashes \cup {0}] BY <1>3, <2>1 DEF NewStep, Types
  <2> QED BY <1>0, <1>3, <2>2, <2>3 DEF NewStep, Types, space
<1>4. CASE TrackStep(f) BY <1>0, <1>4 DEF TrackStep, Types, pool, space
<1>5. CASE LinkStep(f)
  <2>1. fault[f].vma \in Vmas /\ fault[f].page \in Pages /\ fault[f].entry \in Entries
        /\ fault[f].seen \in SUBSET (Pages \X Entries)
    BY <1>0, <1>5 DEF LinkStep, FaultsOK, FaultType, EntryPCs
  <2>2. tree' \in [Vmas -> SUBSET (Pages \X Entries)]
    BY <1>5, <2>1 DEF LinkStep, Types
  <2> QED BY <1>0, <1>5, <2>2 DEF LinkStep, Types, pool
<1>6. CASE MapStep(f)
  <2>1. fault[f].vma \in Vmas /\ fault[f].page \in Pages /\ fault[f].entry \in Entries
    BY <1>0, <1>6 DEF MapStep, FaultsOK, EntryPCs
  <2>2. pte' \in [Vmas -> [Pages -> Entries \cup {NoEntry}]]
    <3>1. CASE pte' = [pte EXCEPT ![fault[f].vma][fault[f].page] = fault[f].entry]
      <4>1. [pte[fault[f].vma] EXCEPT ![fault[f].page] = fault[f].entry]
              \in [Pages -> Entries \cup {NoEntry}]
        BY <2>1 DEF Types
      <4> QED BY <3>1, <4>1 DEF Types
    <3>2. CASE pte' = pte BY <3>2 DEF Types
    <3> QED BY <1>6, <3>1, <3>2 DEF MapStep
  <2>3. pref' \in [Entries -> Int]
    BY <1>6, <2>1 DEF MapStep, Types
  <2> QED BY <1>0, <1>6, <2>2, <2>3 DEF MapStep, Types
<1>7. CASE ErrorStep(f)
  <2>1. fault[f].entry \in Entries BY <1>0, <1>7 DEF ErrorStep, FaultsOK, EntryPCs
  <2> QED BY <1>0, <1>7, <2>1, UnrefTypes DEF ErrorStep, Types, space
<1> QED BY <1>1, <1>2, <1>3, <1>4, <1>5, <1>6, <1>7, FaultMoves

LEMMA MappingTypes ==
  ASSUME Types, NEW v \in Vmas, Mapping(v)
  PROVE  Types'
<1>0. FaultsOK /\ FaultsOK'
  BY DEF Types, FaultsOK, Mapping, MapVma, Unmap, CloseNode, CloseDone
<1>1. CASE MapVma(v) \/ CloseDone(v)
  BY <1>0, <1>1 DEF MapVma, CloseDone, Types, pool
<1>2. CASE Unmap(v)
  <2>1. \A e \in Entries : Cardinality({p \in Pages : pte[v][p] = e}) \in Nat
    <3>1. ASSUME NEW e \in Entries PROVE Cardinality({p \in Pages : pte[v][p] = e}) \in Nat
      <4>1. {p \in Pages : pte[v][p] = e} \subseteq Pages OBVIOUS
      <4>2. IsFiniteSet({p \in Pages : pte[v][p] = e}) BY <4>1, PoolConstants, FS_Subset
      <4> QED BY <4>2, FS_CardinalityType
    <3> QED BY <3>1
  <2>2. pref' \in [Entries -> Int] BY <1>2, <2>1 DEF Unmap, Types
  <2>3. pte' \in [Vmas -> [Pages -> Entries \cup {NoEntry}]] BY <1>2 DEF Unmap, Types
  <2> QED BY <1>0, <1>2, <2>2, <2>3 DEF Unmap, Types
<1>3. CASE CloseNode(v)
  <2>1. PICK n \in tree[v] : tree' = [tree EXCEPT ![v] = @ \ {n}] /\ Unref(n[2], 1)
    BY <1>3 DEF CloseNode
  <2>2. n[2] \in Entries BY DEF Types
  <2>3. tree' \in [Vmas -> SUBSET (Pages \X Entries)] BY <2>1 DEF Types
  <2> QED BY <1>0, <1>3, <2>1, <2>2, <2>3, UnrefTypes DEF CloseNode, Types
<1> QED BY <1>1, <1>2, <1>3 DEF Mapping

LEMMA DeleteTypes ==
  ASSUME Types, Delete
  PROVE  Types'
<1>0. FaultsOK /\ FaultsOK'
  BY DEF Types, FaultsOK, Delete, ListEmpty, PoolDestroy, PoolInit
<1>1. CASE ListEmpty BY <1>0, <1>1 DEF ListEmpty, Types, pool, space
<1>2. CASE PoolDestroy BY <1>0, <1>2 DEF PoolDestroy, Types, space
<1>3. CASE PoolInit BY <1>0, <1>3 DEF PoolInit, Types, space
<1> QED BY <1>1, <1>2, <1>3 DEF Delete

-----------------------------------------------------------------------------
(* The table *)
LEMMA UnrefTable ==
  ASSUME Types, TableInv, NEW e \in Entries, NEW put \in {0, 1}, Unref(e, put),
         deleter' = deleter
  PROVE  TableInv'
<1>1. CASE ref[e] = 1
  <2>1. e \in bucket /\ bucket' = bucket \ {e} /\ live' = live \ {e} /\ total' = total - 1
        /\ ready /\ ready'
    BY <1>1 DEF Unref
  <2>2. \A d \in bucket' : hash'[d] = hash[d] BY <2>1 DEF Unref, Types, TableInv
  <2>3. IsFiniteSet(bucket') /\ Cardinality(bucket') = Cardinality(bucket) - 1
    BY <2>1, FS_RemoveElement DEF TableInv
  <2> QED BY <2>1, <2>2, <2>3 DEF TableInv, Unref
<1>2. CASE ref[e] # 1
  <2>1. UNCHANGED <<bucket, live, total, ready>> BY <1>2 DEF Unref
  <2>2. \A d \in bucket : hash'[d] = hash[d] BY <1>2 DEF Unref, Types, TableInv
  <2> QED BY <2>1, <2>2 DEF TableInv
<1> QED BY <1>1, <1>2

LEMMA NextTable ==
  ASSUME Types, TableInv, [Next]_vars
  PROVE  TableInv'
<1>1. ASSUME NEW f \in Faulters, Fault(f) PROVE TableInv'
  <2>1. CASE PlainStep(f) BY <2>1 DEF PlainStep, TableInv, pool
  <2>2. CASE HitStep(f) BY <2>2 DEF HitStep, TableInv
  <2>3. CASE NewStep(f)
    <3> DEFINE e == fault'[f].entry
    <3>1. e \in Entries /\ e \notin bucket /\ bucket' = bucket \cup {e}
      BY <2>3 DEF NewStep, TableInv
    <3>2. IsFiniteSet(bucket') /\ Cardinality(bucket') = Cardinality(bucket) + 1
      BY <3>1, FS_AddElement DEF TableInv
    <3>3. hash'[e] = HashOf(f) /\ \A d \in bucket : hash'[d] = hash[d] /\ hash[d] # HashOf(f)
      BY <2>3, <3>1 DEF NewStep, Types, TableInv, Cached
    <3>4. \A c, d \in bucket' : hash'[c] = hash'[d] => c = d BY <3>1, <3>3 DEF TableInv
    <3>5. ready /\ ready' /\ total' = total + 1 /\ bucket' \subseteq live' /\ deleter' = deleter
      BY <2>3, <3>1 DEF NewStep, TableInv
    <3> HIDE DEF e
    <3> QED BY <3>1, <3>2, <3>4, <3>5 DEF TableInv
  <2>4. CASE TrackStep(f) BY <2>4 DEF TrackStep, TableInv, pool
  <2>5. CASE LinkStep(f) BY <2>5 DEF LinkStep, TableInv, pool
  <2>6. CASE MapStep(f) BY <2>6 DEF MapStep, TableInv
  <2>7. CASE ErrorStep(f)
    <3>1. fault[f].entry \in Entries BY <2>7 DEF ErrorStep, Types, FaultsOK, EntryPCs
    <3> QED BY <2>7, <3>1, UnrefTable DEF ErrorStep
  <2> QED BY <1>1, <2>1, <2>2, <2>3, <2>4, <2>5, <2>6, <2>7, FaultMoves
<1>2. ASSUME NEW v \in Vmas, Mapping(v) PROVE TableInv'
  <2>1. CASE MapVma(v) \/ CloseDone(v) BY <2>1 DEF MapVma, CloseDone, TableInv, pool
  <2>2. CASE Unmap(v) BY <2>2 DEF Unmap, TableInv
  <2>3. CASE CloseNode(v)
    <3>1. PICK n \in tree[v] : Unref(n[2], 1) BY <2>3 DEF CloseNode
    <3>2. n[2] \in Entries BY DEF Types
    <3> QED BY <2>3, <3>1, <3>2, UnrefTable DEF CloseNode
  <2> QED BY <1>2, <2>1, <2>2, <2>3 DEF Mapping
<1>3. CASE ListEmpty BY <1>3 DEF ListEmpty, TableInv, pool
<1>4. CASE PoolDestroy
  BY <1>4, FS_EmptySet DEF PoolDestroy, TableInv
<1>5. CASE PoolInit
  BY <1>5, FS_EmptySet DEF PoolInit, TableInv
<1>6. CASE UNCHANGED vars BY <1>6 DEF vars, TableInv
<1> QED BY <1>1, <1>2, <1>3, <1>4, <1>5, <1>6 DEF Next, Delete

-----------------------------------------------------------------------------
(* Owners and their number *)
LEMMA CardAtMost ==
  ASSUME NEW S, NEW T, IsFiniteSet(T), S \subseteq T
  PROVE  /\ IsFiniteSet(S) /\ Cardinality(S) \in Nat /\ Cardinality(T) \in Nat
         /\ Cardinality(S) <= Cardinality(T)
BY FS_Subset, FS_CardinalityType

LEMMA CardOneMore ==
  ASSUME NEW S, NEW T, NEW x, IsFiniteSet(T), S \subseteq T \cup {x}
  PROVE  Cardinality(S) <= Cardinality(T) + 1
<1>1. IsFiniteSet(T \cup {x}) /\ Cardinality(T \cup {x}) <= Cardinality(T) + 1
  <2>1. Cardinality(T) \in Nat BY FS_CardinalityType
  <2>2. /\ IsFiniteSet(T \cup {x})
        /\ Cardinality(T \cup {x}) = IF x \in T THEN Cardinality(T) ELSE Cardinality(T) + 1
    BY FS_AddElement
  <2> QED BY <2>1, <2>2
<1>2. Cardinality(S) <= Cardinality(T \cup {x}) /\ Cardinality(S) \in Nat
  BY <1>1, CardAtMost
<1> QED BY <1>1, <1>2, FS_CardinalityType

LEMMA OwnerSets ==
  ASSUME NEW e
  PROVE  /\ IsFiniteSet(Owned(e)) /\ IsFiniteSet(Settled(e)) /\ IsFiniteSet(Carriers(e))
         /\ IsFiniteSet(Mapped(e))
         /\ Cardinality(Owned(e)) \in Nat /\ Cardinality(Settled(e)) \in Nat
         /\ Cardinality(Carriers(e)) \in Nat /\ Cardinality(Mapped(e)) \in Nat
<1>1. IsFiniteSet(Vmas \X Pages) BY PoolConstants, FS_Product
<1>2. /\ Owned(e) \subseteq Vmas \X Pages /\ Settled(e) \subseteq Vmas \X Pages
      /\ Mapped(e) \subseteq Vmas \X Pages /\ Carriers(e) \subseteq Faulters
  BY DEF Owned, Settled, Mapped, Carriers
<1> QED BY <1>1, <1>2, PoolConstants, CardAtMost

LEMMA OwnerSetsNext ==
  ASSUME NEW e
  PROVE  /\ IsFiniteSet(Owned(e)') /\ IsFiniteSet(Settled(e)') /\ IsFiniteSet(Carriers(e)')
         /\ IsFiniteSet(Mapped(e)')
         /\ Cardinality(Owned(e)') \in Nat /\ Cardinality(Settled(e)') \in Nat
         /\ Cardinality(Carriers(e)') \in Nat /\ Cardinality(Mapped(e)') \in Nat
<1>1. IsFiniteSet(Vmas \X Pages) BY PoolConstants, FS_Product
<1>2. /\ Owned(e)' \subseteq Vmas \X Pages /\ Settled(e)' \subseteq Vmas \X Pages
      /\ Mapped(e)' \subseteq Vmas \X Pages /\ Carriers(e)' \subseteq Faulters
  BY DEF Owned, Settled, Mapped, Carriers
<1> QED BY <1>1, <1>2, PoolConstants, CardAtMost

(* An entry that no step gives a new owner. *)
Fewer(d) ==
  /\ Owned(d)' \subseteq Owned(d) /\ Carriers(d)' \subseteq Carriers(d)
  /\ Settled(d)' \subseteq Settled(d) /\ Mapped(d)' = Mapped(d)
  /\ \A g \in Carriers(d)' : fault'[g].vma = fault[g].vma /\ fault'[g].page = fault[g].page
SameEntry(d) ==
  /\ ref'[d] = ref[d] /\ pref'[d] = pref[d] /\ hash'[d] = hash[d]
  /\ (d \in live') = (d \in live)

LEMMA CountKept ==
  ASSUME Types, NEW d \in Entries, Counted(d), Fewer(d), SameEntry(d)
  PROVE  Counted(d)'
<1>1. /\ Cardinality(Owned(d)') <= Cardinality(Owned(d))
      /\ Cardinality(Carriers(d)') <= Cardinality(Carriers(d))
      /\ Cardinality(Settled(d)') <= Cardinality(Settled(d))
      /\ Cardinality(Mapped(d)') = Cardinality(Mapped(d))
  BY OwnerSets, CardAtMost DEF Fewer
<1>2. ref[d] \in Int /\ pref[d] \in Int BY DEF Types
<1>3. ref'[d] >= Cardinality(Owned(d)') + Cardinality(Carriers(d)')
  BY <1>1, <1>2, OwnerSets, OwnerSetsNext DEF Counted, SameEntry
<1>4. d \in live' => pref'[d] >= 1 + Cardinality(Mapped(d)') + Cardinality(Settled(d)')
  BY <1>1, <1>2, OwnerSets, OwnerSetsNext DEF Counted, SameEntry
<1>5. \A g \in Carriers(d)' : hash'[d] = HashOf(g)'
  BY DEF Counted, SameEntry, Fewer, HashOf
<1> QED BY <1>3, <1>4, <1>5 DEF Counted, SameEntry, Fewer

(* Sets from their members. *)
LEMMA OwnedFrom ==
  ASSUME NEW d, \A v \in Vmas, p \in Pages :
                  (Owns(v, p, d)' => Owns(v, p, d)) /\ (Pending(v, p, d) => Pending(v, p, d)')
  PROVE  Owned(d)' \subseteq Owned(d) /\ Settled(d)' \subseteq Settled(d)
BY DEF Owned, Settled

LEMMA PlainOwners ==
  ASSUME Types, Types', NEW f \in Faulters, PlainStep(f), NEW d \in Entries
  PROVE  Fewer(d) /\ SameEntry(d)
<1>1. ASSUME NEW v \in Vmas, NEW p \in Pages
      PROVE  (Owns(v, p, d)' => Owns(v, p, d)) /\ (Pending(v, p, d) => Pending(v, p, d)')
  <2>1. Pending(v, p, d)' = Pending(v, p, d)
    BY DEF Pending, PlainStep, Others, EntryPCs
  <2>2. Seen(v, p, d)' => Seen(v, p, d)
    BY PoolConstants DEF Seen, PlainStep, Others
  <2> QED BY <2>1, <2>2 DEF Owns, PlainStep, space
<1>2. Owned(d)' \subseteq Owned(d) /\ Settled(d)' \subseteq Settled(d)
  BY <1>1, OwnedFrom
<1>3. Carriers(d)' = Carriers(d) /\ \A g \in Carriers(d)' : fault'[g] = fault[g]
  BY DEF Carriers, PlainStep, Others, EntryPCs
<1>4. Mapped(d)' = Mapped(d) BY DEF Mapped, PlainStep, space
<1> QED BY <1>2, <1>3, <1>4 DEF Fewer, SameEntry, PlainStep, pool

(* A fault that gets an entry is one more owner of that one. *)
LEMMA GetOwners ==
  ASSUME Types, Types', NEW f \in Faulters, HitStep(f) \/ NewStep(f), NEW d \in Entries
  PROVE  /\ Owned(d)' \subseteq Owned(d) /\ Settled(d)' \subseteq Settled(d)
         /\ Mapped(d)' = Mapped(d)
         /\ \A g \in Faulters : fault'[g].vma = fault[g].vma /\ fault'[g].page = fault[g].page
         /\ Carriers(d)' = IF d = fault'[f].entry THEN Carriers(d) \cup {f} ELSE Carriers(d)
<1>1. ASSUME NEW v \in Vmas, NEW p \in Pages
      PROVE  (Owns(v, p, d)' => Owns(v, p, d)) /\ (Pending(v, p, d) => Pending(v, p, d)')
  <2>1. Pending(v, p, d)' = Pending(v, p, d)
    BY DEF Pending, HitStep, NewStep, Others, EntryPCs
  <2>2. Seen(v, p, d)' = Seen(v, p, d)
    BY DEF Seen, HitStep, NewStep, Others
  <2> QED BY <2>1, <2>2 DEF Owns, HitStep, NewStep, space
<1>2. Owned(d)' \subseteq Owned(d) /\ Settled(d)' \subseteq Settled(d)
  BY <1>1, OwnedFrom
<1>3. Carriers(d)' = IF d = fault'[f].entry THEN Carriers(d) \cup {f} ELSE Carriers(d)
  BY DEF Carriers, HitStep, NewStep, Others, EntryPCs
<1>4. Mapped(d)' = Mapped(d) BY DEF Mapped, HitStep, NewStep, space
<1>5. \A g \in Faulters : fault'[g].vma = fault[g].vma /\ fault'[g].page = fault[g].page
  BY DEF HitStep, NewStep, Others
<1> QED BY <1>2, <1>3, <1>4, <1>5

(* A fault that has done with the tree owns its entry through its page. *)
LEMMA TrackOwners ==
  ASSUME Types, Types', NEW f \in Faulters, TrackStep(f) \/ LinkStep(f), NEW d \in Entries
  PROVE  /\ Settled(d)' \subseteq Settled(d) /\ Mapped(d)' = Mapped(d)
         /\ \A g \in Faulters : fault'[g].vma = fault[g].vma /\ fault'[g].page = fault[g].page
         /\ IF fault'[f].pc = "map" /\ d = fault[f].entry
            THEN /\ Owned(d)' \subseteq Owned(d) \cup {<<fault[f].vma, fault[f].page>>}
                 /\ Carriers(d)' = Carriers(d) \ {f} /\ f \in Carriers(d)
            ELSE Owned(d)' \subseteq Owned(d) /\ Carriers(d)' = Carriers(d)
<1> DEFINE w == fault[f].vma
           q == fault[f].page
           e == fault[f].entry
<1>0. w \in Vmas /\ q \in Pages /\ e \in Entries
  BY DEF TrackStep, LinkStep, Types, FaultsOK, EntryPCs
<1>1. ASSUME NEW v \in Vmas, NEW p \in Pages
      PROVE  /\ Owns(v, p, d)' => Owns(v, p, d) \/ (fault'[f].pc = "map" /\ v = w /\ p = q /\ d = e)
             /\ Pending(v, p, d) => Pending(v, p, d)'
             /\ fault'[f].pc = "map" /\ v = w /\ p = q /\ d = e => Pending(v, p, d)'
  <2>1. Pending(v, p, d) => Pending(v, p, d)'
    BY DEF Pending, TrackStep, LinkStep, Others
  <2>2. Pending(v, p, d)' => Pending(v, p, d) \/ (fault'[f].pc = "map" /\ v = w /\ p = q /\ d = e)
    BY DEF Pending, TrackStep, LinkStep, Others
  <2>3. fault'[f].pc = "map" /\ v = w /\ p = q /\ d = e => Pending(v, p, d)'
    BY DEF Pending, TrackStep, LinkStep
  <2>4. pte' = pte BY DEF TrackStep, LinkStep, space
  <2>5. Seen(v, p, d)' => Seen(v, p, d) \/ <<p, d>> \in tree[v]
    BY DEF Seen, TrackStep, LinkStep, Others
  <2>6. <<p, d>> \in tree'[v] =>
          <<p, d>> \in tree[v] \/ Seen(v, p, d) \/ (fault'[f].pc = "map" /\ v = w /\ p = q /\ d = e)
    <3>1. CASE TrackStep(f) BY <3>1 DEF TrackStep, space
    <3>2. CASE LinkStep(f)
      <4>1. PICK t \in {tree[w], fault[f].seen} : tree' = [tree EXCEPT ![w] = t \cup {<<q, e>>}]
        BY <3>2 DEF LinkStep
      <4>2. CASE v = w
        <5>1. tree'[v] = t \cup {<<q, e>>} BY <1>0, <4>1, <4>2 DEF Types
        <5>2. <<p, d>> \in fault[f].seen => Seen(v, p, d) BY <4>2 DEF Seen
        <5>3. fault'[f].pc = "map" BY <3>2 DEF LinkStep
        <5> QED BY <4>1, <4>2, <5>1, <5>2, <5>3
      <4>3. CASE v # w BY <1>0, <4>1, <4>3 DEF Types
      <4> QED BY <4>2, <4>3
    <3> QED BY <3>1, <3>2
  <2> QED BY <2>1, <2>2, <2>3, <2>4, <2>5, <2>6 DEF Owns
<1>2. Settled(d)' \subseteq Settled(d) BY <1>1 DEF Settled, Owned
<1>3. Mapped(d)' = Mapped(d) BY DEF Mapped, TrackStep, LinkStep, space
<1>4. \A g \in Faulters : fault'[g].vma = fault[g].vma /\ fault'[g].page = fault[g].page
  BY DEF TrackStep, LinkStep, Others
<1>5. CASE fault'[f].pc = "map" /\ d = e
  <2>1. Owned(d)' \subseteq Owned(d) \cup {<<w, q>>} BY <1>1 DEF Owned
  <2>2. Carriers(d)' = Carriers(d) \ {f} /\ f \in Carriers(d)
    BY <1>5 DEF Carriers, TrackStep, LinkStep, Others
  <2> QED BY <1>2, <1>3, <1>4, <1>5, <2>1, <2>2
<1>6. CASE ~(fault'[f].pc = "map" /\ d = e)
  <2>1. Owned(d)' \subseteq Owned(d) BY <1>1, <1>6 DEF Owned
  <2>2. Carriers(d)' = Carriers(d)
    BY <1>6 DEF Carriers, TrackStep, LinkStep, Others
  <2> QED BY <1>2, <1>3, <1>4, <1>6, <2>1, <2>2
<1> QED BY <1>5, <1>6

(* A fault that maps its page: get_page's reference, and one for the page  *)
(* table entry if it is the first to set it.                               *)
LEMMA MapOwners ==
  ASSUME Types, Types', NEW f \in Faulters, MapStep(f), NEW d \in Entries
  PROVE  /\ Owned(d)' \subseteq Owned(d) /\ Carriers(d)' = Carriers(d)
         /\ \A g \in Carriers(d)' : fault'[g] = fault[g]
         /\ d # fault[f].entry => Settled(d)' \subseteq Settled(d) /\ Mapped(d)' = Mapped(d)
         /\ d = fault[f].entry =>
              LET vp == <<fault[f].vma, fault[f].page>>
              IN  /\ Settled(d)' \subseteq Settled(d) \cup {vp}
                  /\ Mapped(d)' \subseteq IF pte[fault[f].vma][fault[f].page] = NoEntry
                                          THEN Mapped(d) \cup {vp} ELSE Mapped(d)
<1> DEFINE w == fault[f].vma
           q == fault[f].page
           e == fault[f].entry
<1>0. w \in Vmas /\ q \in Pages /\ e \in Entries
  BY DEF MapStep, Types, FaultsOK, EntryPCs
<1>i. fault'[f].pc = "idle" /\ fault'[f].seen = {} BY IdleType DEF MapStep
<1>p. \A v \in Vmas, p \in Pages :
        pte'[v][p] = IF v = w /\ p = q /\ pte[w][q] = NoEntry THEN e ELSE pte[v][p]
  BY <1>0 DEF MapStep, Types
<1>1. ASSUME NEW v \in Vmas, NEW p \in Pages
      PROVE  /\ Owns(v, p, d)' => Owns(v, p, d)
             /\ Pending(v, p, d) => Pending(v, p, d)' \/ (v = w /\ p = q /\ d = e)
  <2>1. Pending(v, p, d)' => Pending(v, p, d)
    BY <1>i DEF Pending, MapStep, Others
  <2>2. Pending(v, p, d) => Pending(v, p, d)' \/ (v = w /\ p = q /\ d = e)
    BY DEF Pending, MapStep, Others
  <2>3. Seen(v, p, d)' => Seen(v, p, d) BY <1>i DEF Seen, MapStep, Others
  <2>4. Pending(w, q, e) BY DEF Pending, MapStep
  <2>5. pte'[v][p] = d => pte[v][p] = d \/ Pending(v, p, d) BY <1>p, <2>4
  <2>6. tree' = tree BY DEF MapStep
  <2> QED BY <2>1, <2>2, <2>3, <2>5, <2>6 DEF Owns
<1>2. Owned(d)' \subseteq Owned(d) BY <1>1 DEF Owned
<1>3. Carriers(d)' = Carriers(d) /\ \A g \in Carriers(d)' : fault'[g] = fault[g]
  BY <1>i DEF Carriers, MapStep, Others
<1>4. ASSUME d # e PROVE Settled(d)' \subseteq Settled(d) /\ Mapped(d)' = Mapped(d)
  <2>1. Settled(d)' \subseteq Settled(d) BY <1>1, <1>4 DEF Settled, Owned
  <2>2. NoEntry # d BY PoolConstants
  <2>3. Mapped(d)' = Mapped(d) BY <1>p, <1>4, <2>2 DEF Mapped
  <2> QED BY <2>1, <2>3
<1>5. ASSUME d = e
      PROVE  /\ Settled(d)' \subseteq Settled(d) \cup {<<w, q>>}
             /\ Mapped(d)' \subseteq IF pte[w][q] = NoEntry THEN Mapped(d) \cup {<<w, q>>}
                                     ELSE Mapped(d)
  <2>1. Settled(d)' \subseteq Settled(d) \cup {<<w, q>>} BY <1>1, <1>5 DEF Settled, Owned
  <2>2. Mapped(d)' \subseteq IF pte[w][q] = NoEntry THEN Mapped(d) \cup {<<w, q>>} ELSE Mapped(d)
    BY <1>p, <1>5 DEF Mapped
  <2> QED BY <2>1, <2>2
<1> QED BY <1>2, <1>3, <1>4, <1>5

(* The steps of faults keep the owners counted. *)
LEMMA GetCounted ==
  ASSUME Types, Types', TableInv, OwnerInv, NEW f \in Faulters, HitStep(f) \/ NewStep(f),
         NEW d \in Entries
  PROVE  Counted(d)'
<1> DEFINE e == fault'[f].entry
<1>0. Counted(d) /\ ref[d] \in Int /\ pref[d] \in Int BY DEF OwnerInv, Types
<1>1. /\ Owned(d)' \subseteq Owned(d) /\ Settled(d)' \subseteq Settled(d)
      /\ Mapped(d)' = Mapped(d)
      /\ \A g \in Faulters : fault'[g].vma = fault[g].vma /\ fault'[g].page = fault[g].page
      /\ Carriers(d)' = IF d = e THEN Carriers(d) \cup {f} ELSE Carriers(d)
  BY GetOwners
<1>h. \A g \in Faulters : HashOf(g)' = HashOf(g) BY <1>1 DEF HashOf
<1>2. CASE d # e
  <2>1. SameEntry(d) BY <1>2 DEF HitStep, NewStep, SameEntry, Types
  <2>2. Fewer(d) BY <1>1, <1>2 DEF Fewer, Carriers
  <2> QED BY <1>0, <2>1, <2>2, CountKept
<1>3. CASE d = e
  <2>1. /\ Cardinality(Owned(d)') <= Cardinality(Owned(d))
        /\ Cardinality(Settled(d)') <= Cardinality(Settled(d))
        /\ Cardinality(Mapped(d)') = Cardinality(Mapped(d))
    BY <1>1, OwnerSets, CardAtMost
  <2>2. Cardinality(Carriers(d)') <= Cardinality(Carriers(d)) + 1
    BY <1>1, <1>3, OwnerSets, CardOneMore
  <2>3. CASE HitStep(f)
    <3>1. d \in live /\ d \in live' /\ hash'[d] = hash[d] /\ hash[d] = HashOf(f)
          /\ ref'[d] = ref[d] + 1 /\ pref'[d] = pref[d]
      BY <1>3, <2>3 DEF HitStep, Cached, TableInv, Types
    <3>2. ref'[d] >= Cardinality(Owned(d)') + Cardinality(Carriers(d)')
      BY <1>0, <2>1, <2>2, <3>1, OwnerSets, OwnerSetsNext DEF Counted
    <3>3. pref'[d] >= 1 + Cardinality(Mapped(d)') + Cardinality(Settled(d)')
      BY <1>0, <2>1, <3>1, OwnerSets, OwnerSetsNext DEF Counted
    <3>4. \A g \in Carriers(d)' : hash'[d] = HashOf(g)'
      BY <1>0, <1>1, <1>h, <1>3, <3>1 DEF Counted, Carriers
    <3>5. \A vp \in Owned(d)' : hash'[d] = PageTable[vp[1]][vp[2]]
      BY <1>0, <1>1, <3>1 DEF Counted
    <3> QED BY <3>1, <3>2, <3>3, <3>4, <3>5 DEF Counted
  <2>4. CASE NewStep(f)
    <3>1. d \notin live /\ d \in live' /\ hash'[d] = HashOf(f) /\ ref'[d] = 1 /\ pref'[d] = 1
      BY <1>3, <2>4 DEF NewStep, Types
    <3>2. Owned(d) = {} /\ Carriers(d) = {} BY <1>0, <3>1 DEF Counted
    <3>3. Settled(d) = {} /\ Mapped(d) = {} BY <3>2 DEF Settled, Mapped, Owned, Owns
    <3>4. /\ Cardinality(Owned(d)) = 0 /\ Cardinality(Carriers(d)) = 0
          /\ Cardinality(Settled(d)) = 0 /\ Cardinality(Mapped(d)) = 0
      BY <3>2, <3>3, FS_EmptySet
    <3>5. ref'[d] >= Cardinality(Owned(d)') + Cardinality(Carriers(d)')
      BY <2>1, <2>2, <3>1, <3>4, OwnerSetsNext
    <3>6. pref'[d] >= 1 + Cardinality(Mapped(d)') + Cardinality(Settled(d)')
      BY <2>1, <3>1, <3>4, OwnerSetsNext
    <3>7. \A g \in Carriers(d)' : hash'[d] = HashOf(g)' BY <1>1, <1>h, <1>3, <3>1, <3>2
    <3>8. \A vp \in Owned(d)' : hash'[d] = PageTable[vp[1]][vp[2]] BY <1>1, <3>2
    <3> QED BY <3>1, <3>5, <3>6, <3>7, <3>8 DEF Counted
  <2> QED BY <2>3, <2>4
<1> QED BY <1>2, <1>3

LEMMA TrackCounted ==
  ASSUME Types, Types', OwnerInv, NEW f \in Faulters, TrackStep(f) \/ LinkStep(f),
         NEW d \in Entries
  PROVE  Counted(d)'
<1> DEFINE e == fault[f].entry
           vp0 == <<fault[f].vma, fault[f].page>>
<1>0. Counted(d) /\ ref[d] \in Int /\ pref[d] \in Int BY DEF OwnerInv, Types
<1>1. /\ Settled(d)' \subseteq Settled(d) /\ Mapped(d)' = Mapped(d)
      /\ \A g \in Faulters : fault'[g].vma = fault[g].vma /\ fault'[g].page = fault[g].page
  BY TrackOwners
<1>2. SameEntry(d) BY DEF TrackStep, LinkStep, SameEntry, pool
<1>3. CASE fault'[f].pc = "map" /\ d = e
  <2>1. /\ Owned(d)' \subseteq Owned(d) \cup {vp0}
        /\ Carriers(d)' = Carriers(d) \ {f} /\ f \in Carriers(d)
    BY <1>3, TrackOwners
  <2>2. Cardinality(Owned(d)') <= Cardinality(Owned(d)) + 1
    BY <2>1, OwnerSets, CardOneMore
  <2>3. Cardinality(Carriers(d)') = Cardinality(Carriers(d)) - 1
    BY <2>1, OwnerSets, FS_RemoveElement
  <2>4. /\ Cardinality(Settled(d)') <= Cardinality(Settled(d))
        /\ Cardinality(Mapped(d)') = Cardinality(Mapped(d))
    BY <1>1, OwnerSets, CardAtMost
  <2>5. d \in live /\ hash[d] = HashOf(f) BY <1>0, <2>1 DEF Counted
  <2>6. ref'[d] >= Cardinality(Owned(d)') + Cardinality(Carriers(d)')
    BY <1>0, <1>2, <2>2, <2>3, OwnerSets, OwnerSetsNext DEF Counted, SameEntry
  <2>7. pref'[d] >= 1 + Cardinality(Mapped(d)') + Cardinality(Settled(d)')
    BY <1>0, <1>2, <2>4, <2>5, OwnerSets, OwnerSetsNext DEF Counted, SameEntry
  <2>8. \A g \in Carriers(d)' : hash'[d] = HashOf(g)'
    BY <1>0, <1>1, <1>2, <2>1 DEF Counted, SameEntry, HashOf, Carriers
  <2>9. \A vp \in Owned(d)' : hash'[d] = PageTable[vp[1]][vp[2]]
    BY <1>0, <1>2, <2>1, <2>5 DEF Counted, SameEntry, HashOf
  <2> QED BY <1>2, <2>5, <2>6, <2>7, <2>8, <2>9 DEF Counted, SameEntry
<1>4. CASE ~(fault'[f].pc = "map" /\ d = e)
  <2>1. Owned(d)' \subseteq Owned(d) /\ Carriers(d)' = Carriers(d) BY <1>4, TrackOwners
  <2>2. Fewer(d) BY <1>1, <2>1 DEF Fewer, Carriers
  <2> QED BY <1>0, <1>2, <2>2, CountKept
<1> QED BY <1>3, <1>4

LEMMA MapCounted ==
  ASSUME Types, Types', OwnerInv, NEW f \in Faulters, MapStep(f), NEW d \in Entries
  PROVE  Counted(d)'
<1> DEFINE e == fault[f].entry
           vp0 == <<fault[f].vma, fault[f].page>>
           first == pte[fault[f].vma][fault[f].page] = NoEntry
<1>0. Counted(d) /\ ref[d] \in Int /\ pref[d] \in Int BY DEF OwnerInv, Types
<1>1. /\ Owned(d)' \subseteq Owned(d) /\ Carriers(d)' = Carriers(d)
      /\ \A g \in Carriers(d)' : fault'[g] = fault[g]
  BY MapOwners
<1>2. CASE d # e
  <2>1. Settled(d)' \subseteq Settled(d) /\ Mapped(d)' = Mapped(d) BY <1>2, MapOwners
  <2>2. Fewer(d) BY <1>1, <2>1 DEF Fewer
  <2>3. SameEntry(d) BY <1>2 DEF MapStep, SameEntry, Types
  <2> QED BY <1>0, <2>2, <2>3, CountKept
<1>3. CASE d = e
  <2>1. /\ Settled(d)' \subseteq Settled(d) \cup {vp0}
        /\ Mapped(d)' \subseteq IF first THEN Mapped(d) \cup {vp0} ELSE Mapped(d)
    BY <1>3, MapOwners
  <2>2. /\ d \in live /\ d \in live' /\ hash'[d] = hash[d] /\ ref'[d] = ref[d]
        /\ pref'[d] = IF first THEN pref[d] + 2 ELSE pref[d] + 1
    BY <1>3 DEF MapStep, Types
  <2>3. Cardinality(Settled(d)') <= Cardinality(Settled(d)) + 1
    BY <2>1, OwnerSets, CardOneMore
  <2>4. Cardinality(Mapped(d)') <= IF first THEN Cardinality(Mapped(d)) + 1
                                   ELSE Cardinality(Mapped(d))
    <3>1. CASE first BY <2>1, <3>1, OwnerSets, CardOneMore
    <3>2. CASE ~first BY <2>1, <3>2, OwnerSets, CardAtMost
    <3> QED BY <3>1, <3>2
  <2> HIDE DEF first
  <2>5. pref'[d] >= 1 + Cardinality(Mapped(d)') + Cardinality(Settled(d)')
    BY <1>0, <2>2, <2>3, <2>4, OwnerSets, OwnerSetsNext DEF Counted
  <2>6. Cardinality(Owned(d)') <= Cardinality(Owned(d)) BY <1>1, OwnerSets, CardAtMost
  <2>7. ref'[d] >= Cardinality(Owned(d)') + Cardinality(Carriers(d)')
    BY <1>0, <1>1, <2>2, <2>6, OwnerSets, OwnerSetsNext DEF Counted
  <2>8. \A g \in Carriers(d)' : hash'[d] = HashOf(g)'
    BY <1>0, <1>1, <2>2 DEF Counted, HashOf
  <2>9. \A vp \in Owned(d)' : hash'[d] = PageTable[vp[1]][vp[2]]
    BY <1>0, <1>1, <2>2 DEF Counted
  <2> QED BY <2>2, <2>5, <2>7, <2>8, <2>9 DEF Counted
<1> QED BY <1>2, <1>3

(* Mappings.  munmap gives back a reference for every page table entry. *)
LEMMA UnmapCounted ==
  ASSUME Types, Types', OwnerInv, NEW v \in Vmas, Unmap(v), NEW d \in Entries
  PROVE  Counted(d)'
<1> DEFINE gone == {p \in Pages : pte[v][p] = d}
<1>0. Counted(d) /\ ref[d] \in Int /\ pref[d] \in Int BY DEF OwnerInv, Types
<1>n. d # NoEntry BY PoolConstants
<1>1. \A w \in Vmas, p \in Pages :
        pte'[w][p] = IF w = v THEN NoEntry ELSE pte[w][p]
  BY DEF Unmap, Types
<1>2. tree' = tree /\ fault' = fault BY DEF Unmap
<1>3. ASSUME NEW w \in Vmas, NEW p \in Pages
      PROVE  (Owns(w, p, d)' => Owns(w, p, d)) /\ (Pending(w, p, d) => Pending(w, p, d)')
  <2>1. Pending(w, p, d)' = Pending(w, p, d) /\ Seen(w, p, d)' = Seen(w, p, d)
    BY <1>2 DEF Pending, Seen
  <2> QED BY <1>n, <1>1, <1>2, <2>1 DEF Owns
<1>4. Owned(d)' \subseteq Owned(d) /\ Settled(d)' \subseteq Settled(d)
  BY <1>3, OwnedFrom
<1>5. Carriers(d)' = Carriers(d) BY <1>2 DEF Carriers
<1>6. Mapped(d) = Mapped(d)' \cup ({v} \X gone) /\ Mapped(d)' \cap ({v} \X gone) = {}
  <2>1. \A w \in Vmas, p \in Pages :
          <<w, p>> \in Mapped(d) <=> <<w, p>> \in Mapped(d)' \/ <<w, p>> \in {v} \X gone
    BY <1>n, <1>1 DEF Mapped
  <2>2. Mapped(d) \subseteq Vmas \X Pages /\ Mapped(d)' \subseteq Vmas \X Pages
        /\ {v} \X gone \subseteq Vmas \X Pages
    BY DEF Mapped
  <2>3. \A vp \in Vmas \X Pages : vp \in Mapped(d) <=> vp \in Mapped(d)' \/ vp \in {v} \X gone
    BY <2>1
  <2>4. \A vp \in Mapped(d)' : vp[1] # v BY <1>n, <1>1 DEF Mapped
  <2>5. \A vp \in {v} \X gone : vp[1] = v OBVIOUS
  <2> QED BY <2>2, <2>3, <2>4, <2>5
<1>7. IsFiniteSet(gone) /\ Cardinality(gone) \in Nat
  <2>1. gone \subseteq Pages OBVIOUS
  <2> QED BY <2>1, PoolConstants, CardAtMost
<1>8. IsFiniteSet({v} \X gone) /\ Cardinality({v} \X gone) = Cardinality(gone)
  <2>1. IsFiniteSet({v}) /\ Cardinality({v}) = 1 BY FS_Singleton
  <2>2. IsFiniteSet({v} \X gone) /\ Cardinality({v} \X gone) = Cardinality({v}) * Cardinality(gone)
    BY <1>7, <2>1, FS_Product
  <2> HIDE DEF gone
  <2> QED BY <1>7, <2>1, <2>2
<1>9. Cardinality(Mapped(d)) = Cardinality(Mapped(d)') + Cardinality(gone)
  <2>1. Cardinality(Mapped(d)' \cup ({v} \X gone))
          = Cardinality(Mapped(d)') + Cardinality({v} \X gone)
            - Cardinality(Mapped(d)' \cap ({v} \X gone))
    BY <1>8, OwnerSetsNext, FS_Union
  <2>2. Cardinality(Mapped(d)' \cap ({v} \X gone)) = 0 BY <1>6, FS_EmptySet
  <2>3. Cardinality(Mapped(d)' \cup ({v} \X gone)) = Cardinality(Mapped(d)) BY <1>6
  <2> HIDE DEF gone
  <2> QED BY <1>7, <1>8, <2>1, <2>2, <2>3, OwnerSetsNext
<1>10. pref'[d] = pref[d] - Cardinality(gone) /\ ref'[d] = ref[d] /\ hash'[d] = hash[d]
       /\ live' = live
  BY DEF Unmap
<1> HIDE DEF gone
<1>11. /\ Cardinality(Owned(d)') <= Cardinality(Owned(d))
       /\ Cardinality(Settled(d)') <= Cardinality(Settled(d))
  BY <1>4, OwnerSets, CardAtMost
<1>12. ref'[d] >= Cardinality(Owned(d)') + Cardinality(Carriers(d)')
  BY <1>0, <1>5, <1>10, <1>11, OwnerSets, OwnerSetsNext DEF Counted
<1>13. d \in live' => pref'[d] >= 1 + Cardinality(Mapped(d)') + Cardinality(Settled(d)')
  BY <1>0, <1>7, <1>9, <1>10, <1>11, OwnerSets, OwnerSetsNext DEF Counted
<1>14. \A g \in Carriers(d)' : hash'[d] = HashOf(g)'
  BY <1>0, <1>2, <1>5, <1>10 DEF Counted, HashOf
<1>15. \A vp \in Owned(d)' : hash'[d] = PageTable[vp[1]][vp[2]] BY <1>0, <1>4, <1>10 DEF Counted
<1> QED BY <1>0, <1>4, <1>5, <1>10, <1>12, <1>13, <1>14, <1>15 DEF Counted

(* Closing a mapping: a node gives back the reference its page owns. *)
LEMMA CloseCounted ==
  ASSUME Types, Types', OwnerInv, NEW v \in Vmas, CloseNode(v), NEW d \in Entries
  PROVE  Counted(d)'
<1>0. Counted(d) /\ ref[d] \in Int /\ pref[d] \in Int BY DEF OwnerInv, Types
<1>1. PICK n \in tree[v] : tree' = [tree EXCEPT ![v] = @ \ {n}] /\ Unref(n[2], 1)
  BY DEF CloseNode
<1> DEFINE q == n[1]
           e == n[2]
<1>2. q \in Pages /\ e \in Entries /\ n = <<q, e>> BY DEF Types
<1>n. d # NoEntry BY PoolConstants
<1>3. vma[v] = "closing" /\ pte' = pte /\ fault' = fault BY DEF CloseNode
<1>4. (\A f \in Faulters : fault[f].vma # v) /\ \A p \in Pages : pte[v][p] = NoEntry
  BY <1>3 DEF OwnerInv, ClosingInv
<1>5. ASSUME NEW w \in Vmas, NEW p \in Pages
      PROVE  /\ Owns(w, p, d)' => Owns(w, p, d) /\ ~(w = v /\ p = q /\ d = e)
             /\ Pending(w, p, d) => Pending(w, p, d)'
  <2>1. Pending(w, p, d)' = Pending(w, p, d) /\ Seen(w, p, d)' = Seen(w, p, d)
    BY <1>3 DEF Pending, Seen
  <2>2. w = v => ~Pending(w, p, d) /\ ~Seen(w, p, d) /\ pte[w][p] # d
    BY <1>n, <1>4 DEF Pending, Seen
  <2>3. tree'[w] = IF w = v THEN tree[v] \ {<<q, e>>} ELSE tree[w]
    BY <1>1, <1>2 DEF Types
  <2> HIDE DEF q, e
  <2> QED BY <1>3, <2>1, <2>2, <2>3 DEF Owns
<1>6. Owned(d)' \subseteq Owned(d) /\ Settled(d)' \subseteq Settled(d)
  BY <1>5, OwnedFrom
<1>7. Carriers(d)' = Carriers(d) /\ Mapped(d)' = Mapped(d) /\ \A g \in Faulters : HashOf(g)' = HashOf(g)
  BY <1>3 DEF Carriers, Mapped, HashOf
<1>8. CASE d # e
  <2>1. SameEntry(d) BY <1>1, <1>2, <1>8 DEF Unref, SameEntry, Types
  <2>2. Fewer(d) BY <1>3, <1>6, <1>7 DEF Fewer
  <2> QED BY <1>0, <2>1, <2>2, CountKept
<1>9. CASE d = e
  <2>1. <<v, q>> \in Settled(d)
    <3>1. <<q, d>> \in tree[v] BY <1>1, <1>2, <1>9
    <3>2. ~Pending(v, q, d) BY <1>4 DEF Pending
    <3> QED BY <1>2, <3>1, <3>2 DEF Settled, Owned, Owns
  <2>2. <<v, q>> \in Owned(d) BY <2>1 DEF Settled
  <2>3. <<v, q>> \notin Owned(d)' BY <1>2, <1>5, <1>9 DEF Owned
  <2>4. <<v, q>> \notin Settled(d)' BY <2>3 DEF Settled
  <2>5. /\ Cardinality(Owned(d)') <= Cardinality(Owned(d)) - 1
        /\ Cardinality(Settled(d)') <= Cardinality(Settled(d)) - 1
    <3>1. /\ IsFiniteSet(Owned(d) \ {<<v, q>>})
          /\ Cardinality(Owned(d) \ {<<v, q>>}) = Cardinality(Owned(d)) - 1
      BY <2>2, OwnerSets, FS_RemoveElement
    <3>2. /\ IsFiniteSet(Settled(d) \ {<<v, q>>})
          /\ Cardinality(Settled(d) \ {<<v, q>>}) = Cardinality(Settled(d)) - 1
      BY <2>1, OwnerSets, FS_RemoveElement
    <3>3. /\ Owned(d)' \subseteq Owned(d) \ {<<v, q>>}
          /\ Settled(d)' \subseteq Settled(d) \ {<<v, q>>}
      BY <1>6, <2>3, <2>4
    <3>4. Cardinality(Owned(d)') <= Cardinality(Owned(d) \ {<<v, q>>}) BY <3>1, <3>3, CardAtMost
    <3>5. Cardinality(Settled(d)') <= Cardinality(Settled(d) \ {<<v, q>>}) BY <3>2, <3>3, CardAtMost
    <3> HIDE DEF q
    <3> QED BY <3>1, <3>2, <3>4, <3>5
  <2>6. ref'[d] = ref[d] - 1 BY <1>1, <1>2, <1>9 DEF Unref, Types
  <2>7. ref'[d] >= Cardinality(Owned(d)') + Cardinality(Carriers(d)')
    BY <1>0, <1>7, <2>5, <2>6, OwnerSets, OwnerSetsNext DEF Counted
  <2>8. CASE ref[d] = 1
    <3>1. Cardinality(Owned(d)') = 0 /\ Cardinality(Carriers(d)') = 0
      BY <2>6, <2>7, <2>8, OwnerSetsNext
    <3>2. Owned(d)' = {} /\ Carriers(d)' = {} BY <3>1, OwnerSetsNext, FS_EmptySet
    <3>3. d \notin live' BY <1>1, <1>9, <2>8 DEF Unref
    <3> QED BY <2>7, <3>2, <3>3 DEF Counted
  <2>9. CASE ref[d] # 1
    <3>1. /\ pref'[d] = pref[d] - 1 /\ hash'[d] = hash[d] /\ live' = live
      BY <1>1, <1>2, <1>9, <2>9 DEF Unref, Types
    <3>2. d \in live' => pref'[d] >= 1 + Cardinality(Mapped(d)') + Cardinality(Settled(d)')
      BY <1>0, <1>7, <2>5, <3>1, OwnerSets, OwnerSetsNext DEF Counted
    <3>3. \A g \in Carriers(d)' : hash'[d] = HashOf(g)'
      BY <1>0, <1>7, <3>1 DEF Counted, Carriers
    <3>4. \A vp \in Owned(d)' : hash'[d] = PageTable[vp[1]][vp[2]] BY <1>0, <1>6, <3>1 DEF Counted
    <3> QED BY <1>0, <1>6, <1>7, <2>7, <3>1, <3>2, <3>3, <3>4 DEF Counted
  <2> QED BY <2>8, <2>9
<1> QED BY <1>8, <1>9

(* Steps that touch no fault, tree or page table. *)
LEMMA StillOwners ==
  ASSUME UNCHANGED <<tree, pte, fault>>, NEW d
  PROVE  /\ Owned(d)' = Owned(d) /\ Carriers(d)' = Carriers(d)
         /\ Settled(d)' = Settled(d) /\ Mapped(d)' = Mapped(d)
<1>1. \A v, p : Pending(v, p, d)' = Pending(v, p, d) /\ Seen(v, p, d)' = Seen(v, p, d)
  BY DEF Pending, Seen
<1>2. \A v, p : Owns(v, p, d)' = Owns(v, p, d) BY <1>1 DEF Owns
<1> QED BY <1>1, <1>2 DEF Owned, Settled, Carriers, Mapped

LEMMA StillCounted ==
  ASSUME Types, UNCHANGED <<tree, pte, fault, hash, ref, pref, live>>, NEW d \in Entries, Counted(d)
  PROVE  Counted(d)'
<1>1. Fewer(d) BY StillOwners DEF Fewer
<1>2. SameEntry(d) BY DEF SameEntry
<1> QED BY <1>1, <1>2, CountKept

LEMMA DestroyCounted ==
  ASSUME Types, OwnerInv, PoolDestroy, NEW d \in Entries
  PROVE  Counted(d)'
<1>0. Counted(d) BY DEF OwnerInv
<1>1. UNCHANGED <<tree, pte, fault, ref>> BY DEF PoolDestroy, space
<1>2. CASE d \in bucket /\ ref[d] = 0
  <2>1. Cardinality(Owned(d)) = 0 /\ Cardinality(Carriers(d)) = 0
    BY <1>0, <1>2, OwnerSets DEF Counted
  <2>2. Owned(d) = {} /\ Carriers(d) = {} BY <2>1, OwnerSets, FS_EmptySet
  <2>3. d \notin live' BY <1>2 DEF PoolDestroy
  <2> QED BY <1>0, <1>1, <2>2, <2>3, StillOwners DEF Counted
<1>3. CASE ~(d \in bucket /\ ref[d] = 0)
  <2>1. SameEntry(d) BY <1>3 DEF PoolDestroy, SameEntry
  <2>2. Fewer(d) BY <1>1, StillOwners DEF Fewer
  <2> QED BY <1>0, <2>1, <2>2, CountKept
<1> QED BY <1>2, <1>3

-----------------------------------------------------------------------------
LEMMA NextTypes == ASSUME Types, TableInv, [Next]_vars PROVE Types'
<1>1. CASE UNCHANGED vars BY <1>1 DEF vars, Types, FaultsOK
<1> QED BY <1>1, FaultTypes, MappingTypes, DeleteTypes DEF Next

LEMMA FaultVma ==
  ASSUME Types, TableInv, NEW f \in Faulters, Fault(f)
  PROVE  /\ Others(f) /\ vma' = vma /\ deleter' = deleter
         /\ \/ fault'[f].vma \in {fault[f].vma, NoVma}
            \/ fault'[f].vma \in Vmas /\ vma[fault'[f].vma] = "mapped"
<1>1. Others(f) /\ vma' = vma /\ deleter' = deleter
  BY FaultMoves
  DEF PlainStep, HitStep, NewStep, TrackStep, LinkStep, MapStep, ErrorStep, space
<1>2. \/ fault'[f].vma \in {fault[f].vma, NoVma}
      \/ fault'[f].vma \in Vmas /\ vma[fault'[f].vma] = "mapped"
  BY FaultMoves, IdleType
  DEF PlainStep, HitStep, NewStep, TrackStep, LinkStep, MapStep, ErrorStep
<1> QED BY <1>1, <1>2

LEMMA FaultClosing ==
  ASSUME Types, TableInv, ClosingInv, NEW f \in Faulters, Fault(f)
  PROVE  ClosingInv'
<1>1. vma' = vma BY FaultVma
<1>2. ASSUME NEW v \in Vmas, vma[v] = "closing", NEW g \in Faulters PROVE fault'[g].vma # v
  <2>1. CASE g # f BY <1>2, <2>1, FaultVma DEF ClosingInv, Others
  <2>2. CASE g = f BY <1>2, <2>2, FaultVma, PoolConstants DEF ClosingInv
  <2> QED BY <2>1, <2>2
<1>3. ASSUME NEW v \in Vmas, vma[v] = "closing", NEW p \in Pages PROVE pte'[v][p] = NoEntry
  <2>1. CASE MapStep(f)
    <3>1. fault[f].vma # v BY <1>3 DEF ClosingInv
    <3>2. pte'[v] = pte[v] BY <2>1, <3>1 DEF MapStep, Types
    <3> QED BY <1>3, <3>2 DEF ClosingInv
  <2>2. CASE ~MapStep(f)
    <3>1. pte' = pte
      BY <2>2, FaultMoves DEF PlainStep, HitStep, NewStep, TrackStep, LinkStep, ErrorStep, space
    <3> QED BY <1>3, <3>1 DEF ClosingInv
  <2> QED BY <2>1, <2>2
<1> QED BY <1>1, <1>2, <1>3 DEF ClosingInv

LEMMA NextOwners ==
  ASSUME Types, TableInv, OwnerInv, "insert" \notin events, [Next]_vars
  PROVE  OwnerInv'
<1>0. Types' /\ TableInv' BY NextTypes, NextTable
<1>1. ASSUME NEW f \in Faulters, Fault(f) PROVE OwnerInv'
  <2>1. ClosingInv' BY <1>1, FaultClosing DEF OwnerInv
  <2>2. ASSUME NEW d \in Entries PROVE Counted(d)'
    <3>0. Counted(d) BY DEF OwnerInv
    <3>1. CASE PlainStep(f) BY <1>0, <3>0, <3>1, PlainOwners, CountKept
    <3>2. CASE HitStep(f) \/ NewStep(f) BY <1>0, <3>2, GetCounted
    <3>3. CASE TrackStep(f) \/ LinkStep(f) BY <1>0, <3>3, TrackCounted
    <3>4. CASE MapStep(f) BY <1>0, <3>4, MapCounted
    <3> QED BY <1>1, <3>1, <3>2, <3>3, <3>4, FaultMoves DEF ErrorStep
  <2> QED BY <2>1, <2>2 DEF OwnerInv
<1>2. ASSUME NEW v \in Vmas, Mapping(v) PROVE OwnerInv'
  <2>1. CASE MapVma(v) \/ CloseDone(v)
    <3>1. UNCHANGED <<tree, pte, fault, hash, ref, pref, live>>
      BY <2>1 DEF MapVma, CloseDone, pool
    <3>2. ClosingInv' BY <2>1 DEF MapVma, CloseDone, OwnerInv, ClosingInv, Types
    <3> QED BY <3>1, <3>2, StillCounted DEF OwnerInv
  <2>2. CASE Unmap(v)
    <3>1. ClosingInv' BY <2>2 DEF Unmap, OwnerInv, ClosingInv, Types
    <3> QED BY <1>0, <2>2, <3>1, UnmapCounted DEF OwnerInv
  <2>3. CASE CloseNode(v)
    <3>1. ClosingInv' BY <2>3 DEF CloseNode, OwnerInv, ClosingInv
    <3> QED BY <1>0, <2>3, <3>1, CloseCounted DEF OwnerInv
  <2> QED BY <1>2, <2>1, <2>2, <2>3 DEF Mapping
<1>3. CASE ListEmpty \/ PoolInit
  <2>1. UNCHANGED <<tree, pte, fault, hash, ref, pref, live>> /\ vma' = vma
    BY <1>3 DEF ListEmpty, PoolInit, pool, space
  <2>2. ClosingInv' BY <2>1 DEF OwnerInv, ClosingInv
  <2> QED BY <2>1, <2>2, StillCounted DEF OwnerInv
<1>4. CASE PoolDestroy
  <2>1. ClosingInv' BY <1>4 DEF PoolDestroy, space, OwnerInv, ClosingInv
  <2> QED BY <1>4, <2>1, DestroyCounted DEF OwnerInv
<1>5. CASE UNCHANGED vars
  <2>1. ClosingInv' BY <1>5 DEF vars, OwnerInv, ClosingInv
  <2> QED BY <1>5, <2>1, StillCounted DEF vars, OwnerInv
<1> QED BY <1>1, <1>2, <1>3, <1>4, <1>5 DEF Next, Delete

-----------------------------------------------------------------------------
(* Without a create under a delete *)
LEMMA FaultQuiet ==
  ASSUME Types, TableInv, OwnerInv, QuietInv, "insert" \notin events,
         NEW f \in Faulters, Fault(f)
  PROVE  QuietInv'
<1>0. Types' BY FaultTypes
<1>1. vma' = vma /\ deleter' = deleter BY FaultVma
<1>2. ASSUME NEW v \in Vmas, vma[v] = "none"
      PROVE  /\ tree'[v] = {} /\ \A g \in Faulters : fault'[g].vma # v
             /\ \A p \in Pages : pte'[v][p] = NoEntry
  <2>1. fault[f].vma # v BY <1>2 DEF QuietInv, NoneInv
  <2>2. ASSUME NEW g \in Faulters PROVE fault'[g].vma # v
    <3>1. CASE g # f BY <1>2, <3>1, FaultVma DEF QuietInv, NoneInv, Others
    <3>2. CASE g = f BY <1>2, <2>1, <3>2, FaultVma, PoolConstants
    <3> QED BY <3>1, <3>2
  <2>3. tree'[v] = tree[v]
    <3>1. CASE LinkStep(f) BY <2>1, <3>1 DEF LinkStep, Types
    <3>2. CASE ~LinkStep(f)
      BY <3>2, FaultMoves DEF PlainStep, HitStep, NewStep, TrackStep, MapStep, ErrorStep, space
    <3> QED BY <3>1, <3>2
  <2>4. pte'[v] = pte[v]
    <3>1. CASE MapStep(f) BY <2>1, <3>1 DEF MapStep, Types
    <3>2. CASE ~MapStep(f)
      BY <3>2, FaultMoves DEF PlainStep, HitStep, NewStep, TrackStep, LinkStep, ErrorStep, space
    <3> QED BY <3>1, <3>2
  <2> QED BY <1>2, <2>2, <2>3, <2>4 DEF QuietInv, NoneInv
<1>3. NoneInv' BY <1>1, <1>2 DEF NoneInv
<1>4. ASSUME NEW d \in Entries, Owned(d)' \cup Carriers(d)' # {} PROVE d \in bucket'
  <2>0. Owned(d) \cup Carriers(d) # {} => d \in bucket BY DEF QuietInv
  <2>1. CASE PlainStep(f)
    <3>1. Fewer(d) BY <1>0, <2>1, PlainOwners
    <3> QED BY <1>4, <2>0, <2>1, <3>1 DEF PlainStep, pool, Fewer
  <2>2. CASE HitStep(f) \/ NewStep(f)
    <3>1. /\ Owned(d)' \subseteq Owned(d)
          /\ Carriers(d)' = IF d = fault'[f].entry THEN Carriers(d) \cup {f} ELSE Carriers(d)
      BY <1>0, <2>2, GetOwners
    <3>2. bucket \subseteq bucket' /\ fault'[f].entry \in bucket'
      BY <2>2 DEF HitStep, NewStep, Cached
    <3> QED BY <1>4, <2>0, <3>1, <3>2
  <2>3. CASE TrackStep(f) \/ LinkStep(f)
    <3>1. bucket' = bucket BY <2>3 DEF TrackStep, LinkStep, pool
    <3>2. Owned(d) \cup Carriers(d) # {} BY <1>0, <1>4, <2>3, TrackOwners
    <3> QED BY <2>0, <3>1, <3>2
  <2>4. CASE MapStep(f)
    <3>1. Owned(d)' \subseteq Owned(d) /\ Carriers(d)' = Carriers(d) BY <1>0, <2>4, MapOwners
    <3>2. bucket' = bucket BY <2>4 DEF MapStep
    <3> QED BY <1>4, <2>0, <3>1, <3>2
  <2> QED BY <2>1, <2>2, <2>3, <2>4, FaultMoves DEF ErrorStep
<1> QED BY <1>1, <1>3, <1>4 DEF QuietInv

LEMMA MappingQuiet ==
  ASSUME Types, TableInv, OwnerInv, OwnerInv', QuietInv, "create" \notin events,
         NEW v \in Vmas, Mapping(v)
  PROVE  QuietInv'
<1>0. Types' BY MappingTypes
<1>1. deleter' = deleter /\ fault' = fault
  BY DEF Mapping, MapVma, Unmap, CloseNode, CloseDone
<1>2. NoneInv'
  <2>1. CASE MapVma(v) BY <2>1 DEF MapVma, QuietInv, NoneInv, Types
  <2>2. CASE Unmap(v) BY <2>2 DEF Unmap, QuietInv, NoneInv, Types
  <2>3. CASE CloseNode(v) BY <2>3 DEF CloseNode, QuietInv, NoneInv, Types
  <2>4. CASE CloseDone(v)
    BY <2>4 DEF CloseDone, QuietInv, NoneInv, Types, OwnerInv, ClosingInv
  <2> QED BY <2>1, <2>2, <2>3, <2>4 DEF Mapping
<1>3. deleter' # "idle" => \A w \in Vmas : vma'[w] = "none"
  BY <1>1 DEF Mapping, MapVma, Unmap, CloseNode, CloseDone, QuietInv
<1>4. ASSUME NEW d \in Entries, Owned(d)' \cup Carriers(d)' # {} PROVE d \in bucket'
  <2>0. Owned(d) \cup Carriers(d) # {} => d \in bucket BY DEF QuietInv
  <2>1. CASE MapVma(v) \/ CloseDone(v)
    <3>1. UNCHANGED <<tree, pte, fault, bucket>> BY <2>1 DEF MapVma, CloseDone, pool
    <3> QED BY <1>4, <2>0, <3>1, StillOwners
  <2>2. CASE Unmap(v)
    <3>1. ASSUME NEW w \in Vmas, NEW p \in Pages PROVE Owns(w, p, d)' => Owns(w, p, d)
      <4>1. Pending(w, p, d)' = Pending(w, p, d) /\ Seen(w, p, d)' = Seen(w, p, d)
        BY <1>1 DEF Pending, Seen
      <4>2. pte'[w][p] = d => pte[w][p] = d BY <2>2, PoolConstants DEF Unmap, Types
      <4> QED BY <2>2, <4>1, <4>2 DEF Owns, Unmap
    <3>2. Owned(d)' \subseteq Owned(d) BY <3>1 DEF Owned
    <3>3. Carriers(d)' = Carriers(d) BY <1>1 DEF Carriers
    <3> QED BY <1>4, <2>0, <2>2, <3>2, <3>3 DEF Unmap
  <2>3. CASE CloseNode(v)
    <3>1. PICK n \in tree[v] : tree' = [tree EXCEPT ![v] = @ \ {n}] /\ Unref(n[2], 1)
      BY <2>3 DEF CloseNode
    <3>2. ASSUME NEW w \in Vmas, NEW p \in Pages PROVE Owns(w, p, d)' => Owns(w, p, d)
      <4>1. Pending(w, p, d)' = Pending(w, p, d) /\ Seen(w, p, d)' = Seen(w, p, d)
        BY <1>1 DEF Pending, Seen
      <4>2. tree'[w] \subseteq tree[w] BY <3>1 DEF Types
      <4> QED BY <2>3, <4>1, <4>2 DEF Owns, CloseNode
    <3>3. Owned(d)' \subseteq Owned(d) BY <3>2 DEF Owned
    <3>4. Carriers(d)' = Carriers(d) BY <1>1 DEF Carriers
    <3>5. d \in live' BY <1>4 DEF OwnerInv, Counted
    <3> QED BY <1>4, <2>0, <3>1, <3>3, <3>4, <3>5 DEF Unref
  <2> QED BY <2>1, <2>2, <2>3 DEF Mapping
<1> QED BY <1>2, <1>3, <1>4 DEF QuietInv

LEMMA DeleteQuiet ==
  ASSUME Types, QuietInv, Delete
  PROVE  QuietInv'
<1>1. UNCHANGED <<vma, tree, pte, fault>>
  BY DEF Delete, ListEmpty, PoolDestroy, PoolInit, space
<1>2. NoneInv' BY <1>1 DEF QuietInv, NoneInv
<1>3. \A v \in Vmas : vma'[v] = "none"
  BY <1>1 DEF Delete, ListEmpty, PoolDestroy, PoolInit, QuietInv
<1>4. ASSUME NEW d \in Entries PROVE Owned(d)' = {} /\ Carriers(d)' = {}
  <2>1. \A v \in Vmas, p \in Pages : ~Owns(v, p, d)
    BY <1>1, <1>3, PoolConstants, ZenonT(60) DEF QuietInv, NoneInv, Owns, Seen, Pending
  <2>2. Owned(d) = {} BY <2>1 DEF Owned
  <2>3. Carriers(d) = {} BY <1>1, <1>3 DEF QuietInv, NoneInv, Carriers, Types, FaultsOK
  <2> QED BY <1>1, <2>2, <2>3, StillOwners
<1> QED BY <1>2, <1>3, <1>4 DEF QuietInv

-----------------------------------------------------------------------------
(* The inductive invariant *)
LEMMA InitInv == Init => IInv
<1> SUFFICES ASSUME Init PROVE IInv OBVIOUS
<1>1. FaultsOK
  <2>1. fault \in [Faulters -> FaultType] BY IdleType DEF Init
  <2>2. \A f \in Faulters : fault[f].pc = "idle" BY IdleType DEF Init
  <2> QED BY <2>1, <2>2 DEF FaultsOK, EntryPCs
<1>2. \A f \in Faulters : fault[f].pc = "idle" /\ fault[f].vma = NoVma /\ fault[f].seen = {}
  BY IdleType DEF Init
<1>3. Types BY <1>1 DEF Init, Types
<1>4. TableInv BY FS_EmptySet DEF Init, TableInv
<1>5. ASSUME NEW d \in Entries
      PROVE  Owned(d) = {} /\ Carriers(d) = {}
  <2>1. \A v \in Vmas, p \in Pages : ~Owns(v, p, d)
    BY <1>2, PoolConstants DEF Init, Owns, Seen, Pending
  <2>2. Owned(d) = {} BY <2>1 DEF Owned
  <2>3. Carriers(d) = {} BY <1>2 DEF Carriers
  <2> QED BY <2>2, <2>3
<1>6. OwnerInv
  <2>1. ClosingInv BY DEF Init, ClosingInv
  <2>2. ASSUME NEW d \in Entries PROVE Counted(d)
    <3>1. Cardinality(Owned(d)) = 0 /\ Cardinality(Carriers(d)) = 0 BY <1>5, FS_EmptySet
    <3> QED BY <1>5, <3>1 DEF Init, Counted
  <2> QED BY <2>1, <2>2 DEF OwnerInv
<1>7. QuietInv
  <2>1. NoneInv BY <1>2, PoolConstants DEF Init, NoneInv
  <2> QED BY <1>5, <2>1 DEF Init, QuietInv
<1> QED BY <1>3, <1>4, <1>6, <1>7 DEF IInv

LEMMA NextInv == IInv /\ [Next]_vars => IInv'
<1> SUFFICES ASSUME IInv, [Next]_vars PROVE IInv' OBVIOUS
<1>1. Types' /\ TableInv' BY NextTypes, NextTable DEF IInv
<1>2. events' = events
  <2>1. ASSUME NEW f \in Faulters, Fault(f) PROVE events' = events
    BY <2>1, FaultMoves DEF IInv
  <2> QED BY <2>1 DEF Next, vars, Mapping, MapVma, Unmap, CloseNode, CloseDone, Delete, ListEmpty,
             PoolDestroy, PoolInit
<1>3. "insert" \notin events => OwnerInv' BY NextOwners DEF IInv
<1>4. ASSUME events \cap {"insert", "create"} = {} PROVE QuietInv'
  <2>1. Types /\ TableInv /\ OwnerInv /\ OwnerInv' /\ QuietInv BY <1>3, <1>4 DEF IInv
  <2>2. CASE UNCHANGED vars
    <3>1. UNCHANGED <<tree, pte, fault, bucket>> BY <2>2 DEF vars
    <3>2. NoneInv' BY <2>1, <2>2 DEF vars, QuietInv, NoneInv
    <3> QED BY <2>1, <2>2, <3>1, <3>2, StillOwners DEF vars, QuietInv
  <2> QED BY <1>4, <2>1, <2>2, FaultQuiet, MappingQuiet, DeleteQuiet DEF Next
<1> QED BY <1>1, <1>2, <1>3, <1>4 DEF IInv

(* Pages are shared by hash, whatever faults, failures, closes and deletes *)
(* race: while the bucket array is there, no two entries of the table have *)
(* one hash, all are allocated, and total_pages is their number (the       *)
(* second look of snapshot_pool_add, against the lookups and unrefs).      *)
THEOREM Shared == Spec => []Deduplicated
<1>1. IInv => Deduplicated BY DEF IInv, TableInv, Deduplicated
<1> QED BY InitInv, NextInv, <1>1, PTL DEF Spec

(* As long as vmf_insert_page does not fail and no template is created     *)
(* under a delete, an entry has at least as many references as tree nodes  *)
(* and faults that rely on it, and one that has any is in the table.       *)
THEOREM OwnersAreCounted == Spec => []OwnersCounted
<1>1. ASSUME IInv, events \cap {"insert", "create"} = {}, NEW e \in Entries
      PROVE  LET n == Cardinality(Nodes(e)) + Cardinality(Carriers(e))
             IN  n > 0 => e \in bucket /\ n <= ref[e]
  <2>1. Counted(e) /\ ref[e] \in Int BY <1>1 DEF IInv, OwnerInv, Types
  <2>2. Nodes(e) \subseteq Owned(e) BY DEF Nodes, Owned, Owns
  <2>3. IsFiniteSet(Nodes(e)) /\ Cardinality(Nodes(e)) \in Nat
        /\ Cardinality(Nodes(e)) <= Cardinality(Owned(e))
    BY <2>2, OwnerSets, CardAtMost
  <2>4. Cardinality(Nodes(e)) + Cardinality(Carriers(e)) <= ref[e]
    BY <2>1, <2>3, OwnerSets DEF Counted
  <2>5. ASSUME Cardinality(Nodes(e)) + Cardinality(Carriers(e)) > 0 PROVE e \in bucket
    <3>1. Owned(e) \cup Carriers(e) # {}
      <4> SUFFICES ASSUME Nodes(e) = {}, Carriers(e) = {} PROVE FALSE BY <2>2
      <4> QED BY <2>5, FS_EmptySet
    <3> QED BY <1>1, <3>1 DEF IInv, QuietInv
  <2> QED BY <2>4, <2>5
<1>2. IInv => OwnersCounted BY <1>1 DEF OwnersCounted
<1> QED BY InitInv, NextInv, <1>2, PTL DEF Spec

(* As long as vmf_insert_page does not fail, every mapping shows the page  *)
(* its page table names: the page is not freed or taken for another hash   *)
(* while it is mapped, and its struct page counts all mappings beside the  *)
(* pool's reference - even if the pool is cleared under a new template.    *)
THEOREM MappedValid == Spec => []MappedPageValid
<1>1. ASSUME IInv, "insert" \notin events, NEW e \in Entries
      PROVE  /\ \A vp \in Mapped(e) : hash[e] = PageTable[vp[1]][vp[2]]
             /\ Mapped(e) # {} => e \in live /\ pref[e] > Cardinality(Mapped(e))
  <2>1. Counted(e) /\ pref[e] \in Int BY <1>1 DEF IInv, OwnerInv, Types
  <2>2. Mapped(e) \subseteq Owned(e) BY DEF Mapped, Owned, Owns
  <2>3. e \in live => pref[e] > Cardinality(Mapped(e)) BY <2>1, OwnerSets DEF Counted
  <2> QED BY <2>1, <2>2, <2>3 DEF Counted
<1>2. IInv => MappedPageValid BY <1>1 DEF MappedPageValid
<1> QED BY InitInv, NextInv, <1>2, PTL DEF Spec
=============================================================================
