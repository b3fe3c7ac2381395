----------------------- MODULE SnapshotTemplatesProofs -----------------------
(***************************************************************************)
(* The templates of the snapshot driver, for any number of processes, ids, *)
(* allocations and mappings: names are unique whatever is called, and with *)
(* create, delete, mmap and munmap alone no template is freed while a      *)
(* process or a mapping refers to it.                                      *)
(***************************************************************************)
EXTENDS SnapshotTemplates, FiniteSetTheorems, TLAPS

(* Zenon settles most steps at once; the others get more than the default. *)
USE ZenonT(3), SMTT(20), ZenonT(20)

ProcType == [pc : UsePCs \cup {"idle", "register"}, id : Ids \cup {None},
             obj : Objects \cup {None}, vma : Vmas \cup {None}]
ProcsOK ==
  /\ proc \in [Procs -> ProcType]
  /\ \A p \in Procs : proc[p].pc = "mmap" => proc[p].vma \in Vmas
Types ==
  /\ alloc \subseteq Objects /\ list \subseteq Objects
  /\ id \in [Objects -> Ids \cup {None}]
  /\ ref \in [Objects -> Int]
  /\ vma \in [Vmas -> Vmas \cup {None}] /\ data \subseteq Vmas
  /\ template \in [Vmas -> Objects \cup {None}]
  /\ ProcsOK

-----------------------------------------------------------------------------
(* Names.  Between its list_del and its kfree, and between its kzalloc and *)
(* its list_add_tail, a template belongs to one process.                   *)
OwnPCs == {"add", "free", "unreffree"}
Owned ==
  /\ \A p \in Procs : proc[p].pc \in OwnPCs => proc[p].obj \in alloc \ list
  /\ \A p, q \in Procs :
       proc[p].pc \in OwnPCs /\ proc[q].pc \in OwnPCs /\ proc[p].obj = proc[q].obj => p = q

(* A device exists as long as its template, and no two have one name: this *)
(* is what misc_register refuses.                                          *)
DeviceNames ==
  /\ list \subseteq alloc /\ device = alloc
  /\ \A o, q \in device : id[o] = id[q] => o = q

NameInv == Types /\ Owned /\ DeviceNames

-----------------------------------------------------------------------------
(* References, when only create, delete, mmap and munmap happen.  A        *)
(* mapping is counted twice, by find_ref and when it is set up; a call     *)
(* that is setting one up has counted it once, one that drops it uncounts  *)
(* it once.                                                                *)
Held(o)    == {v \in Vmas : vma[v] # None /\ template[vma[v]] = o}
Mapping(o) == {p \in Procs : proc[p].obj = o /\ proc[p].pc = "mmap"}
Leaving(o) == {p \in Procs : proc[p].obj = o /\ proc[p].pc = "unref"}
Users(o)   == 2 * Cardinality(Held(o)) + Cardinality(Mapping(o)) + 2 * Cardinality(Leaving(o))

Plain == \A p \in Procs : proc[p].pc \notin {"unlink", "unreffree", "status"}
OwnData ==
  /\ \A v \in Vmas : vma[v] # None => vma[v] = v /\ v \in data /\ template[v] \in Objects
  /\ \A p \in Procs : proc[p].pc = "mmap" =>
       /\ proc[p].vma \in Vmas /\ vma[proc[p].vma] = None
       /\ \A q \in Procs : proc[q].pc = "mmap" /\ proc[q].vma = proc[p].vma => p = q
  /\ \A p \in Procs : proc[p].pc \in {"mmap", "unref"} => proc[p].obj \in Objects
UsersCounted ==
  \A o \in Objects :
    /\ ref[o] >= Users(o)
    /\ Held(o) \cup Mapping(o) \cup Leaving(o) # {} => o \in list

RefInv == Plain /\ OwnData /\ UsersCounted
IInv == NameInv /\ (ops = {} => RefInv)

-----------------------------------------------------------------------------
(* How a step changes the processes: one moves, the others stay. *)
Others(p) == \A q \in Procs \ {p} : proc'[q] = proc[q]
LEMMA ProcUpdate ==
  ASSUME Types, NEW p \in Procs, NEW r \in ProcType, r.pc = "mmap" => r.vma \in Vmas,
         proc' = [proc EXCEPT ![p] = r]
  PROVE  Others(p) /\ ProcsOK' /\ proc'[p] = r
BY DEF Types, ProcsOK, Others

LEMMA Moves ==
  ASSUME Types, NEW p \in Procs
  PROVE  /\ Return(p) => Others(p) /\ proc'[p] = Idle /\ ProcsOK'
         /\ \A label \in UsePCs \ {"mmap"} : Goto(p, label) =>
              /\ Others(p) /\ ProcsOK'
              /\ proc'[p].pc = label /\ proc'[p].obj = proc[p].obj /\ proc'[p].vma = proc[p].vma
         /\ \A label \in UsePCs \ {"mmap"}, o \in Objects \cup {None} : Enter(p, label, o) =>
              /\ Others(p) /\ ProcsOK'
              /\ proc'[p].pc = label /\ proc'[p].obj = o /\ proc'[p].vma = proc[p].vma
<1> USE DEF Types, ProcsOK, ProcType, Others
<1>1. Return(p) => Others(p) /\ proc'[p] = Idle /\ ProcsOK'
  BY DEF Return, Idle
<1>2. ASSUME NEW label \in UsePCs \ {"mmap"}, Goto(p, label)
      PROVE  /\ Others(p) /\ ProcsOK'
             /\ proc'[p].pc = label /\ proc'[p].obj = proc[p].obj /\ proc'[p].vma = proc[p].vma
  BY <1>2 DEF Goto
<1>3. ASSUME NEW label \in UsePCs \ {"mmap"}, NEW o \in Objects \cup {None}, Enter(p, label, o)
      PROVE  /\ Others(p) /\ ProcsOK'
             /\ proc'[p].pc = label /\ proc'[p].obj = o /\ proc'[p].vma = proc[p].vma
  BY <1>3, ZenonT(60) DEF Enter
<1> QED BY <1>1, <1>2, <1>3

-----------------------------------------------------------------------------
(* Types, step by step. *)
LEMMA CreateTypes ==
  ASSUME Types, NEW p \in Procs,
         \/ \E i \in Ids : CreateCheck(p, i)
         \/ CreateRegister(p) \/ CreateError(p) \/ CreateAdd(p)
  PROVE  Types'
<1> USE DEF templates, mappings
<1>1. CASE \E i \in Ids : CreateCheck(p, i)
  <2>1. PICK i \in Ids : proc' = [proc EXCEPT ![p].pc = "register", ![p].id = i]
    BY <1>1 DEF CreateCheck
  <2>2. proc' = [proc EXCEPT ![p] = [proc[p] EXCEPT !.pc = "register", !.id = i]]
    BY <2>1 DEF Types, ProcsOK
  <2>3. [proc[p] EXCEPT !.pc = "register", !.id = i] \in ProcType
    BY DEF Types, ProcsOK, ProcType
  <2>4. [proc[p] EXCEPT !.pc = "register", !.id = i].pc = "register"
    BY DEF Types, ProcsOK, ProcType
  <2>5. ProcsOK' BY <2>2, <2>3, <2>4, ProcUpdate
  <2> QED BY <1>1, <2>5 DEF CreateCheck, Types
<1>2. CASE CreateRegister(p)
  <2>1. PICK o \in Objects \ alloc :
          /\ alloc' = alloc \cup {o}
          /\ id' = [id EXCEPT ![o] = proc[p].id] /\ ref' = [ref EXCEPT ![o] = 0]
          /\ Enter(p, "add", o)
    BY <1>2 DEF CreateRegister
  <2>2. ProcsOK' BY <2>1, Moves DEF UsePCs
  <2>3. proc[p].id \in Ids \cup {None} BY DEF Types, ProcsOK, ProcType
  <2> QED BY <1>2, <2>1, <2>2, <2>3 DEF CreateRegister, Types
<1>3. CASE CreateError(p)
  BY <1>3, Moves DEF CreateError, Types
<1>4. CASE CreateAdd(p)
  BY <1>4, Moves DEF CreateAdd, Use, Types
<1> QED BY <1>1, <1>2, <1>3, <1>4

LEMMA OtherTypes ==
  ASSUME Types, NEW p \in Procs,
         \/ \E i \in Ids : DeleteUnlink(p, i) \/ StatusFind(p, i)
         \/ DeleteFree(p) \/ Unref(p) \/ UnrefUnlink(p) \/ UnrefFree(p) \/ StatusRead(p)
  PROVE  Types'
<1> USE DEF templates, mappings
<1>1. CASE \E i \in Ids : DeleteUnlink(p, i)
  <2>1. PICK o \in list : list' = list \ {o} /\ Enter(p, "free", o)
    BY <1>1 DEF DeleteUnlink, Listed
  <2>2. o \in Objects BY DEF Types
  <2>3. ProcsOK' BY <2>1, <2>2, Moves DEF UsePCs
  <2> QED BY <1>1, <2>1, <2>3 DEF DeleteUnlink, Types
<1>2. CASE \E i \in Ids : StatusFind(p, i)
  <2>1. PICK o \in list : Enter(p, "status", o)
    BY <1>2 DEF StatusFind, Listed
  <2>2. o \in Objects BY DEF Types
  <2>3. ProcsOK' BY <2>1, <2>2, Moves DEF UsePCs
  <2> QED BY <1>2, <2>3 DEF StatusFind, Types
<1>3. CASE DeleteFree(p)
  BY <1>3, Moves DEF DeleteFree, Use, Free, Types
<1>4. CASE Unref(p)
  <2>1. Goto(p, "unlink") \/ Return(p) BY <1>4 DEF Unref
  <2>2. ProcsOK' BY <2>1, Moves DEF UsePCs
  <2>3. ref' \in [Objects -> Int] BY <1>4 DEF Unref, Use, Types
  <2> QED BY <1>4, <2>2, <2>3 DEF Unref, Types
<1>5. CASE UnrefUnlink(p)
  <2>1. ProcsOK' BY <1>5, Moves DEF UnrefUnlink, UsePCs
  <2> QED BY <1>5, <2>1 DEF UnrefUnlink, Types
<1>6. CASE UnrefFree(p)
  BY <1>6, Moves DEF UnrefFree, Use, Free, Types
<1>7. CASE StatusRead(p)
  BY <1>7, Moves DEF StatusRead, Types
<1> QED BY <1>1, <1>2, <1>3, <1>4, <1>5, <1>6, <1>7

LEMMA MappingTypes ==
  ASSUME Types, NEW p \in Procs,
         \/ \E i \in Ids, v \in Vmas : MmapFindRef(p, i, v)
         \/ \E v \in Vmas : VmaClose(p, v)
         \/ MmapDone(p) \/ MmapRefuse(p)
  PROVE  Types'
<1> USE TemplateConstants DEF templates, mappings
<1>1. ASSUME NEW i \in Ids, NEW v \in Vmas, MmapFindRef(p, i, v) PROVE Types'
  <2>1. PICK o \in list :
          /\ ref' = [ref EXCEPT ![o] = @ + 1]
          /\ proc' = [proc EXCEPT ![p] = [Idle EXCEPT !.pc = "mmap", !.obj = o, !.vma = v]]
    BY <1>1 DEF MmapFindRef, Listed
  <2>2. o \in Objects BY DEF Types
  <2>3. ProcsOK' BY <2>1, <2>2 DEF Types, ProcsOK, ProcType, Idle, UsePCs
  <2>4. ref' \in [Objects -> Int] BY <2>1 DEF Types
  <2> QED BY <1>1, <2>3, <2>4 DEF MmapFindRef, Types
<1>2. ASSUME NEW v \in Vmas, VmaClose(p, v) PROVE Types'
  <2>1. vma[v] \in Vmas /\ template[vma[v]] \in Objects \cup {None} BY <1>2 DEF VmaClose, Types
  <2>2. ProcsOK' BY <1>2, <2>1, Moves DEF VmaClose, UsePCs
  <2> QED BY <1>2, <2>1, <2>2 DEF VmaClose, Types
<1>3. CASE MmapDone(p)
  <2>1. proc[p].vma \in Vmas /\ proc[p].obj \in Objects BY <1>3 DEF MmapDone, Use, At, Types, ProcsOK
  <2>2. ProcsOK' BY <1>3, Moves DEF MmapDone
  <2>3. ref' \in [Objects -> Int] BY <1>3, <2>1 DEF MmapDone, Types
  <2> QED BY <1>3, <2>1, <2>2, <2>3 DEF MmapDone, Types
<1>4. CASE MmapRefuse(p)
  <2>1. proc' = [proc EXCEPT ![p] = [proc[p] EXCEPT !.pc = "unref", !.vma = None]]
    BY <1>4 DEF MmapRefuse, Types, ProcsOK
  <2>u. "unref" \in UsePCs BY DEF UsePCs
  <2>2. [proc[p] EXCEPT !.pc = "unref", !.vma = None] \in ProcType
    BY <2>u, ZenonT(60) DEF Types, ProcsOK, ProcType
  <2>3. [proc[p] EXCEPT !.pc = "unref", !.vma = None].pc = "unref"
    BY DEF Types, ProcsOK, ProcType
  <2>4. ProcsOK' BY <2>1, <2>2, <2>3, ProcUpdate
  <2> QED BY <1>4, <2>4 DEF MmapRefuse, Types
<1> QED BY <1>1, <1>2, <1>3, <1>4

LEMMA ForkTypes ==
  ASSUME Types, NEW v \in Vmas, NEW w \in Vmas, VmaOpen(v, w)
  PROVE  Types'
<1>1. ref' \in [Objects -> Int] BY DEF VmaOpen, Types
<1>2. vma' \in [Vmas -> Vmas \cup {None}] BY DEF VmaOpen, Types
<1> QED BY <1>1, <1>2 DEF VmaOpen, Types, ProcsOK

LEMMA StepTypes == ASSUME Types, NEW p \in Procs, Step(p) PROVE Types'
BY CreateTypes, OtherTypes, MappingTypes DEF Step

-----------------------------------------------------------------------------
(* Names *)

(* A step that changes neither the list nor the devices, after which the   *)
(* process that takes it owns no template.                                 *)
LEMMA NamesKept ==
  ASSUME NameInv, NEW p \in Procs, Types', UNCHANGED <<alloc, list, device, id>>,
         Others(p), proc'[p].pc \notin OwnPCs
  PROVE  NameInv'
BY DEF NameInv, Owned, DeviceNames, Others

LEMMA CreateNames ==
  ASSUME NameInv, NEW p \in Procs, CreateRegister(p) \/ CreateAdd(p)
  PROVE  Owned' /\ DeviceNames'
<1>0. Types BY DEF NameInv
<1>1. CASE CreateRegister(p)
  <2>1. PICK o \in Objects \ alloc :
          /\ alloc' = alloc \cup {o} /\ device' = device \cup {o}
          /\ id' = [id EXCEPT ![o] = proc[p].id]
          /\ Enter(p, "add", o)
    BY <1>1 DEF CreateRegister
  <2>2. Others(p) /\ proc'[p].pc = "add" /\ proc'[p].obj = o
    BY <1>0, <2>1, Moves DEF UsePCs
  <2>3. list' = list /\ o \notin list /\ \A d \in device : id[d] # proc[p].id
    BY <1>1 DEF CreateRegister, NameInv, DeviceNames
  <2>4. id'[o] = proc[p].id /\ \A d \in device : d # o /\ id'[d] = id[d]
    BY <1>0, <2>1 DEF Types, NameInv, DeviceNames
  <2>5. Owned' BY <2>1, <2>2, <2>3 DEF NameInv, Owned, Others
  <2>6. DeviceNames' BY <2>1, <2>3, <2>4 DEF NameInv, DeviceNames
  <2> QED BY <2>5, <2>6
<1>2. CASE CreateAdd(p)
  <2>1. Others(p) /\ proc'[p] = Idle BY <1>0, <1>2, Moves DEF CreateAdd
  <2>2. proc[p].pc = "add" /\ list' = list \cup {proc[p].obj} /\ UNCHANGED <<alloc, device, id>>
    BY <1>2 DEF CreateAdd, Use, At
  <2>3. Owned' BY <2>1, <2>2 DEF NameInv, Owned, Others, OwnPCs, Idle
  <2>4. DeviceNames' BY <2>2 DEF NameInv, Owned, DeviceNames, OwnPCs
  <2> QED BY <2>3, <2>4
<1> QED BY <1>1, <1>2

LEMMA UnlinkNames ==
  ASSUME NameInv, NEW p \in Procs,
         (\E i \in Ids : DeleteUnlink(p, i)) \/ UnrefUnlink(p)
  PROVE  Owned' /\ DeviceNames'
<1>0. Types BY DEF NameInv
<1>1. PICK o \in list :
        /\ list' = list \ {o} /\ Others(p) /\ proc'[p].pc \in OwnPCs /\ proc'[p].obj = o
        /\ UNCHANGED <<alloc, device, id>>
  <2>1. CASE \E i \in Ids : DeleteUnlink(p, i)
    <3>1. PICK o \in list : list' = list \ {o} /\ Enter(p, "free", o) /\ UNCHANGED <<alloc, device, id>>
      BY <2>1 DEF DeleteUnlink, Listed
    <3>2. o \in Objects BY <1>0 DEF Types
    <3> QED BY <1>0, <3>1, <3>2, Moves DEF UsePCs, OwnPCs
  <2>2. CASE UnrefUnlink(p)
    BY <1>0, <2>2, Moves DEF UnrefUnlink, UsePCs, OwnPCs
  <2> QED BY <2>1, <2>2
<1>2. Owned' BY <1>1 DEF NameInv, Owned, DeviceNames, Others
<1>3. DeviceNames' BY <1>1 DEF NameInv, DeviceNames
<1> QED BY <1>2, <1>3

LEMMA FreeNames ==
  ASSUME NameInv, NEW p \in Procs, DeleteFree(p) \/ UnrefFree(p)
  PROVE  Owned' /\ DeviceNames'
<1>0. Types BY DEF NameInv
<1>1. /\ proc[p].pc \in OwnPCs /\ Free(proc[p].obj) /\ list' = list
      /\ Others(p) /\ proc'[p] = Idle
  BY <1>0, Moves DEF DeleteFree, UnrefFree, Use, At, OwnPCs
<1>2. alloc' = alloc \ {proc[p].obj} /\ device' = device \ {proc[p].obj}
      /\ \A o \in Objects \ {proc[p].obj} : id'[o] = id[o]
  BY <1>0, <1>1 DEF Free, Types
<1>3. Owned' BY <1>1, <1>2 DEF NameInv, Owned, Others, OwnPCs, Idle
<1>4. DeviceNames' BY <1>0, <1>1, <1>2 DEF NameInv, Owned, DeviceNames, Types
<1> QED BY <1>3, <1>4

(* The processes in the steps on mappings. *)
LEMMA FindRefMoves ==
  ASSUME Types, NEW p \in Procs, NEW i \in Ids, NEW v \in Vmas, MmapFindRef(p, i, v)
  PROVE  /\ Others(p) /\ proc[p].pc = "idle"
         /\ proc'[p].pc = "mmap" /\ proc'[p].vma = v /\ proc'[p].obj \in list
         /\ ref' = [ref EXCEPT ![proc'[p].obj] = @ + 1]
<1>1. PICK o \in list :
        /\ ref' = [ref EXCEPT ![o] = @ + 1]
        /\ proc' = [proc EXCEPT ![p] = [Idle EXCEPT !.pc = "mmap", !.obj = o, !.vma = v]]
  BY DEF MmapFindRef, Listed
<1>2. Others(p) /\ proc'[p] = [Idle EXCEPT !.pc = "mmap", !.obj = o, !.vma = v]
  BY <1>1 DEF Types, ProcsOK, Others
<1>3. proc'[p].pc = "mmap" /\ proc'[p].vma = v /\ proc'[p].obj = o
  BY <1>2 DEF Idle
<1> QED BY <1>1, <1>2, <1>3 DEF MmapFindRef, At

LEMMA MappingMoves ==
  ASSUME Types, NEW p \in Procs,
         \/ \E i \in Ids, v \in Vmas : MmapFindRef(p, i, v)
         \/ \E v \in Vmas : VmaClose(p, v)
         \/ MmapDone(p) \/ MmapRefuse(p)
  PROVE  Others(p) /\ proc'[p].pc \notin OwnPCs
<1> USE DEF OwnPCs
<1>1. ASSUME NEW i \in Ids, NEW v \in Vmas, MmapFindRef(p, i, v)
      PROVE  Others(p) /\ proc'[p].pc \notin OwnPCs
  BY <1>1, FindRefMoves
<1>2. ASSUME NEW v \in Vmas, VmaClose(p, v)
      PROVE  Others(p) /\ proc'[p].pc \notin OwnPCs
  <2>1. vma[v] \in Vmas /\ template[vma[v]] \in Objects \cup {None} BY <1>2 DEF VmaClose, Types
  <2> QED BY <1>2, <2>1, Moves DEF VmaClose, UsePCs
<1>3. CASE MmapDone(p) BY <1>3, Moves DEF MmapDone, Idle
<1>4. CASE MmapRefuse(p)
  <2>1. proc \in [Procs -> ProcType] BY DEF Types, ProcsOK
  <2>2. proc'[p].pc = "unref" BY <1>4, <2>1 DEF MmapRefuse, ProcType
  <2> QED BY <1>4, <2>1, <2>2 DEF MmapRefuse, Others
<1> QED BY <1>1, <1>2, <1>3, <1>4

LEMMA NextNames ==
  ASSUME NameInv, [Next]_vars
  PROVE  NameInv'
<1>0. Types BY DEF NameInv
<1>1. ASSUME NEW p \in Procs, Step(p) PROVE NameInv'
  <2>0. Types' BY <1>0, <1>1, StepTypes
  <2>1. CASE CreateRegister(p) \/ CreateAdd(p)
    BY <2>0, <2>1, CreateNames DEF NameInv
  <2>2. CASE (\E i \in Ids : DeleteUnlink(p, i)) \/ UnrefUnlink(p)
    BY <2>0, <2>2, UnlinkNames DEF NameInv
  <2>3. CASE DeleteFree(p) \/ UnrefFree(p)
    BY <2>0, <2>3, FreeNames DEF NameInv
  <2>4. CASE (\E i \in Ids : CreateCheck(p, i)) \/ CreateError(p)
    <3>1. UNCHANGED <<alloc, list, device, id>> BY <2>4 DEF CreateCheck, CreateError, templates
    <3>2. Others(p) /\ proc'[p].pc \notin OwnPCs
      <4>1. CASE CreateError(p)
        BY <1>0, <4>1, Moves DEF CreateError, Idle, OwnPCs
      <4>2. CASE \E i \in Ids : CreateCheck(p, i)
        <5>1. PICK i \in Ids : proc' = [proc EXCEPT ![p].pc = "register", ![p].id = i]
          BY <4>2 DEF CreateCheck
        <5>2. proc \in [Procs -> ProcType] BY <1>0 DEF Types, ProcsOK
        <5>3. proc'[p].pc = "register" BY <5>1, <5>2 DEF ProcType
        <5> QED BY <5>1, <5>2, <5>3 DEF Others, OwnPCs
      <4> QED BY <2>4, <4>1, <4>2
    <3> QED BY <2>0, <3>1, <3>2, NamesKept
  <2>5. CASE \/ \E i \in Ids, v \in Vmas : MmapFindRef(p, i, v)
             \/ \E v \in Vmas : VmaClose(p, v)
             \/ MmapDone(p) \/ MmapRefuse(p)
    <3>1. UNCHANGED <<alloc, list, device, id>>
      BY <2>5 DEF MmapFindRef, VmaClose, MmapDone, MmapRefuse, templates
    <3>2. Others(p) /\ proc'[p].pc \notin OwnPCs BY <1>0, <2>5, MappingMoves
    <3> QED BY <2>0, <3>1, <3>2, NamesKept
  <2>6. CASE Unref(p) \/ StatusRead(p)
    <3>1. UNCHANGED <<alloc, list, device, id>> BY <2>6 DEF Unref, StatusRead, templates
    <3>2. Goto(p, "unlink") \/ Return(p) BY <2>6 DEF Unref, StatusRead
    <3>3. Others(p) /\ proc'[p].pc \notin OwnPCs
      BY <1>0, <3>2, Moves DEF UsePCs, OwnPCs, Idle
    <3> QED BY <2>0, <3>1, <3>3, NamesKept
  <2>7. CASE \E i \in Ids : StatusFind(p, i)
    <3>1. UNCHANGED <<alloc, list, device, id>> BY <2>7 DEF StatusFind, templates
    <3>2. PICK o \in list : Enter(p, "status", o) BY <2>7 DEF StatusFind, Listed
    <3>3. o \in Objects BY <1>0 DEF Types
    <3>4. Others(p) /\ proc'[p].pc \notin OwnPCs
      BY <1>0, <3>2, <3>3, Moves DEF UsePCs, OwnPCs
    <3> QED BY <2>0, <3>1, <3>4, NamesKept
  <2> QED BY <1>1, <2>1, <2>2, <2>3, <2>4, <2>5, <2>6, <2>7 DEF Step
<1>2. ASSUME NEW v \in Vmas, NEW w \in Vmas, VmaOpen(v, w) PROVE NameInv'
  <2>1. Types' BY <1>0, <1>2, ForkTypes
  <2> QED BY <1>2, <2>1 DEF VmaOpen, NameInv, Owned, DeviceNames
<1>3. CASE UNCHANGED vars
  BY <1>3 DEF vars, NameInv, Types, ProcsOK, Owned, DeviceNames
<1> QED BY <1>1, <1>2, <1>3 DEF Next

-----------------------------------------------------------------------------
(* References *)
LEMMA UserSets ==
  ASSUME NEW o
  PROVE  /\ IsFiniteSet(Held(o)) /\ IsFiniteSet(Mapping(o)) /\ IsFiniteSet(Leaving(o))
         /\ Cardinality(Held(o)) \in Nat /\ Cardinality(Mapping(o)) \in Nat
         /\ Cardinality(Leaving(o)) \in Nat
<1>1. Held(o) \subseteq Vmas /\ Mapping(o) \subseteq Procs /\ Leaving(o) \subseteq Procs
  BY DEF Held, Mapping, Leaving
<1> QED BY <1>1, TemplateConstants, FS_Subset, FS_CardinalityType

(* What the count of a template says of its users. *)
LEMMA NoUsers ==
  ASSUME Types, UsersCounted, NEW o \in Objects, ref[o] = 0 \/ o \notin list
  PROVE  Held(o) = {} /\ Mapping(o) = {} /\ Leaving(o) = {} /\ Users(o) = 0
<1>1. Held(o) = {} /\ Mapping(o) = {} /\ Leaving(o) = {}
  <2>1. CASE o \notin list BY <2>1 DEF UsersCounted
  <2>2. CASE ref[o] = 0
    <3>1. Cardinality(Held(o)) = 0 /\ Cardinality(Mapping(o)) = 0 /\ Cardinality(Leaving(o)) = 0
      BY <2>2, UserSets DEF UsersCounted, Users
    <3> QED BY <3>1, UserSets, FS_EmptySet
  <2> QED BY <2>1, <2>2
<1> QED BY <1>1, FS_EmptySet DEF Users

(* A step by which no call starts or stops using a mapping. *)
LEMMA UsersSame ==
  ASSUME NEW p \in Procs, Others(p), UNCHANGED mappings,
         proc[p].pc \notin {"mmap", "unref"}, proc'[p].pc \notin {"mmap", "unref"}
  PROVE  /\ OwnData => OwnData'
         /\ \A o \in Objects : /\ Held(o)' = Held(o) /\ Mapping(o)' = Mapping(o)
                              /\ Leaving(o)' = Leaving(o) /\ Users(o)' = Users(o)
<1>1. OwnData => OwnData' BY DEF OwnData, Others, mappings
<1>2. ASSUME NEW o \in Objects
      PROVE  /\ Held(o)' = Held(o) /\ Mapping(o)' = Mapping(o) /\ Leaving(o)' = Leaving(o)
  BY DEF Held, Mapping, Leaving, Others, mappings
<1>3. ASSUME NEW o \in Objects PROVE Users(o)' = Users(o)
  BY <1>2 DEF Users
<1> QED BY <1>1, <1>2, <1>3

LEMMA CreateRefs ==
  ASSUME NameInv, RefInv, NEW p \in Procs,
         \/ \E i \in Ids : CreateCheck(p, i)
         \/ CreateRegister(p) \/ CreateError(p) \/ CreateAdd(p)
  PROVE  RefInv'
<1>0. Types BY DEF NameInv
<1>1. /\ Others(p) /\ UNCHANGED mappings /\ list \subseteq list'
      /\ proc[p].pc \in {"idle", "register", "add"} /\ proc'[p].pc \in {"idle", "register", "add"}
  <2>1. CASE \E i \in Ids : CreateCheck(p, i)
    <3>1. PICK i \in Ids : proc' = [proc EXCEPT ![p].pc = "register", ![p].id = i]
      BY <2>1 DEF CreateCheck
    <3>2. proc \in [Procs -> ProcType] BY <1>0 DEF Types, ProcsOK
    <3>3. proc'[p].pc = "register" BY <3>1, <3>2 DEF ProcType
    <3> QED BY <2>1, <3>1, <3>2, <3>3 DEF CreateCheck, Others, At, templates
  <2>2. CASE CreateRegister(p)
    BY <1>0, <2>2, Moves DEF CreateRegister, At, UsePCs
  <2>3. CASE CreateError(p)
    BY <1>0, <2>3, Moves DEF CreateError, At, Idle, templates
  <2>4. CASE CreateAdd(p)
    BY <1>0, <2>4, Moves DEF CreateAdd, Use, At, Idle
  <2> QED BY <2>1, <2>2, <2>3, <2>4
<1>2. ASSUME NEW o \in Objects PROVE ref'[o] = ref[o] \/ (ref'[o] = 0 /\ o \notin list)
  BY <1>0 DEF CreateCheck, CreateRegister, CreateError, CreateAdd, templates, Types,
              NameInv, DeviceNames
<1>3. Plain' BY <1>1 DEF RefInv, Plain, Others
<1>4. /\ OwnData'
      /\ \A o \in Objects : /\ Held(o)' = Held(o) /\ Mapping(o)' = Mapping(o)
                           /\ Leaving(o)' = Leaving(o) /\ Users(o)' = Users(o)
  BY <1>1, UsersSame DEF RefInv
<1>5. ASSUME NEW o \in Objects
      PROVE  /\ ref'[o] >= Users(o)'
             /\ (Held(o) \cup Mapping(o) \cup Leaving(o))' # {} => o \in list'
  <2>1. ref'[o] >= Users(o)
    <3>1. CASE ref'[o] = ref[o] BY <3>1 DEF RefInv, UsersCounted
    <3>2. CASE ref'[o] = 0 /\ o \notin list
      BY <1>0, <3>2, NoUsers DEF RefInv
    <3> QED BY <1>2, <3>1, <3>2
  <2> QED BY <1>1, <1>4, <2>1 DEF RefInv, UsersCounted
<1>6. UsersCounted' BY <1>5 DEF UsersCounted
<1> QED BY <1>3, <1>4, <1>6 DEF RefInv

LEMMA DeleteRefs ==
  ASSUME NameInv, RefInv, NEW p \in Procs,
         (\E i \in Ids : DeleteUnlink(p, i)) \/ DeleteFree(p)
  PROVE  RefInv'
<1>0. Types BY DEF NameInv
<1>1. /\ Others(p) /\ UNCHANGED mappings
      /\ proc[p].pc \in {"idle", "free"} /\ proc'[p].pc \in {"idle", "free"}
      /\ \A o \in Objects :
           /\ ref'[o] = ref[o] \/ (ref'[o] = 0 /\ o \notin list)
           /\ o \in list => o \in list' \/ ref[o] = 0
  <2>1. CASE \E i \in Ids : DeleteUnlink(p, i)
    <3>1. PICK o \in list : ref[o] = 0 /\ list' = list \ {o} /\ Enter(p, "free", o)
      BY <2>1 DEF DeleteUnlink, Listed
    <3>2. o \in Objects BY <1>0 DEF Types
    <3>3. Others(p) /\ proc'[p].pc = "free" BY <1>0, <3>1, <3>2, Moves DEF UsePCs
    <3> QED BY <2>1, <3>1, <3>3 DEF DeleteUnlink, At
  <2>2. CASE DeleteFree(p)
    <3>1. Others(p) /\ proc'[p].pc = "idle" BY <1>0, <2>2, Moves DEF DeleteFree, Idle
    <3>2. proc[p].pc = "free" /\ proc[p].obj \notin list
      BY <2>2 DEF DeleteFree, Use, At, NameInv, Owned, OwnPCs
    <3> QED BY <1>0, <2>2, <3>1, <3>2 DEF DeleteFree, Free, Types
  <2> QED BY <2>1, <2>2
<1>3. Plain' BY <1>1 DEF RefInv, Plain, Others
<1>4. /\ OwnData'
      /\ \A o \in Objects : /\ Held(o)' = Held(o) /\ Mapping(o)' = Mapping(o)
                           /\ Leaving(o)' = Leaving(o) /\ Users(o)' = Users(o)
  BY <1>1, UsersSame DEF RefInv
<1>5. ASSUME NEW o \in Objects
      PROVE  /\ ref'[o] >= Users(o)'
             /\ (Held(o) \cup Mapping(o) \cup Leaving(o))' # {} => o \in list'
  <2>1. CASE o \notin list \/ ref[o] = 0
    <3>1. Held(o) = {} /\ Mapping(o) = {} /\ Leaving(o) = {} /\ Users(o) = 0
      BY <1>0, <2>1, NoUsers DEF RefInv
    <3> QED BY <1>1, <1>4, <3>1 DEF RefInv, UsersCounted
  <2>2. CASE o \in list /\ ref[o] # 0
    BY <1>1, <1>4, <2>2 DEF RefInv, UsersCounted
  <2> QED BY <2>1, <2>2
<1>6. UsersCounted' BY <1>5 DEF UsersCounted
<1> QED BY <1>3, <1>4, <1>6 DEF RefInv

LEMMA FindRefRefs ==
  ASSUME NameInv, RefInv, NEW p \in Procs, NEW i \in Ids, NEW v \in Vmas, MmapFindRef(p, i, v)
  PROVE  RefInv'
<1>0. Types BY DEF NameInv
<1> DEFINE t == proc'[p].obj
<1>1. /\ Others(p) /\ proc[p].pc = "idle"
      /\ proc'[p].pc = "mmap" /\ proc'[p].vma = v /\ t \in list
      /\ ref' = [ref EXCEPT ![t] = @ + 1]
  BY <1>0, FindRefMoves
<1>2. /\ UNCHANGED <<list, vma, data, template>> /\ vma[v] = None
      /\ \A q \in Procs : proc[q].vma # v
  BY DEF MmapFindRef, mappings
<1>3. Plain' BY <1>1 DEF RefInv, Plain, Others
<1>4. OwnData' BY <1>0, <1>1, <1>2 DEF RefInv, OwnData, Others, Types
<1>5. ASSUME NEW o \in Objects
      PROVE  /\ ref'[o] >= Users(o)'
             /\ (Held(o) \cup Mapping(o) \cup Leaving(o))' # {} => o \in list'
  <2>1. Held(o)' = Held(o) BY <1>2 DEF Held
  <2>2. Leaving(o)' = Leaving(o) BY <1>1 DEF Leaving, Others
  <2>3. CASE o = t
    <3>1. Mapping(o)' = Mapping(o) \cup {p} /\ p \notin Mapping(o)
      BY <1>1, <2>3 DEF Mapping, Others
    <3>2. Cardinality(Mapping(o)') = Cardinality(Mapping(o)) + 1
      BY <3>1, UserSets, FS_AddElement
    <3>3. Users(o)' = Users(o) + 1
      <4>1. Users(o)' = 2 * Cardinality(Held(o)') + Cardinality(Mapping(o)') + 2 * Cardinality(Leaving(o)')
        BY DEF Users
      <4> QED BY <2>1, <2>2, <3>2, <4>1, UserSets DEF Users
    <3>4. Users(o) \in Int /\ ref[o] >= Users(o) /\ ref[o] \in Int /\ ref'[o] = ref[o] + 1
      BY <1>0, <1>1, <2>3, UserSets DEF RefInv, UsersCounted, Users, Types
    <3> QED BY <1>1, <1>2, <2>3, <3>3, <3>4
  <2>4. CASE o # t
    <3>1. Mapping(o)' = Mapping(o) BY <1>1, <2>4 DEF Mapping, Others
    <3>2. Users(o)' = Users(o) /\ ref'[o] = ref[o]
      BY <1>0, <1>1, <2>1, <2>2, <2>4, <3>1 DEF Users, Types
    <3> QED BY <1>2, <2>1, <2>2, <3>1, <3>2 DEF RefInv, UsersCounted
  <2> QED BY <2>3, <2>4
<1>6. UsersCounted' BY <1>5 DEF UsersCounted
<1> QED BY <1>3, <1>4, <1>6 DEF RefInv

LEMMA MmapDoneRefs ==
  ASSUME NameInv, RefInv, NEW p \in Procs, MmapDone(p)
  PROVE  RefInv'
<1>0. Types BY DEF NameInv
<1> DEFINE t == proc[p].obj
           v == proc[p].vma
<1>1. Others(p) /\ proc'[p].pc = "idle" /\ proc[p].pc = "mmap" /\ t \in Objects
  BY <1>0, Moves DEF MmapDone, Idle, Use, At, RefInv, OwnData
<1>2. /\ v \in Vmas /\ vma[v] = None
      /\ \A q \in Procs : proc[q].pc = "mmap" /\ proc[q].vma = v => p = q
  BY <1>1 DEF RefInv, OwnData
<1>3. /\ list' = list /\ data' = data \cup {v} /\ vma'[v] = v /\ template'[v] = t
      /\ \A w \in Vmas \ {v} : vma'[w] = vma[w] /\ template'[w] = template[w]
      /\ ref' = [ref EXCEPT ![t] = @ + 1]
  BY <1>0, <1>2 DEF MmapDone, Types
<1>4. v # None BY <1>2, TemplateConstants
<1>5. Plain' BY <1>1 DEF RefInv, Plain, Others
<1>6. OwnData' BY <1>1, <1>2, <1>3 DEF RefInv, OwnData, Others
<1>7. ASSUME NEW o \in Objects
      PROVE  /\ ref'[o] >= Users(o)'
             /\ (Held(o) \cup Mapping(o) \cup Leaving(o))' # {} => o \in list'
  <2>2. Leaving(o)' = Leaving(o) BY <1>1 DEF Leaving, Others
  <2>3. CASE o = t
    <3>1. Mapping(o)' = Mapping(o) \ {p} /\ p \in Mapping(o)
      BY <1>1, <2>3 DEF Mapping, Others
    <3>2. Held(o)' = Held(o) \cup {v} /\ v \notin Held(o)
      BY <1>2, <1>3, <1>4, <2>3 DEF Held, RefInv, OwnData
    <3>a. Cardinality(Mapping(o)') = Cardinality(Mapping(o)) - 1
      BY <3>1, UserSets, FS_RemoveElement
    <3>3. Cardinality(Held(o)') = Cardinality(Held(o)) + 1
      BY <3>2, UserSets, FS_AddElement
    <3>4. Users(o)' = Users(o) + 1
      <4>1. Users(o)' = 2 * Cardinality(Held(o)') + Cardinality(Mapping(o)') + 2 * Cardinality(Leaving(o)')
        BY DEF Users
      <4> QED BY <2>2, <3>a, <3>3, <4>1, UserSets DEF Users
    <3>5. Users(o) \in Int /\ ref[o] >= Users(o) /\ ref[o] \in Int /\ ref'[o] = ref[o] + 1
      BY <1>0, <1>3, <2>3, UserSets DEF RefInv, UsersCounted, Users, Types
    <3>6. o \in list BY <3>1 DEF RefInv, UsersCounted
    <3> QED BY <1>3, <3>4, <3>5, <3>6
  <2>4. CASE o # t
    <3>1. Mapping(o)' = Mapping(o) BY <1>1, <2>4 DEF Mapping, Others
    <3>2. Held(o)' = Held(o)
      BY <1>2, <1>3, <1>4, <2>4 DEF Held, RefInv, OwnData
    <3>3. Users(o)' = Users(o) /\ ref'[o] = ref[o]
      BY <1>0, <1>3, <2>2, <2>4, <3>1, <3>2 DEF Users, Types
    <3> QED BY <1>3, <2>2, <3>1, <3>2, <3>3 DEF RefInv, UsersCounted
  <2> QED BY <2>3, <2>4
<1>8. UsersCounted' BY <1>7 DEF UsersCounted
<1> QED BY <1>5, <1>6, <1>8 DEF RefInv

LEMMA VmaCloseRefs ==
  ASSUME NameInv, RefInv, NEW p \in Procs, NEW v \in Vmas, VmaClose(p, v)
  PROVE  RefInv'
<1>0. Types BY DEF NameInv
<1> DEFINE t == template[v]
<1>1. vma[v] = v /\ t \in Objects /\ v # None
  BY <1>0, TemplateConstants DEF VmaClose, RefInv, OwnData, Types
<1>2. /\ Others(p) /\ proc[p].pc = "idle" /\ proc'[p].pc = "unref" /\ proc'[p].obj = t
  BY <1>0, <1>1, Moves DEF VmaClose, At, UsePCs
<1>3. /\ UNCHANGED <<list, ref>> /\ data' = data \ {v} /\ vma'[v] = None
      /\ \A w \in Vmas \ {v} : vma'[w] = vma[w] /\ template'[w] = template[w]
  BY <1>0, <1>1 DEF VmaClose, Types, templates
<1>4. Plain' BY <1>2 DEF RefInv, Plain, Others
<1>5. OwnData' BY <1>1, <1>2, <1>3 DEF RefInv, OwnData, Others
<1>6. ASSUME NEW o \in Objects
      PROVE  /\ ref'[o] >= Users(o)'
             /\ (Held(o) \cup Mapping(o) \cup Leaving(o))' # {} => o \in list'
  <2>1. Mapping(o)' = Mapping(o) BY <1>2 DEF Mapping, Others
  <2>2. CASE o = t
    <3>1. Leaving(o)' = Leaving(o) \cup {p} /\ p \notin Leaving(o)
      BY <1>2, <2>2 DEF Leaving, Others
    <3>2. Held(o)' = Held(o) \ {v} /\ v \in Held(o)
      BY <1>1, <1>3, <2>2 DEF Held, RefInv, OwnData
    <3>a. Cardinality(Leaving(o)') = Cardinality(Leaving(o)) + 1
      BY <3>1, UserSets, FS_AddElement
    <3>3. Cardinality(Held(o)') = Cardinality(Held(o)) - 1
      BY <3>2, UserSets, FS_RemoveElement
    <3>4. Users(o)' = Users(o)
      <4>1. Users(o)' = 2 * Cardinality(Held(o)') + Cardinality(Mapping(o)') + 2 * Cardinality(Leaving(o)')
        BY DEF Users
      <4> QED BY <2>1, <3>a, <3>3, <4>1, UserSets DEF Users
    <3>5. o \in list BY <3>2 DEF RefInv, UsersCounted
    <3> QED BY <1>3, <3>4, <3>5 DEF RefInv, UsersCounted
  <2>3. CASE o # t
    <3>1. Leaving(o)' = Leaving(o) BY <1>2, <2>3 DEF Leaving, Others
    <3>2. Held(o)' = Held(o)
      BY <1>1, <1>3, <2>3 DEF Held, RefInv, OwnData
    <3>3. Users(o)' = Users(o) BY <2>1, <3>1, <3>2 DEF Users
    <3> QED BY <1>3, <2>1, <3>1, <3>2, <3>3 DEF RefInv, UsersCounted
  <2> QED BY <2>2, <2>3
<1>7. UsersCounted' BY <1>6 DEF UsersCounted
<1> QED BY <1>4, <1>5, <1>7 DEF RefInv

(* The count of a template that is being let go of is at least two, so     *)
(* that snapshot_template_unref never finds it at one.                     *)
LEMMA UnrefRefs ==
  ASSUME NameInv, RefInv, NEW p \in Procs, Unref(p)
  PROVE  RefInv' /\ proc'[p].pc = "idle"
<1>0. Types BY DEF NameInv
<1> DEFINE t == proc[p].obj
<1>1. proc[p].pc = "unref" /\ t \in Objects BY DEF Unref, Use, At, RefInv, OwnData
<1>2. p \in Leaving(t) BY <1>1 DEF Leaving
<1>3. Cardinality(Leaving(t) \ {p}) = Cardinality(Leaving(t)) - 1 /\ Cardinality(Leaving(t) \ {p}) \in Nat
  BY <1>2, UserSets, FS_RemoveElement, FS_CardinalityType
<1>4. ref[t] >= 2
  BY <1>0, <1>1, <1>3, UserSets DEF RefInv, UsersCounted, Users, Types
<1>5. Return(p) BY <1>0, <1>1, <1>4 DEF Unref, Types
<1>6. Others(p) /\ proc'[p].pc = "idle" BY <1>0, <1>5, Moves DEF Idle
<1>7. UNCHANGED <<list, vma, data, template>> /\ ref' = [ref EXCEPT ![t] = @ - 1]
  BY DEF Unref, mappings
<1>8. Plain' BY <1>6 DEF RefInv, Plain, Others
<1>9. OwnData' BY <1>1, <1>6, <1>7 DEF RefInv, OwnData, Others
<1>10. ASSUME NEW o \in Objects
      PROVE  /\ ref'[o] >= Users(o)'
             /\ (Held(o) \cup Mapping(o) \cup Leaving(o))' # {} => o \in list'
  <2>1. Mapping(o)' = Mapping(o) BY <1>1, <1>6 DEF Mapping, Others
  <2>2. Held(o)' = Held(o) BY <1>7 DEF Held
  <2>3. CASE o = t
    <3>1. Leaving(o)' = Leaving(o) \ {p} BY <1>1, <1>6, <2>3 DEF Leaving, Others
    <3>2. Users(o)' = Users(o) - 2
      <4>1. Users(o)' = 2 * Cardinality(Held(o)') + Cardinality(Mapping(o)') + 2 * Cardinality(Leaving(o)')
        BY DEF Users
      <4> QED BY <1>3, <2>1, <2>2, <2>3, <3>1, <4>1, UserSets DEF Users
    <3>3. Users(o) \in Int /\ ref[o] >= Users(o) /\ ref[o] \in Int /\ ref'[o] = ref[o] - 1
      BY <1>0, <1>7, <2>3, UserSets DEF RefInv, UsersCounted, Users, Types
    <3>4. o \in list BY <1>2, <2>3 DEF RefInv, UsersCounted
    <3> QED BY <1>7, <3>2, <3>3, <3>4
  <2>4. CASE o # t
    <3>1. Leaving(o)' = Leaving(o) BY <1>6, <2>4 DEF Leaving, Others
    <3>2. Users(o)' = Users(o) /\ ref'[o] = ref[o]
      BY <1>0, <1>7, <2>1, <2>2, <2>4, <3>1 DEF Users, Types
    <3> QED BY <1>7, <2>1, <2>2, <3>1, <3>2 DEF RefInv, UsersCounted
  <2> QED BY <2>3, <2>4
<1>11. UsersCounted' BY <1>10 DEF UsersCounted
<1> QED BY <1>6, <1>8, <1>9, <1>11 DEF RefInv

-----------------------------------------------------------------------------
(* The inductive invariant *)
LEMMA InitInv == Init => IInv
<1> SUFFICES ASSUME Init PROVE IInv OBVIOUS
<1>1. Types
  <2>1. "idle" \in UsePCs \cup {"idle", "register"} OBVIOUS
  <2>2. Idle \in ProcType /\ Idle.pc = "idle" BY <2>1 DEF Idle, ProcType
  <2> QED BY <2>2 DEF Init, Types, ProcsOK
<1>2. \A p \in Procs : proc[p].pc = "idle" BY DEF Init, Idle
<1>3. NameInv BY <1>1, <1>2 DEF Init, NameInv, Owned, DeviceNames, OwnPCs
<1>4. Plain /\ OwnData BY <1>2 DEF Init, Plain, OwnData
<1>5. ASSUME NEW o \in Objects
      PROVE  Held(o) = {} /\ Mapping(o) = {} /\ Leaving(o) = {}
  BY <1>2 DEF Init, Held, Mapping, Leaving
<1>6. ASSUME NEW o \in Objects PROVE Users(o) = 0 /\ ref[o] = 0
  BY <1>5, FS_EmptySet DEF Users, Init
<1>7. UsersCounted BY <1>5, <1>6 DEF UsersCounted
<1> QED BY <1>3, <1>4, <1>7 DEF IInv, RefInv

LEMMA NextInv == IInv /\ [Next]_vars => IInv'
<1> SUFFICES ASSUME IInv, [Next]_vars PROVE IInv' OBVIOUS
<1>1. NameInv' BY NextNames DEF IInv
<1>2. ASSUME ops' = {} PROVE RefInv'
  <2>0. NameInv BY DEF IInv
  <2>1. ops = {} /\ RefInv
    BY <1>2, ZenonT(60) DEF IInv, Next, vars, Step, CreateCheck, DeleteUnlink, StatusFind, MmapFindRef,
       VmaClose, CreateRegister, CreateError, CreateAdd, DeleteFree, MmapDone, MmapRefuse,
       Unref, UnrefUnlink, UnrefFree, StatusRead, VmaOpen
  <2>2. ASSUME NEW p \in Procs, Step(p) PROVE RefInv'
    <3>1. ~MmapRefuse(p) /\ \A i \in Ids : ~StatusFind(p, i)
      BY <2>1 DEF MmapRefuse, StatusFind
    <3>2. ~UnrefUnlink(p) /\ ~UnrefFree(p) /\ ~StatusRead(p)
      BY <2>1 DEF UnrefUnlink, UnrefFree, StatusRead, Use, At, RefInv, Plain
    <3> QED BY <2>0, <2>1, <2>2, <3>1, <3>2, CreateRefs, DeleteRefs, FindRefRefs, MmapDoneRefs,
               VmaCloseRefs, UnrefRefs DEF Step
  <2>3. \A v, w \in Vmas : ~VmaOpen(v, w) BY <2>1 DEF VmaOpen
  <2>4. CASE UNCHANGED vars
    BY <2>1, <2>4 DEF vars, RefInv, Plain, OwnData, UsersCounted, Users, Held, Mapping, Leaving
  <2> QED BY <2>2, <2>3, <2>4 DEF Next
<1> QED BY <1>1, <1>2 DEF IInv

(* Names: at most one listed template has an id, and it is allocated and   *)
(* has a device, whatever creates and deletes race: misc_register keeps    *)
(* the second creator of a name out.                                       *)
THEOREM Unique == Spec => []UniqueIds
<1>1. IInv => UniqueIds BY DEF IInv, NameInv, DeviceNames, UniqueIds
<1> QED BY InitInv, NextInv, <1>1, PTL DEF Spec

(* With create, delete, mmap and munmap alone, nobody is left with freed   *)
(* memory: every template about to be used is allocated, and so are the    *)
(* vma_data and the template of every mapping.                             *)
THEOREM UseAllocated == Spec => []NoUseAfterFree
<1>1. ASSUME IInv, ops = {} PROVE NoUseAfterFree
  <2>0. Types /\ RefInv BY <1>1 DEF IInv, NameInv
  <2>1. ASSUME NEW p \in Procs, proc[p].pc \in UsePCs PROVE proc[p].obj \in alloc
    <3>1. CASE proc[p].pc \in {"add", "free"}
      BY <1>1, <3>1 DEF IInv, NameInv, Owned, OwnPCs
    <3>2. CASE proc[p].pc \in {"mmap", "unref"}
      <4>1. proc[p].obj \in Objects BY <2>0, <3>2 DEF RefInv, OwnData
      <4>2. p \in Mapping(proc[p].obj) \cup Leaving(proc[p].obj)
        BY <3>2 DEF Mapping, Leaving
      <4>3. proc[p].obj \in list BY <2>0, <4>1, <4>2 DEF RefInv, UsersCounted
      <4> QED BY <1>1, <4>3 DEF IInv, NameInv, DeviceNames
    <3> QED BY <2>0, <2>1, <3>1, <3>2 DEF UsePCs, RefInv, Plain
  <2>2. ASSUME NEW v \in Vmas, vma[v] # None PROVE vma[v] \in data /\ template[vma[v]] \in alloc
    <3>1. vma[v] = v /\ v \in data /\ template[v] \in Objects
      BY <2>0, <2>2 DEF RefInv, OwnData
    <3>2. v \in Held(template[v]) BY <2>2, <3>1 DEF Held
    <3>3. template[v] \in list BY <2>0, <3>1, <3>2 DEF RefInv, UsersCounted
    <3> QED BY <1>1, <3>1, <3>3 DEF IInv, NameInv, DeviceNames
  <2> QED BY <2>1, <2>2 DEF NoUseAfterFree
<1>2. IInv => NoUseAfterFree BY <1>1 DEF NoUseAfterFree
<1> QED BY InitInv, NextInv, <1>2, PTL DEF Spec

(* A template that is mapped or being mapped is on the list, with a count  *)
(* of at least the number of its mappings and of the calls that hold a     *)
(* reference: no delete finds it unused.                                   *)
THEOREM MappedKept == Spec => []MappedTemplateKept
<1>1. ASSUME IInv, ops = {}, NEW o \in Objects
      PROVE  LET held == {v \in Vmas : vma[v] # None /\ template[vma[v]] = o}
                 holders == {p \in Procs : proc[p].obj = o /\ proc[p].pc \in {"mmap", "unref"}}
                 n == Cardinality(held) + Cardinality(holders)
             IN  n > 0 => o \in list /\ ref[o] >= n
  <2> DEFINE holders == {p \in Procs : proc[p].obj = o /\ proc[p].pc \in {"mmap", "unref"}}
             n == Cardinality(Held(o)) + Cardinality(holders)
  <2>0. Types /\ RefInv BY <1>1 DEF IInv, NameInv
  <2>1. holders = Mapping(o) \cup Leaving(o) /\ Mapping(o) \cap Leaving(o) = {}
    BY DEF Mapping, Leaving
  <2>2. Cardinality(holders) = Cardinality(Mapping(o)) + Cardinality(Leaving(o))
    <3>1. Cardinality(Mapping(o) \cup Leaving(o))
            = Cardinality(Mapping(o)) + Cardinality(Leaving(o)) - Cardinality(Mapping(o) \cap Leaving(o))
      BY UserSets, FS_Union
    <3>2. Cardinality(Mapping(o) \cap Leaving(o)) = 0 BY <2>1, FS_EmptySet
    <3>3. Cardinality(holders) = Cardinality(Mapping(o) \cup Leaving(o)) BY <2>1
    <3> HIDE DEF holders
    <3> QED BY <3>1, <3>2, <3>3, UserSets
  <2>3. Users(o) >= n /\ n \in Nat /\ Users(o) \in Nat BY <2>2, UserSets DEF Users
  <2>4. ref[o] >= n BY <2>0, <2>3 DEF RefInv, UsersCounted, Types
  <2>5. ASSUME n > 0 PROVE o \in list
    <3>1. Held(o) \cup Mapping(o) \cup Leaving(o) # {}
      <4> SUFFICES ASSUME Held(o) = {} /\ Mapping(o) = {} /\ Leaving(o) = {} PROVE FALSE OBVIOUS
      <4> QED BY <2>2, <2>5, FS_EmptySet
    <3> QED BY <2>0, <3>1 DEF RefInv, UsersCounted
  <2> QED BY <2>4, <2>5 DEF Held
<1>2. IInv => MappedTemplateKept BY <1>1 DEF MappedTemplateKept
<1> QED BY InitInv, NextInv, <1>2, PTL DEF Spec

(* Only a delete takes a template off the list: snapshot_template_unref    *)
(* never does, as its count never falls to zero there.                     *)
THEOREM OnlyDelete == Spec => OnlyDeleteUnlists
<1>1. ASSUME IInv, [Next]_vars, ops = {} PROVE Unlisting
  <2>0. Types /\ RefInv BY <1>1 DEF IInv, NameInv
  <2>1. CASE \E p \in Procs, i \in Ids : DeleteUnlink(p, i)
    <3>1. PICK p \in Procs, i \in Ids : DeleteUnlink(p, i) BY <2>1
    <3>2. PICK o \in list : Enter(p, "free", o) BY <3>1 DEF DeleteUnlink, Listed
    <3>3. o \in Objects BY <2>0 DEF Types
    <3>4. proc'[p].pc = "free" BY <2>0, <3>2, <3>3, Moves DEF UsePCs
    <3> QED BY <3>1, <3>4 DEF Unlisting, DeleteUnlink
  <2>2. CASE ~\E p \in Procs, i \in Ids : DeleteUnlink(p, i)
    <3>1. \A p \in Procs : ~UnrefUnlink(p)
      BY <2>0 DEF UnrefUnlink, Use, At, RefInv, Plain
    <3>2. list \subseteq list'
      BY <1>1, <2>2, <3>1 DEF Next, vars, Step, CreateCheck, StatusFind, MmapFindRef,
         VmaClose, CreateRegister, CreateError, CreateAdd, DeleteFree, MmapDone, MmapRefuse,
         Unref, UnrefFree, StatusRead, VmaOpen, templates
    <3> QED BY <3>2 DEF Unlisting
  <2> QED BY <2>1, <2>2
<1>2. IInv /\ [Next]_vars => [ops = {} => Unlisting]_vars BY <1>1
<1> QED BY InitInv, NextInv, <1>2, PTL DEF Spec, OnlyDeleteUnlists
=============================================================================
