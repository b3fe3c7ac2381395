-------------------------- MODULE SnapshotTemplates --------------------------
(***************************************************************************)
(* The templates of the snapshot driver: conch-driver/driver,              *)
(* snapshot_template.c, and the lifetime of mappings in snapshot_mmap.c.   *)
(*                                                                         *)
(* A template is an object on the driver's list, with a reference count    *)
(* and a misc device of its own.  Ioctls create, delete and query it; mmap *)
(* of its device, fork and munmap count mappings.  The template lock makes *)
(* one step of each section it guards; between sections other processes    *)
(* run.  Freed memory can be allocated again.  A step that would touch     *)
(* freed memory is not taken: the properties are about the states before   *)
(* it.                                                                     *)
(***************************************************************************)
EXTENDS Integers, FiniteSets

CONSTANTS
  Procs,    (* processes in the driver                                     *)
  Ids,      (* template ids                                                *)
  Objects,  (* struct snapshot_template allocations                        *)
  Vmas,     (* mappings; each names the vma_snapshot_data its mmap makes   *)
  Ops,      (* operations beside create, delete, mmap and munmap           *)
  MaxRef,   (* bound: nothing is mapped once a count exceeds it            *)
  None

(* An mmap that is refused (larger than the template, or no memory for     *)
(* vma_data), fork, and the status ioctl.                                  *)
OptionalOps == {"refuse", "fork", "status"}

ASSUME TemplateConstants ==
  /\ Ops \subseteq OptionalOps
  /\ MaxRef \in Nat
  /\ None \notin Objects \cup Vmas \cup Ids
  /\ IsFiniteSet(Procs) /\ IsFiniteSet(Vmas)

VARIABLES
  ops,       (* which of Ops occur: none, or all; chosen at the start      *)
  alloc,     (* the templates that are allocated                           *)
  list,      (* those on template_list                                     *)
  device,    (* those whose misc device is registered                      *)
  id,        (* template_id                                                *)
  ref,       (* ref_count                                                  *)
  vma,       (* per mapping: its vm_private_data, or None                  *)
  data,      (* the vma_snapshot_data that are allocated                   *)
  template,  (* vma_data->template                                         *)
  proc       (* per process: its label and local variables                 *)

vars == <<ops, alloc, list, device, id, ref, vma, data, template, proc>>
templates == <<alloc, list, device, id, ref>>
mappings == <<vma, data, template>>

Idle == [pc |-> "idle", id |-> None, obj |-> None, vma |-> None]
(* The labels at which a process is about to use its template. *)
UsePCs == {"add", "free", "mmap", "unref", "unlink", "unreffree", "status"}

TypeOK ==
  /\ ops \subseteq Ops
  /\ alloc \subseteq Objects /\ list \subseteq Objects /\ device \subseteq Objects
  /\ id \in [Objects -> Ids \cup {None}]
  /\ ref \in [Objects -> Int]
  /\ vma \in [Vmas -> Vmas \cup {None}] /\ data \subseteq Vmas
  /\ template \in [Vmas -> Objects \cup {None}]
  /\ \A p \in Procs :
       /\ proc[p].pc \in UsePCs \cup {"idle", "register"}
       /\ proc[p].pc \in UsePCs => proc[p].obj \in Objects
       /\ proc[p].pc = "mmap" => proc[p].vma \in Vmas

Init ==
  /\ ops \in {{}, Ops}
  /\ alloc = {} /\ list = {} /\ device = {}
  /\ id = [o \in Objects |-> None] /\ ref = [o \in Objects |-> 0]
  /\ vma = [v \in Vmas |-> None] /\ data = {}
  /\ template = [v \in Vmas |-> None]
  /\ proc = [p \in Procs |-> Idle]

-----------------------------------------------------------------------------
At(p, label) == proc[p].pc = label
Use(p, label) == At(p, label) /\ proc[p].obj \in alloc
Goto(p, label) == proc' = [proc EXCEPT ![p].pc = label]
Enter(p, label, o) == proc' = [proc EXCEPT ![p].pc = label, ![p].obj = o]
Return(p) == proc' = [proc EXCEPT ![p] = Idle]

Listed(i) == {o \in list : id[o] = i}

(* misc_deregister and kfree. *)
Free(o) ==
  /\ alloc' = alloc \ {o} /\ device' = device \ {o}
  /\ id' = [id EXCEPT ![o] = None] /\ ref' = [ref EXCEPT ![o] = 0]

-----------------------------------------------------------------------------
(* snapshot_template_create *)

CreateCheck(p, i) ==
  /\ At(p, "idle") /\ Listed(i) = {}
  /\ proc' = [proc EXCEPT ![p].pc = "register", ![p].id = i]
  /\ UNCHANGED <<ops, templates, mappings>>

(* Mutant: two devices of one name may be registered. *)
CreateRegisterAny(p) ==
  /\ At(p, "register")
  /\ \E o \in Objects \ alloc :
       /\ alloc' = alloc \cup {o} /\ device' = device \cup {o}
       /\ id' = [id EXCEPT ![o] = proc[p].id] /\ ref' = [ref EXCEPT ![o] = 0]
       /\ Enter(p, "add", o)
  /\ UNCHANGED <<ops, list, mappings>>

(* The files are read, the template allocated, its device registered. *)
CreateRegister(p) ==
  /\ At(p, "register")
  /\ \A d \in device : id[d] # proc[p].id
  /\ \E o \in Objects \ alloc :
       /\ alloc' = alloc \cup {o} /\ device' = device \cup {o}
       /\ id' = [id EXCEPT ![o] = proc[p].id] /\ ref' = [ref EXCEPT ![o] = 0]
       /\ Enter(p, "add", o)
  /\ UNCHANGED <<ops, list, mappings>>

(* A file or memory is not to be had, or the name is taken: all is undone. *)
CreateError(p) ==
  /\ At(p, "register")
  /\ Return(p)
  /\ UNCHANGED <<ops, templates, mappings>>

CreateAdd(p) ==
  /\ Use(p, "add")
  /\ list' = list \cup {proc[p].obj}
  /\ Return(p)
  /\ UNCHANGED <<ops, alloc, device, id, ref, mappings>>

-----------------------------------------------------------------------------
(* snapshot_template_delete; what it does to the pool is in PagePool *)

(* Mutant: ref_count is not looked at. *)
DeleteUnlinkBusy(p, i) ==
  /\ At(p, "idle")
  /\ \E o \in Listed(i) : list' = list \ {o} /\ Enter(p, "free", o)
  /\ UNCHANGED <<ops, alloc, device, id, ref, mappings>>

DeleteUnlink(p, i) ==
  /\ At(p, "idle")
  /\ \E o \in Listed(i) :
       /\ ref[o] = 0
       /\ list' = list \ {o}
       /\ Enter(p, "free", o)
  /\ UNCHANGED <<ops, alloc, device, id, ref, mappings>>

DeleteFree(p) ==
  /\ Use(p, "free")
  /\ Free(proc[p].obj)
  /\ Return(p)
  /\ UNCHANGED <<ops, list, mappings>>

-----------------------------------------------------------------------------
(* snapshot_mmap *)

(* Mutant: the template is found without a reference, as by                *)
(* snapshot_template_find.                                                 *)
MmapFindNoRef(p, i, v) ==
  /\ At(p, "idle") /\ vma[v] = None /\ v \notin data
  /\ \A q \in Procs : proc[q].vma # v
  /\ \E o \in Listed(i) :
       /\ ref[o] <= MaxRef
       /\ proc' = [proc EXCEPT ![p] = [Idle EXCEPT !.pc = "mmap", !.obj = o, !.vma = v]]
  /\ UNCHANGED <<ops, templates, mappings>>

(* snapshot_template_find_ref *)
MmapFindRef(p, i, v) ==
  /\ At(p, "idle") /\ vma[v] = None /\ v \notin data
  /\ \A q \in Procs : proc[q].vma # v
  /\ \E o \in Listed(i) :
       /\ ref[o] <= MaxRef
       /\ ref' = [ref EXCEPT ![o] = @ + 1]
       /\ proc' = [proc EXCEPT ![p] = [Idle EXCEPT !.pc = "mmap", !.obj = o, !.vma = v]]
  /\ UNCHANGED <<ops, alloc, list, device, id, mappings>>

(* Mutant: the mapping keeps the one reference of find_ref. *)
MmapDoneOnce(p) ==
  LET v == proc[p].vma
  IN  /\ Use(p, "mmap")
      /\ vma' = [vma EXCEPT ![v] = v] /\ data' = data \cup {v}
      /\ template' = [template EXCEPT ![v] = proc[p].obj]
      /\ Return(p)
      /\ UNCHANGED <<ops, templates>>

(* vma_data is set up, and the mapping counted once more. *)
MmapDone(p) ==
  LET v == proc[p].vma
  IN  /\ Use(p, "mmap")
      /\ vma' = [vma EXCEPT ![v] = v] /\ data' = data \cup {v}
      /\ template' = [template EXCEPT ![v] = proc[p].obj]
      /\ ref' = [ref EXCEPT ![proc[p].obj] = @ + 1]
      /\ Return(p)
      /\ UNCHANGED <<ops, alloc, list, device, id>>

MmapRefuse(p) ==
  /\ At(p, "mmap") /\ "refuse" \in ops
  /\ proc' = [proc EXCEPT ![p].pc = "unref", ![p].vma = None]
  /\ UNCHANGED <<ops, templates, mappings>>

-----------------------------------------------------------------------------
(* snapshot_vma_open and snapshot_vma_close *)

(* fork copies a mapping, vm_private_data included. *)
VmaOpen(v, w) ==
  /\ "fork" \in ops
  /\ vma[v] \in data /\ template[vma[v]] \in alloc /\ ref[template[vma[v]]] <= MaxRef
  /\ vma[w] = None /\ w \notin data /\ \A q \in Procs : proc[q].vma # w
  /\ vma' = [vma EXCEPT ![w] = vma[v]]
  /\ ref' = [ref EXCEPT ![template[vma[v]]] = @ + 1]
  /\ UNCHANGED <<ops, alloc, list, device, id, data, template, proc>>

(* The pages are dropped (in PagePool) and vma_data is freed. *)
VmaClose(p, v) ==
  /\ At(p, "idle") /\ vma[v] \in data
  /\ vma' = [vma EXCEPT ![v] = None]
  /\ data' = data \ {vma[v]}
  /\ template' = [template EXCEPT ![vma[v]] = None]
  /\ Enter(p, "unref", template[vma[v]])
  /\ UNCHANGED <<ops, templates>>

-----------------------------------------------------------------------------
(* snapshot_template_unref *)

(* The decrement is not under the lock. *)
Unref(p) ==
  LET o == proc[p].obj
  IN  /\ Use(p, "unref")
      /\ ref' = [ref EXCEPT ![o] = @ - 1]
      /\ IF ref[o] = 1 THEN Goto(p, "unlink") ELSE Return(p)
      /\ UNCHANGED <<ops, alloc, list, device, id, mappings>>

UnrefUnlink(p) ==
  /\ Use(p, "unlink") /\ proc[p].obj \in list
  /\ list' = list \ {proc[p].obj}
  /\ Goto(p, "unreffree")
  /\ UNCHANGED <<ops, alloc, device, id, ref, mappings>>

UnrefFree(p) ==
  /\ Use(p, "unreffree")
  /\ Free(proc[p].obj)
  /\ Return(p)
  /\ UNCHANGED <<ops, list, mappings>>

-----------------------------------------------------------------------------
(* snapshot_template_status: the template is read after the lock is let go *)

StatusFind(p, i) ==
  /\ At(p, "idle") /\ "status" \in ops
  /\ \E o \in Listed(i) : Enter(p, "status", o)
  /\ UNCHANGED <<ops, templates, mappings>>

StatusRead(p) ==
  /\ Use(p, "status")
  /\ Return(p)
  /\ UNCHANGED <<ops, templates, mappings>>

-----------------------------------------------------------------------------
Step(p) ==
  \/ \E i \in Ids : CreateCheck(p, i) \/ DeleteUnlink(p, i) \/ StatusFind(p, i)
  \/ \E i \in Ids, v \in Vmas : MmapFindRef(p, i, v)
  \/ \E v \in Vmas : VmaClose(p, v)
  \/ CreateRegister(p) \/ CreateError(p) \/ CreateAdd(p)
  \/ DeleteFree(p)
  \/ MmapDone(p) \/ MmapRefuse(p)
  \/ Unref(p) \/ UnrefUnlink(p) \/ UnrefFree(p)
  \/ StatusRead(p)

Next ==
  \/ \E p \in Procs : Step(p)
  \/ \E v, w \in Vmas : VmaOpen(v, w)

Spec == Init /\ [][Next]_vars

-----------------------------------------------------------------------------
(* Properties *)

(* Nobody is left with freed memory: the template a process is about to    *)
(* use is allocated, and so are the vma_data and the template of every     *)
(* mapping, which its faults and its close will read.  (With none of the   *)
(* optional operations; each of them alone breaks it.)                     *)
NoUseAfterFree ==
  ops = {} =>
    /\ \A p \in Procs : proc[p].pc \in UsePCs => proc[p].obj \in alloc
    /\ \A v \in Vmas : vma[v] # None => vma[v] \in data /\ template[vma[v]] \in alloc

(* A name stands for one template: whatever creates, deletes and the       *)
(* other operations race, at most one listed template has an id, and it is *)
(* allocated and has a device (template_id_exists is checked long before   *)
(* list_add_tail; misc_register keeps the second creator out).             *)
UniqueIds ==
  /\ \A o \in list : o \in alloc /\ o \in device
  /\ \A o, q \in list : id[o] = id[q] => o = q

(* A template that is mapped, or is being mapped, cannot be deleted: it is *)
(* on the list, and its count is at least the number of its mappings and   *)
(* of the calls that hold a reference.                                     *)
MappedTemplateKept ==
  ops = {} =>
    \A o \in Objects :
      LET held == {v \in Vmas : vma[v] # None /\ template[vma[v]] = o}
          holders == {p \in Procs : proc[p].obj = o /\ proc[p].pc \in {"mmap", "unref"}}
          n == Cardinality(held) + Cardinality(holders)
      IN  n > 0 => o \in list /\ ref[o] >= n

(* Only a delete takes a template off the list: no mmap or munmap makes a  *)
(* template disappear.                                                     *)
Unlisting == \A o \in list \ list' : \E p \in Procs : At(p, "idle") /\ proc'[p].pc = "free"
OnlyDeleteUnlists == [][ops = {} => Unlisting]_vars
=============================================================================
