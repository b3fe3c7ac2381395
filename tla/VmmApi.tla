------------------------------- MODULE VmmApi -------------------------------
(***************************************************************************)
(* The requests the VMM serves, vmm/src/lib.rs, on the life of a VM and on *)
(* its devices, over the DeviceManager of the VM.  The thread of the VMM   *)
(* serves one request or event at a time; the guest runs beside it.  A VMM *)
(* that ended is replaced by a new process, which may restore the VM from  *)
(* its snapshot.                                                           *)
(***************************************************************************)
EXTENDS DeviceHotplug

VARIABLES
  created,         (* vm_config is set                                     *)
  config,          (* its devices                                          *)
  vm,              (* the state of the VM, "None" without one              *)
  snap,            (* the snapshot to restore: none or one                 *)
  unbooted         (* history: paused or resumed before it ever booted     *)

vars == <<dm, created, config, vm, snap, unbooted>>

TypeOK ==
  /\ DmTypeOK
  /\ config \subseteq Devices
  /\ vm \in {"None", "Created", "Running", "Paused"}
  /\ created \in BOOLEAN /\ unbooted \in BOOLEAN
  /\ ~created => config = {} /\ vm = "None"

Init ==
  /\ DmInit
  /\ created = FALSE /\ config = {} /\ vm = "None" /\ snap = {} /\ unbooted = FALSE

(* The VM object is dropped, with its device manager. *)
DropVm ==
  /\ DmDrop
  /\ vm' = "None" /\ unbooted' = FALSE

(* The process ends: only the snapshot outlives it. *)
Ends ==
  /\ DropVm
  /\ created' = FALSE /\ config' = {}
  /\ UNCHANGED snap

-----------------------------------------------------------------------------
(* Vm::new: a list of devices is taken out of the configuration while its  *)
(* devices are made, and put back after the last one.                      *)
NewFails ==
  \/ /\ "new" \in Failures
     /\ \E kind \in {Disks, Nets, {}} :
          /\ kind # {} => config \cap kind # {}
          /\ config' = config \ kind
  \/ Cardinality(config) > NSlots /\ UNCHANGED config

(* Vm::boot locks the images of the disks b one by one, then loads the     *)
(* guest and starts the vCPUs.                                             *)
TryLockDisks(b) == held' = held \cup b
BootFails(b) ==
  \/ "boot" \in Failures /\ TryLockDisks(b)
  \/ "lock" \in Failures /\ \E l \in SUBSET b : l # b /\ held' = held \cup l

VmCreate ==
  /\ ~created
  /\ created' = TRUE
  /\ config' \in SUBSET Devices
  /\ UNCHANGED <<dm, vm, snap, unbooted>>

VmBootNew ==
  /\ created /\ vm = "None"
  /\ \/ NewFails /\ UNCHANGED <<dm, vm>>
     \/ /\ DmNew(config)
        /\ \/ BootFails(block_devices') /\ vm' = "Created" /\ known' = {}
           \/ TryLockDisks(block_devices') /\ vm' = "Running" /\ known' = config
        /\ UNCHANGED config
  /\ UNCHANGED <<created, snap, unbooted>>

VmBootAgain ==
  /\ vm = "Created"
  /\ \/ BootFails(block_devices) /\ UNCHANGED <<vm, known>>
     \/ TryLockDisks(block_devices) /\ vm' = "Running" /\ known' = live
  /\ UNCHANGED <<tree, bdf, live, device_ids, up, down, block_devices, ged, gpc, asked, history>>
  /\ UNCHANGED <<created, config, snap, unbooted>>

(* Pause and resume accept a VM that never booted. *)
Mark == unbooted' = (unbooted \/ vm = "Created")
VmPause ==
  /\ vm \in {"Running", "Created"}
  /\ vm' = "Paused" /\ Mark
  /\ UNCHANGED <<dm, created, config, snap>>
VmResume ==
  /\ vm \in {"Paused", "Created"}
  /\ vm' = "Running" /\ Mark
  /\ UNCHANGED <<dm, created, config, snap>>

(* A snapshot holds the configuration, the device tree and the guest. *)
VmSnapshot ==
  /\ vm = "Paused" /\ snap = {}
  /\ snap' = {[config |-> config, tree |-> tree, bdf |-> bdf, gpc |-> gpc,
               known |-> known, asked |-> asked, unbooted |-> unbooted]}
  /\ UNCHANGED <<dm, created, config, vm, unbooted>>

(* What is left of a restore that failed, after its vm_delete. *)
RestoreFails(s) ==
  /\ Failures # {} \/ RestoredSlots(s) = {}
  /\ UNCHANGED <<dm, vm, unbooted>>
  /\ \/ UNCHANGED <<created, config>>
     \/ "shutdown" \in Failures /\ created' = TRUE /\ config' = s.config
VmRestore ==
  /\ ~created
  /\ \E s \in snap :
       \/ RestoreFails(s)
       \/ /\ DmRestore(s) /\ held' = s.config \cap Disks
          /\ created' = TRUE /\ config' = s.config
          /\ vm' \in {"Paused", "Running"}
          /\ unbooted' = s.unbooted
  /\ snap' = {}

(* The VM is taken out of the VMM before it is shut down: it is gone even  *)
(* when that fails.  The configuration stays.                              *)
VmShutdown ==
  /\ vm # "None"
  /\ DropVm
  /\ UNCHANGED <<created, config, snap>>

VmDelete ==
  /\ created
  /\ DropVm
  /\ \/ created' = FALSE /\ config' = {}
     \/ vm # "None" /\ "shutdown" \in Failures /\ UNCHANGED <<created, config>>
  /\ UNCHANGED snap

(* The VM is shut down and dropped, and a new one made from its            *)
(* configuration.                                                          *)
VmReboot ==
  /\ vm # "None"
  /\ DmNew(config) /\ held' = config \cap Disks /\ known' = config
  /\ vm' = "Running" /\ unbooted' = FALSE
  /\ UNCHANGED <<created, config, snap>>
RebootFails ==
  /\ vm # "None"
  /\ DropVm
  /\ NewFails \/ (Failures \ {"new"} # {} /\ UNCHANGED config)
  /\ UNCHANGED <<created, snap>>

-----------------------------------------------------------------------------
(* Requests on devices change the configuration when there is no VM.  The  *)
(* configuration with the new device is validated first: identifiers are   *)
(* unique.                                                                 *)
AddToConfig(d)      == config' = config \cup {d}
RemoveFromConfig(d) == config' = config \ {d}

VmAddDevice(d) ==
  /\ created /\ d \notin config
  /\ \/ vm = "None" /\ AddToConfig(d) /\ UNCHANGED dm
     \/ vm # "None" /\ HotplugDevice(d) /\ AddToConfig(d)
     \/ vm # "None" /\ HotplugFails(d) /\ UNCHANGED config
  /\ UNCHANGED <<created, vm, snap, unbooted>>

(* A device whose removal was accepted can be removed again, and so can    *)
(* any by its virtio-pci node, which the configuration does not know.      *)
VmRemoveDevice(d) ==
  /\ \/ created /\ vm = "None" /\ d \in config /\ RemoveFromConfig(d) /\ UNCHANGED dm
     \/ vm # "None" /\ d \in config /\ RemoveFromTree(d) /\ RemoveFromConfig(d) /\ UNCHANGED stray
     \/ /\ vm # "None" /\ MayFail
        /\ (d \in Disks \ config /\ RemoveFromTree(d)) \/ RemoveByNode(d)
        /\ stray' = stray \cup {bdf[d]}
        /\ UNCHANGED config
     \/ vm # "None" /\ RemoveFails(d) /\ UNCHANGED config
  /\ UNCHANGED <<created, vm, snap, unbooted>>

(* A network device is looked up in the configuration by the identifier of *)
(* the request: the VMM panics when that is the one of the virtio-pci      *)
(* node, or when the removal of the device was already accepted.           *)
RemoveNetPanics(d) == vm # "None" /\ d \in Nets \cap live /\ Ends

-----------------------------------------------------------------------------
(* vmm_shutdown.  The events Reset, GuestExit and Exit reboot the VM, shut *)
(* it down or end the process, and may come from a VM that is gone: then,  *)
(* and when what they ask for fails, the control loop ends too.            *)
VmmShutdown == Ends

GuestRuns == vm = "Running" /\ ~unbooted
Guest(step) ==
  /\ GuestRuns /\ step
  /\ UNCHANGED <<created, config, vm, snap, unbooted>>

(* A restore depends on the snapshot alone.  So once one is written the    *)
(* model follows the end of the VM and the restore (bound), and not the    *)
(* VM beside its snapshot.                                                 *)
Next ==
  \/ VmShutdown \/ VmDelete \/ VmmShutdown \/ VmRestore
  \/ /\ snap = {}
     /\ \/ VmCreate \/ VmBootNew \/ VmBootAgain \/ VmPause \/ VmResume \/ VmSnapshot
        \/ VmReboot \/ RebootFails \/ Guest(GuestStep)
        \/ \E d \in Devices : VmAddDevice(d) \/ VmRemoveDevice(d) \/ RemoveNetPanics(d)

Spec == Init /\ [][Next]_vars

(* A running guest serves its notifications and ejects what it was asked   *)
(* to.  One whose vCPUs a failed pause left parked does not run, whatever  *)
(* VmState says (VcpuThreads, Migration), and is not fair.                 *)
FairSpec ==
  /\ Spec
  /\ WF_vars(Guest(ReadUp)) /\ WF_vars(Guest(ReadDown))
  /\ \A s \in Slots : WF_vars(Guest(EjectDevice(s)))

-----------------------------------------------------------------------------
(* What the configuration lists is on the buses of the VM: a VM made from  *)
(* it again has what this one has.  Excepted is a device that was ejected  *)
(* from a stray slot, one with a notice that did not come from its own     *)
(* removal by its identifier, or from a leftover one; every other device   *)
(* of the VM stays.                                                        *)
ConfigLive == vm # "None" => config \subseteq live \cup odd

(* No two devices of the tree share a slot, and the bus knows exactly the  *)
(* slots in use: eject_device takes away the device that was meant, and a  *)
(* slot leaks only when an add fails after it was allocated.  Excepted are *)
(* the slots of nodes restored from a snapshot that was taken between the  *)
(* removal of a device and its ejection.  A device whose ejection failed   *)
(* has no node, and its slot is free although it is still on the buses.    *)
SlotsExclusive ==
  /\ \A d, e \in live : d # e /\ bdf[d] = bdf[e] => bdf[d] \in leftover
  /\ device_ids \ leftover = (SlotsOf(live) \cup leaked) \ leftover

(* While a guest runs the image of every configured disk is locked, and    *)
(* the image of no disk that left is, except of one that was half added or *)
(* half removed: its add or its ejection failed, or the ejection came from *)
(* a stray notice, and block_devices still refers to it.                   *)
ImagesLocked ==
  /\ GuestRuns => config \cap Disks \subseteq held
  /\ held \subseteq live \cup odd

(* No change is forgotten between the VMM and the guest: a device the      *)
(* guest has not enumerated is announced in PCIU, one whose removal was    *)
(* accepted in PCID or already to the guest, and a notification is on its  *)
(* way as long as a bit is set.  Excepted are the devices that a restored  *)
(* guest had not seen, and the leftover slots, from which the notice may   *)
(* have taken the other node.                                              *)
ChangesAnnounced ==
  GuestRuns =>
    /\ \A d \in live : d \in known \cup unseen \/ bdf[d] \in up
    /\ \A d \in live \ config : bdf[d] \in down \cup asked \cup leftover
    /\ up # {} => ged
    /\ down # {} => ged \/ gpc = "down"

(* A device whose removal was accepted leaves its slot, as long as the     *)
(* guest runs, unless the slot is a leftover one.                          *)
Leaving(s) == \E d \in live \ config : bdf[d] = s
RemovalCompletes ==
  \A s \in Slots : Leaving(s) ~> (~Leaving(s) \/ ~GuestRuns \/ s \in leftover)
=============================================================================
