--------------------------- MODULE DeviceHotplug ---------------------------
(***************************************************************************)
(* The DeviceManager of a VM, vmm/src/device_manager.rs, as hot plug sees  *)
(* it: the device tree, the slots of the PCI bus, the bitmaps PCIU and     *)
(* PCID through which the guest learns of devices that come and go, and    *)
(* the locks of the disk images.  A device is known by its identifier.  A  *)
(* virtio device has a node in the tree and a virtio-pci node above it,    *)
(* which holds the slot and the handle of the device.                      *)
(***************************************************************************)
EXTENDS Integers, FiniteSets

CONSTANTS
  Disks, Nets,
  NSlots,         (* the slots of the bus: NUM_DEVICE_IDS, less the root   *)
  Failures,       (* what can fail: a subset of AllFailures                *)
  MaxMishaps      (* bound: failed adds and ejections, and removals by     *)
                  (* another identifier or again, that affect a VM at once *)

AllFailures == {"new", "lock", "boot", "shutdown", "hotplug", "eject"}

ASSUME HotplugConstants ==
  /\ NSlots \in Nat \ {0}
  /\ Disks \cap Nets = {}
  /\ IsFiniteSet(Disks) /\ IsFiniteSet(Nets)
  /\ Failures \subseteq AllFailures /\ MaxMishaps \in Nat

VARIABLES
  tree,       (* devices with a node in device_tree                        *)
  bdf,        (* the slot in the device's virtio-pci node; 0: no such node *)
  live,       (* devices whose virtio-pci node has its handle: they are on *)
              (* the buses, and only one whose ejection failed is besides  *)
  device_ids, (* the slots that are allocated                              *)
  up,         (* pci_devices_up                                            *)
  down,       (* pci_devices_down                                          *)
  block_devices,
  held,       (* disks whose image is locked                               *)
  ged,        (* an ACPI notification waits for the guest                  *)
  gpc,        (* the guest's handler: "idle" or between its two reads      *)
  known,      (* devices the guest has enumerated                          *)
  asked,      (* slots the guest was asked to eject                        *)
  (* History, for the properties.                                          *)
  stray,      (* slots with a notice to eject that is not the one removal  *)
              (* of the device by its identifier: it was removed again, or *)
              (* by its virtio-pci node, or the notice was restored        *)
  leftover,   (* slots of restored nodes whose device was on its way out   *)
  leaked,     (* slots allocated by an add that failed                     *)
  odd,        (* devices half added or half removed: the add failed, the   *)
              (* ejection failed, or the slot was stray or leftover        *)
  unseen      (* restored devices the restored guest had not enumerated    *)

guest   == <<ged, gpc, known, asked>>
history == <<stray, leftover, leaked, odd, unseen>>
dm      == <<tree, bdf, live, device_ids, up, down, block_devices, held, guest, history>>

Devices == Disks \cup Nets
Slots   == 1 .. NSlots

DmTypeOK ==
  /\ \A s \in {tree, live, known, odd, unseen} : s \subseteq Devices
  /\ \A s \in {block_devices, held} : s \subseteq Disks
  /\ \A s \in {device_ids, up, down, asked, stray, leftover, leaked} : s \subseteq Slots
  /\ bdf \in [Devices -> 0 .. NSlots]
  /\ ged \in BOOLEAN /\ gpc \in {"idle", "down"}

NoSlots == [d \in Devices |-> 0]

(* No VM: nothing is left of the device manager, nor of the guest. *)
DmInit ==
  /\ tree = {} /\ live = {} /\ device_ids = {} /\ up = {} /\ down = {}
  /\ block_devices = {} /\ held = {} /\ known = {} /\ asked = {}
  /\ bdf = NoSlots /\ ged = FALSE /\ gpc = "idle"
  /\ stray = {} /\ leftover = {} /\ leaked = {} /\ odd = {} /\ unseen = {}
NoHistory == stray' = {} /\ leftover' = {} /\ leaked' = {} /\ odd' = {} /\ unseen' = {}
DmDrop ==
  /\ tree' = {} /\ live' = {} /\ device_ids' = {} /\ up' = {} /\ down' = {}
  /\ block_devices' = {} /\ held' = {} /\ known' = {} /\ asked' = {}
  /\ bdf' = NoSlots /\ ged' = FALSE /\ gpc' = "idle"
  /\ NoHistory

SlotsOf(s) == {bdf[d] : d \in s}

MayFail == Cardinality(stray) + Cardinality(leftover) + Cardinality(leaked) + Cardinality(odd) < MaxMishaps

-----------------------------------------------------------------------------
(* Devices of a new VM: create_devices, in the order of the configuration. *)
Placements == [c \in SUBSET Devices |->
  {f \in [Devices -> 0 .. NSlots] :
     /\ \A d \in Devices : f[d] # 0 <=> d \in c
     /\ {f[d] : d \in c} = 1 .. Cardinality(c)}]

DmNew(c) ==
  /\ tree' = c /\ live' = c
  /\ bdf' \in Placements[c]
  /\ device_ids' = 1 .. Cardinality(c)
  /\ up' = {} /\ down' = {}
  /\ block_devices' = c \cap Disks
  /\ ged' = FALSE /\ gpc' = "idle" /\ asked' = {}
  /\ NoHistory

(* Of a restored VM: the tree is that of the snapshot s, a device of the   *)
(* configuration takes the slot of its node, or a free one without a node. *)
(* The bitmaps and the notification are not in the snapshot; the guest's   *)
(* memory is.                                                              *)
RestoredSlots(s) ==
  {f \in [Devices -> 0 .. NSlots] :
     /\ \A d \in Devices : s.bdf[d] # 0 \/ d \notin s.config => f[d] = s.bdf[d]
     /\ \A d \in s.config : f[d] # 0
     /\ \A d, e \in s.config : d # e => f[d] # f[e]}

DmRestore(s) ==
  /\ tree' = s.tree \cup s.config /\ live' = s.config
  /\ bdf' \in RestoredSlots(s)
  /\ device_ids' = {bdf'[d] : d \in s.config}
  /\ up' = {} /\ down' = {}
  /\ block_devices' = s.config \cap Disks
  /\ ged' = FALSE /\ gpc' = s.gpc /\ known' = s.known /\ asked' = s.asked
  /\ stray' = s.asked
  /\ leftover' = {s.bdf[d] : d \in s.tree \ s.config} \ {0}
  /\ leaked' = {} /\ odd' = {} /\ unseen' = s.config \ s.known

-----------------------------------------------------------------------------
(* add_disk, add_net: the image of a hot-plugged disk is locked at once,   *)
(* which an object that still has the image open prevents.                 *)
FreeSlots == Slots \ device_ids
FirstFree == CHOOSE s \in FreeSlots : \A t \in FreeSlots : s <= t
AddNode(d) ==
  /\ d \notin tree \cup held
  /\ tree' = tree \cup {d}
  /\ block_devices' = block_devices \cup ({d} \cap Disks)
  /\ held' = held \cup ({d} \cap Disks)
HotplugDevice(d) ==
  /\ AddNode(d) /\ FreeSlots # {}
  /\ bdf' = [bdf EXCEPT ![d] = FirstFree]
  /\ device_ids' = device_ids \cup {FirstFree}
  /\ live' = live \cup {d}
  /\ up' = up \cup {FirstFree}
  /\ ged' = TRUE
  /\ odd' = odd \ {d} /\ unseen' = unseen \ {d}
  /\ UNCHANGED <<down, gpc, known, asked, stray, leftover, leaked>>

(* add_virtio_pci_device fails without a free slot, or later: while the    *)
(* virtio-pci device is made, put on the bus or given its events.  What    *)
(* was made before stays, the slot included.                               *)
HotplugFails(d) ==
  /\ AddNode(d)
  /\ \/ FreeSlots = {} /\ UNCHANGED <<device_ids, leaked>>
     \/ /\ FreeSlots # {} /\ "hotplug" \in Failures /\ MayFail
        /\ device_ids' = device_ids \cup {FirstFree}
        /\ leaked' = leaked \cup {FirstFree}
  /\ odd' = odd \cup {d}
  /\ UNCHANGED <<bdf, live, up, down, guest, stray, leftover, unseen>>

(* A remove_device that keeps its reference to the disk. *)
RemoveKeepsDisk(d) ==
  /\ d \in tree /\ d \in live
  /\ down' = down \cup {bdf[d]}
  /\ ged' = TRUE
  /\ UNCHANGED <<tree, bdf, live, device_ids, up, block_devices, held, gpc, known, asked>>
  /\ UNCHANGED <<leftover, leaked, odd, unseen>>

(* remove_device: block_devices forgets a disk before anything can fail,   *)
(* then the virtio-pci node and its handle are needed.                     *)
RemoveFromTree(d) ==
  /\ d \in tree /\ d \in live
  /\ block_devices' = block_devices \ {d}
  /\ down' = down \cup {bdf[d]}
  /\ ged' = TRUE
  /\ UNCHANGED <<tree, bdf, live, device_ids, up, held, gpc, known, asked>>
  /\ UNCHANGED <<leftover, leaked, odd, unseen>>
(* With the identifier of the virtio-pci node block_devices has no match.  *)
RemoveByNode(d) ==
  /\ d \in Disks /\ d \in live
  /\ down' = down \cup {bdf[d]}
  /\ ged' = TRUE
  /\ UNCHANGED <<tree, bdf, live, device_ids, up, block_devices, held, gpc, known, asked>>
  /\ UNCHANGED <<leftover, leaked, odd, unseen>>
RemoveFails(d) ==
  /\ d \in tree \ live
  /\ block_devices' = block_devices \ {d}
  /\ UNCHANGED <<tree, bdf, live, device_ids, up, down, held, guest, history>>

-----------------------------------------------------------------------------
(* The guest runs PCNT, which reads PCIU, then PCID; each read clears.     *)
ReadUp ==
  /\ ged /\ gpc = "idle"
  /\ ged' = FALSE /\ gpc' = "down"
  /\ known' = known \cup {d \in live : bdf[d] \in up}
  /\ up' = {}
  /\ UNCHANGED <<tree, bdf, live, device_ids, down, block_devices, held, asked, history>>

(* A handler that acknowledges the notification after it has read both. *)
ReadDownAcknowledges ==
  /\ gpc = "down"
  /\ gpc' = "idle" /\ ged' = FALSE
  /\ asked' = asked \cup down
  /\ down' = {}
  /\ UNCHANGED <<tree, bdf, live, device_ids, up, block_devices, held, known, history>>

ReadDown ==
  /\ gpc = "down"
  /\ gpc' = "idle"
  /\ asked' = asked \cup down
  /\ down' = {}
  /\ UNCHANGED <<tree, bdf, live, device_ids, up, block_devices, held, ged, known, history>>

(* The virtio-pci node of a device leaves the tree, its own node with it   *)
(* if there is a handle.                                                   *)
TakeOff(d) ==
  /\ bdf' = [bdf EXCEPT ![d] = 0]
  /\ live' = live \ {d} /\ known' = known \ {d}
  /\ tree' = IF d \in live THEN tree \ {d} ELSE tree
(* The image of a disk is closed, and unlocked, when block_devices does    *)
(* not refer to it either.                                                 *)
Release(d) == held' = held \ ({d} \ block_devices)
Ejecting(s) ==
  /\ s \in asked /\ asked' = asked \ {s}
  /\ stray' = IF s \in down THEN stray ELSE stray \ {s}
  /\ leaked' = leaked \ {s}
  /\ UNCHANGED <<up, down, block_devices, ged, gpc, leftover, unseen>>
Odd(d, s) == odd' = IF s \in stray \cup leftover THEN odd \cup {d} ELSE odd

(* An eject_device that does not give the slot back. *)
EjectKeepsSlot(s) ==
  /\ Ejecting(s)
  /\ \E d \in tree : bdf[d] = s /\ TakeOff(d) /\ Release(d) /\ Odd(d, s) /\ UNCHANGED device_ids

(* An eject_device that takes the bit for the slot after its own. *)
EjectNextSlot(s) ==
  /\ Ejecting(s)
  /\ LET t == (s % NSlots) + 1 IN
       /\ device_ids' = device_ids \ {t}
       /\ \E d \in tree : bdf[d] = t /\ TakeOff(d) /\ Release(d) /\ Odd(d, s)

(* A write of the eject register that ignores the last slot. *)
EjectNotLast(s) ==
  /\ Ejecting(s) /\ s < NSlots
  /\ device_ids' = device_ids \ {s}
  /\ \E d \in tree : bdf[d] = s /\ TakeOff(d) /\ Release(d) /\ Odd(d, s)

(* eject_device: the slot is freed, and a node with that slot is removed,  *)
(* whichever comes first.  A node without a handle is an error, and the    *)
(* device's own node stays.  When a later step fails, for instance the     *)
(* unregistering of the device's events, the device stays on the buses     *)
(* without its nodes, and its image is not closed.                         *)
EjectDevice(s) ==
  /\ Ejecting(s)
  /\ device_ids' = device_ids \ {s}
  /\ \/ s \notin SlotsOf(tree) /\ UNCHANGED <<tree, bdf, live, held, known, odd>>
     \/ \E d \in tree :
          /\ bdf[d] = s /\ TakeOff(d)
          /\ \/ Release(d) /\ Odd(d, s)
             \/ /\ "eject" \in Failures /\ MayFail /\ d \in live
                /\ odd' = odd \cup {d} /\ UNCHANGED held

GuestStep == ReadUp \/ ReadDown \/ \E s \in Slots : EjectDevice(s)
=============================================================================
