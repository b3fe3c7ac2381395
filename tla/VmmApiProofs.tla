---------------------------- MODULE VmmApiProofs ----------------------------
(***************************************************************************)
(* The devices of a VM agree with its configuration, with the bus, with    *)
(* the guest and with the locked images, whatever is requested of the VMM  *)
(* and whatever the guest does, for any devices and any number of slots.   *)
(*                                                                         *)
(* The four invariants of VmmApi rest on one another: a notice of removal  *)
(* takes away the device that was meant because slots are exclusive, a     *)
(* configured device stays because every notice names one that was taken   *)
(* out of the configuration, and an image is unlocked with its device      *)
(* because block_devices lists configured disks only.  What a failed or    *)
(* repeated request disturbs is excepted slot by slot and device by device *)
(* (stray, leftover, leaked, odd, unseen), never the VM as a whole.        *)
(***************************************************************************)
EXTENDS VmmApi, FiniteSetTheorems, WellFoundedInduction, TLAPS

(* Zenon settles most steps at once; the others get more than the default. *)
USE ZenonT(3), SMTT(20), ZenonT(20)

LEMMA DevicesFinite == IsFiniteSet(Devices)
BY HotplugConstants, FS_Union DEF Devices

-----------------------------------------------------------------------------
Types ==
  /\ tree \subseteq Devices /\ live \subseteq Devices /\ known \subseteq Devices
  /\ odd \subseteq Devices /\ unseen \subseteq Devices
  /\ block_devices \subseteq Disks /\ held \subseteq Disks
  /\ device_ids \subseteq Slots /\ up \subseteq Slots
  /\ down \subseteq Slots /\ asked \subseteq Slots
  /\ stray \subseteq Slots /\ leftover \subseteq Slots /\ leaked \subseteq Slots
  /\ bdf \in [Devices -> 0 .. NSlots]
  /\ config \subseteq Devices
  /\ ~created => vm = "None"

(* Without a VM nothing is left of one. *)
EmptyInv ==
  vm = "None" =>
    /\ tree = {} /\ live = {} /\ device_ids = {} /\ up = {} /\ down = {}
    /\ block_devices = {} /\ held = {} /\ asked = {} /\ bdf = NoSlots
    /\ leaked = {} /\ odd = {} /\ ~unbooted

(* A slot has one device, and the bus knows of it, except in a leftover    *)
(* slot: there a node without its handle may be, which only a restore can  *)
(* bring.                                                                  *)
SlotInv ==
  /\ live \subseteq tree /\ \A d \in live : bdf[d] # 0
  /\ \A d \in Devices : bdf[d] # 0 => d \in tree
  /\ \A d \in Devices \ live : bdf[d] # 0 => bdf[d] \in leftover
  /\ \A d, e \in live : d # e /\ bdf[d] = bdf[e] => bdf[d] \in leftover
  /\ \A s \in Slots \ leftover : s \in device_ids <=> s \in leaked \/ \E d \in live : bdf[d] = s

(* An accepted removal is announced or asked for. *)
NoticeInv ==
  /\ \A d \in live \ config : bdf[d] \in down \cup asked \cup leftover
  /\ up # {} => ged
  /\ down # {} => ged \/ gpc = "down"

Booted == vm \in {"Running", "Paused"} /\ ~unbooted

KnownInv == Booted => \A d \in live : d \in known \cup unseen \/ bdf[d] \in up

(* A notice that is not stray is of one removal: it is announced or asked  *)
(* for, not both, and names a device that is still there.                  *)
RemovalInv ==
  vm # "None" =>
    /\ config \subseteq live \cup odd
    /\ down \cap asked \subseteq stray \cup leftover
    /\ \A s \in (down \cup asked) \ (stray \cup leftover) : \E d \in live \ config : bdf[d] = s

ImageInv ==
  /\ vm # "None" => config \cap tree \subseteq live /\ config \cap Disks \subseteq block_devices
  /\ Booted => config \cap Disks \subseteq held
  /\ block_devices \subseteq config \cup odd
  /\ held \subseteq live \cup odd
  /\ odd \cap live = {}

(* What a restore relies on: a slot in the snapshot is that of a node. *)
SnapInv ==
  \A s \in snap :
    /\ s.config \subseteq Devices /\ s.tree \subseteq Devices
    /\ s.known \subseteq Devices /\ s.asked \subseteq Slots
    /\ s.bdf \in [Devices -> 0 .. NSlots]
    /\ \A d \in Devices : s.bdf[d] # 0 => d \in s.tree

IInv ==
  /\ Types /\ EmptyInv /\ SlotInv /\ NoticeInv /\ KnownInv /\ RemovalInv /\ ImageInv /\ SnapInv

-----------------------------------------------------------------------------
(* Two facts of arithmetic. *)

LEMMA Least ==
  ASSUME NEW T \in SUBSET Nat, T # {}
  PROVE  \E x \in T : \A y \in T : x <= y
<1>1. PICK R : R = OpToRel(<, Nat)
  BY Zenon
<1>2. \A x, y \in Nat : y < x => <<y, x>> \in R
  BY <1>1 DEF OpToRel
<1>3. IsWellFoundedOn(R, Nat)
  BY <1>1, NatLessThanWellFounded, Zenon
<1>4. \E x \in T : \A y \in T : ~ (<<y, x>> \in R)
  BY <1>3, WFMin
<1>5. ASSUME NEW x \in T, \A y \in T : ~ (<<y, x>> \in R), NEW y \in T
      PROVE  x <= y
  <2>1. x \in Nat /\ y \in Nat
    OBVIOUS
  <2>2. ~ (y < x)
    BY <1>2, <1>5, <2>1, Zenon
  <2> QED BY <2>1, <2>2
<1> QED BY <1>4, <1>5, Zenon

(* The bus finds a free slot when there is one. *)
LEMMA FirstFreeIsFree ==
  ASSUME FreeSlots # {}
  PROVE  FirstFree \in Slots /\ FirstFree \notin device_ids /\ FirstFree # 0
<1>1. FreeSlots \in SUBSET Nat
  BY HotplugConstants DEF FreeSlots, Slots
<1>2. \E s \in FreeSlots : \A t \in FreeSlots : s <= t
  BY <1>1, Least
<1>3. FirstFree \in FreeSlots
  BY <1>2 DEF FirstFree
<1> QED BY <1>3, HotplugConstants DEF FreeSlots, Slots

(* create_devices gives the devices different slots: as many slots as      *)
(* devices are handed out.                                                 *)
LEMMA PlacementsPlace ==
  ASSUME NEW c \in SUBSET Devices, NEW f \in Placements[c]
  PROVE  /\ f \in [Devices -> 0 .. NSlots]
         /\ \A d \in Devices : f[d] # 0 <=> d \in c
         /\ \A d, e \in c : d # e => f[d] # f[e]
         /\ {f[d] : d \in c} = 1 .. Cardinality(c)
         /\ 1 .. Cardinality(c) \subseteq Slots
<1>1. /\ f \in [Devices -> 0 .. NSlots]
      /\ \A d \in Devices : f[d] # 0 <=> d \in c
      /\ {f[d] : d \in c} = 1 .. Cardinality(c)
  BY DEF Placements
<1>2. IsFiniteSet(c) /\ Cardinality(c) \in Nat
  BY DevicesFinite, FS_Subset, FS_CardinalityType
<1>3. PICK n \in Nat : n = Cardinality(c)
  BY <1>2
<1>4. Cardinality(1 .. n) = n
  BY FS_Interval
<1> DEFINE g == [d \in c |-> f[d]]
<1>5. g \in [c -> 1 .. n]
  BY <1>1, <1>3
<1>6. \A s \in 1 .. n : \E d \in c : g[d] = s
  BY <1>1, <1>3
<1>7. g \in Surjection(c, 1 .. n)
  BY <1>5, <1>6 DEF Surjection
<1>8. g \in Injection(c, 1 .. n)
  <2> HIDE DEF g
  <2> QED BY <1>2, <1>3, <1>4, <1>7, FS_SurjSameCardinalityImpliesInj
<1>9. \A d, e \in c : d # e => f[d] # f[e]
  BY <1>8 DEF Injection, IsInjective
<1>10. 1 .. Cardinality(c) \subseteq Slots
  BY <1>1, HotplugConstants DEF Slots
<1> QED BY <1>1, <1>9, <1>10

-----------------------------------------------------------------------------
(* Steps without a VM, and the steps that drop or make one. *)

LEMMA IdleStep ==
  ASSUME IInv, vm = "None", UNCHANGED <<dm, vm, unbooted>>,
         config' \subseteq Devices, snap' \subseteq snap
  PROVE  IInv'
<1> USE DEF IInv, dm, guest, history
<1>1. Types' BY DEF Types
<1>2. EmptyInv' BY DEF EmptyInv
<1>3. SlotInv' BY DEF SlotInv
<1>4. NoticeInv' /\ KnownInv' BY DEF EmptyInv, NoticeInv, KnownInv, Booted
<1>5. RemovalInv' BY DEF RemovalInv
<1>6. ImageInv' BY DEF EmptyInv, ImageInv, Booted
<1>7. SnapInv' BY DEF SnapInv
<1> QED BY <1>1, <1>2, <1>3, <1>4, <1>5, <1>6, <1>7

LEMMA DropStep ==
  ASSUME IInv, DropVm, config' \subseteq Devices, snap' \subseteq snap
  PROVE  IInv'
<1> USE DEF IInv, DropVm, DmDrop, NoSlots, NoHistory
<1>1. Types' BY HotplugConstants DEF Types
<1>2. EmptyInv' BY DEF EmptyInv
<1>3. SlotInv' BY DEF SlotInv
<1>4. NoticeInv' /\ KnownInv' BY DEF NoticeInv, KnownInv, Booted
<1>5. RemovalInv' BY DEF RemovalInv
<1>6. ImageInv' BY DEF ImageInv, Booted
<1>7. SnapInv' BY DEF SnapInv
<1> QED BY <1>1, <1>2, <1>3, <1>4, <1>5, <1>6, <1>7

LEMMA NewStep ==
  ASSUME IInv, created', DmNew(config), ~unbooted', vm' \in {"Created", "Running"},
         held' \subseteq config \cap Disks, known' \subseteq Devices,
         vm' = "Running" => held' = config \cap Disks /\ known' = config,
         UNCHANGED <<config, snap>>
  PROVE  IInv'
<1> USE DEF IInv
<1>0. /\ bdf' \in [Devices -> 0 .. NSlots]
      /\ \A d \in Devices : bdf'[d] # 0 <=> d \in config
      /\ \A d, e \in config : d # e => bdf'[d] # bdf'[e]
      /\ {bdf'[d] : d \in config} = 1 .. Cardinality(config)
      /\ 1 .. Cardinality(config) \subseteq Slots
  BY PlacementsPlace DEF DmNew, Types
<1>1. Types' BY <1>0 DEF Types, DmNew, NoHistory
<1>2. EmptyInv' BY DEF EmptyInv
<1>3. SlotInv' BY <1>0 DEF SlotInv, DmNew, NoHistory
<1>4. NoticeInv' /\ KnownInv' BY DEF NoticeInv, KnownInv, Booted, DmNew
<1>5. RemovalInv' BY DEF RemovalInv, DmNew, NoHistory
<1>6. ImageInv' BY DEF ImageInv, Booted, DmNew, NoHistory
<1>7. SnapInv' BY DEF SnapInv
<1> QED BY <1>1, <1>2, <1>3, <1>4, <1>5, <1>6, <1>7
-----------------------------------------------------------------------------
(* Steps of the VM that leave its devices alone. *)

LEMMA BootAgainStep ==
  ASSUME IInv, VmBootAgain
  PROVE  IInv'
<1> USE DEF IInv
<1>1. /\ held \subseteq held' /\ held' \subseteq held \cup block_devices
      /\ \/ vm' = "Created" /\ known' = known
         \/ vm' = "Running" /\ known' = live /\ held' = held \cup block_devices
  BY DEF VmBootAgain, BootFails, TryLockDisks
<1>2. /\ UNCHANGED <<tree, bdf, live, device_ids, up, down, block_devices, ged, gpc, asked>>
      /\ UNCHANGED <<stray, leftover, leaked, odd, unseen>>
      /\ UNCHANGED <<created, config, snap, unbooted>> /\ vm = "Created"
  BY DEF VmBootAgain, history
<1>3. Types' BY <1>1, <1>2 DEF Types
<1>4. EmptyInv' BY <1>1 DEF EmptyInv
<1>5. SlotInv' BY <1>2 DEF SlotInv
<1>6. NoticeInv' /\ KnownInv' BY <1>1, <1>2 DEF NoticeInv, KnownInv, Booted
<1>7. RemovalInv' BY <1>1, <1>2 DEF RemovalInv
<1>8. ImageInv'
  <2>1. (vm # "None" => config \cap tree \subseteq live /\ config \cap Disks \subseteq block_devices)'
    BY <1>2 DEF ImageInv
  <2>2. (Booted => config \cap Disks \subseteq held)'
    BY <1>1, <1>2 DEF ImageInv, Booted
  <2>3. held' \subseteq live \cup odd
    BY <1>1, <1>2 DEF ImageInv, RemovalInv
  <2> QED BY <1>2, <2>1, <2>2, <2>3 DEF ImageInv
<1>9. SnapInv' BY <1>2 DEF SnapInv
<1> QED BY <1>3, <1>4, <1>5, <1>6, <1>7, <1>8, <1>9

LEMMA PauseStep ==
  ASSUME IInv, vm \in {"Created", "Running", "Paused"}, vm' \in {"Paused", "Running"}, Mark,
         UNCHANGED <<dm, created, config, snap>>
  PROVE  IInv'
<1> USE DEF IInv, dm, guest, history
<1>1. Booted' => Booted
  BY DEF Mark, Booted
<1>3. Types' BY DEF Types
<1>4. EmptyInv' BY DEF EmptyInv
<1>5. SlotInv' BY DEF SlotInv
<1>6. NoticeInv' /\ KnownInv' BY <1>1 DEF NoticeInv, KnownInv
<1>7. RemovalInv' BY DEF RemovalInv
<1>8. ImageInv' BY <1>1 DEF ImageInv
<1>9. SnapInv' BY DEF SnapInv
<1> QED BY <1>3, <1>4, <1>5, <1>6, <1>7, <1>8, <1>9

LEMMA SnapshotStep ==
  ASSUME IInv, VmSnapshot
  PROVE  IInv'
<1> USE DEF IInv, dm, guest, history
<1> DEFINE s == [config |-> config, tree |-> tree, bdf |-> bdf, gpc |-> gpc,
                 known |-> known, asked |-> asked, unbooted |-> unbooted]
<1>1. /\ vm = "Paused" /\ snap' = {s}
      /\ UNCHANGED <<dm, created, config, vm, unbooted>>
  BY DEF VmSnapshot
<1>2. /\ s.config = config /\ s.tree = tree /\ s.bdf = bdf /\ s.known = known
      /\ s.asked = asked
  OBVIOUS
<1> HIDE DEF s
<1>4. SnapInv' BY <1>1, <1>2 DEF SnapInv, Types, SlotInv
<1>5. Types' BY <1>1 DEF Types
<1>6. EmptyInv' BY <1>1 DEF EmptyInv
<1>7. SlotInv' BY <1>1 DEF SlotInv
<1>8. NoticeInv' /\ KnownInv' BY <1>1 DEF NoticeInv, KnownInv, Booted
<1>9. RemovalInv' BY <1>1 DEF RemovalInv
<1>10. ImageInv' BY <1>1 DEF ImageInv, Booted
<1> QED BY <1>4, <1>5, <1>6, <1>7, <1>8, <1>9, <1>10

(* A restored device has a slot of its own among the configured ones.  The *)
(* nodes of the others, and what the guest was asked, are left over.       *)
LEMMA RestoreStep ==
  ASSUME IInv, NEW s \in snap, DmRestore(s), held' = s.config \cap Disks,
         created', config' = s.config, vm' \in {"Paused", "Running"},
         unbooted' = s.unbooted, snap' = {}
  PROVE  IInv'
<1> USE DEF IInv
<1>1. /\ bdf' \in [Devices -> 0 .. NSlots]
      /\ \A d \in Devices : s.bdf[d] # 0 \/ d \notin s.config => bdf'[d] = s.bdf[d]
      /\ \A d \in s.config : bdf'[d] # 0
      /\ \A d, e \in s.config : d # e => bdf'[d] # bdf'[e]
  BY DEF DmRestore, RestoredSlots
<1>2. /\ s.config \subseteq Devices /\ s.tree \subseteq Devices
      /\ s.known \subseteq Devices /\ s.asked \subseteq Slots
      /\ s.bdf \in [Devices -> 0 .. NSlots]
      /\ \A d \in Devices : s.bdf[d] # 0 => d \in s.tree
  BY DEF SnapInv
<1>3. /\ tree' = s.tree \cup s.config /\ live' = s.config
      /\ device_ids' = {bdf'[d] : d \in s.config}
      /\ up' = {} /\ down' = {} /\ block_devices' = s.config \cap Disks
      /\ known' = s.known /\ asked' = s.asked
      /\ stray' = s.asked /\ leaked' = {} /\ odd' = {} /\ unseen' = s.config \ s.known
  BY DEF DmRestore
<1>4. leftover' = {s.bdf[d] : d \in s.tree \ s.config} \ {0}
  BY DEF DmRestore
<1>5. Types'
  <2>1. device_ids' \subseteq Slots
    BY <1>1, <1>2, <1>3, HotplugConstants DEF Slots
  <2>2. leftover' \subseteq Slots
    BY <1>2, <1>4, HotplugConstants DEF Slots
  <2> QED BY <1>1, <1>2, <1>3, <2>1, <2>2 DEF Types
<1>6. EmptyInv' BY DEF EmptyInv
<1>7. SlotInv'
  <2>1. ASSUME NEW d \in Devices \ s.config, bdf'[d] # 0
        PROVE  d \in s.tree /\ bdf'[d] \in leftover'
    BY <1>1, <1>2, <1>4, <2>1
  <2> QED BY <1>1, <1>2, <1>3, <2>1 DEF SlotInv
<1>8. NoticeInv' /\ KnownInv' BY <1>3 DEF NoticeInv, KnownInv
<1>9. RemovalInv' BY <1>3 DEF RemovalInv
<1>10. ImageInv' BY <1>3 DEF ImageInv
<1>11. SnapInv' BY DEF SnapInv
<1> QED BY <1>5, <1>6, <1>7, <1>8, <1>9, <1>10, <1>11
-----------------------------------------------------------------------------
(* Hot plug.  A new device has a slot of its own, which is announced.      *)

LEMMA HotplugStep ==
  ASSUME IInv, NEW d \in Devices, vm # "None", d \notin config,
         HotplugDevice(d), config' = config \cup {d},
         UNCHANGED <<created, vm, snap, unbooted>>
  PROVE  IInv'
<1> USE DEF IInv
<1>1. PICK n \in Slots : n = FirstFree /\ n \notin device_ids /\ n # 0
  BY FirstFreeIsFree DEF HotplugDevice
<1>2. /\ d \notin tree
      /\ tree' = tree \cup {d} /\ live' = live \cup {d} /\ known' = known
      /\ block_devices' = block_devices \cup ({d} \cap Disks)
      /\ held' = held \cup ({d} \cap Disks)
      /\ device_ids' = device_ids \cup {n} /\ up' = up \cup {n}
      /\ down' = down /\ asked' = asked /\ ged' = TRUE
      /\ odd' = odd \ {d} /\ unseen' = unseen \ {d}
      /\ UNCHANGED <<stray, leftover, leaked>>
  BY <1>1 DEF HotplugDevice, AddNode
<1>3. /\ bdf' \in [Devices -> 0 .. NSlots] /\ bdf'[d] = n
      /\ \A e \in Devices : e # d => bdf'[e] = bdf[e]
  BY <1>1, HotplugConstants DEF HotplugDevice, Types, Slots
<1>4. d \notin live /\ live \subseteq Devices /\ config \subseteq Devices
  BY <1>2 DEF SlotInv, Types
<1>5. \A e \in live : bdf'[e] = bdf[e]
  BY <1>3, <1>4
<1>6. Types' BY <1>1, <1>2, <1>3 DEF Types
<1>7. EmptyInv' BY DEF EmptyInv
<1>8. SlotInv'
  <2>1. (live \subseteq tree /\ \A e \in live : bdf[e] # 0)'
    BY <1>1, <1>2, <1>3, <1>5 DEF SlotInv
  <2>2. /\ \A e \in Devices : bdf'[e] # 0 => e \in tree'
        /\ \A e \in Devices \ live' : bdf'[e] # 0 => bdf'[e] \in leftover
    BY <1>2, <1>3 DEF SlotInv
  <2>3. n \notin leftover => \A e \in live : bdf[e] # n
    BY <1>1 DEF SlotInv
  <2>4. \A e, f \in live' : e # f /\ bdf'[e] = bdf'[f] => bdf'[e] \in leftover
    BY <1>2, <1>3, <1>5, <2>3 DEF SlotInv
  <2>5. \A t \in Slots \ leftover : t \in device_ids' <=> t \in leaked \/ \E e \in live' : bdf'[e] = t
    <3> SUFFICES ASSUME NEW t \in Slots \ leftover
        PROVE  t \in device_ids' <=> t \in leaked \/ \E e \in live' : bdf'[e] = t
      OBVIOUS
    <3>1. t \in device_ids <=> t \in leaked \/ \E e \in live : bdf[e] = t
      BY DEF SlotInv
    <3>2. (\E e \in live' : bdf'[e] = t) <=> (t = n \/ \E e \in live : bdf[e] = t)
      BY <1>2, <1>3, <1>5
    <3> QED BY <1>2, <3>1, <3>2
  <2> QED BY <1>2, <2>1, <2>2, <2>4, <2>5 DEF SlotInv
<1>9. NoticeInv' BY <1>2, <1>4, <1>5 DEF NoticeInv
<1>10. KnownInv' BY <1>2, <1>3, <1>5 DEF KnownInv, Booted
<1>11. RemovalInv'
  <2>1. config' \subseteq live' \cup odd' /\ down' \cap asked' \subseteq stray' \cup leftover'
    BY <1>2 DEF RemovalInv
  <2>2. ASSUME NEW t \in (down \cup asked) \ (stray \cup leftover)
        PROVE  \E e \in live' \ config' : bdf'[e] = t
    <3>1. PICK e \in live \ config : bdf[e] = t
      BY DEF RemovalInv
    <3> QED BY <1>2, <1>4, <1>5, <3>1
  <2> QED BY <1>2, <2>1, <2>2 DEF RemovalInv
<1>12. ImageInv' BY <1>2, <1>4 DEF ImageInv, Booted
<1>13. SnapInv' BY DEF SnapInv
<1> QED BY <1>6, <1>7, <1>8, <1>9, <1>10, <1>11, <1>12, <1>13

(* An add that fails leaves the device half made, and may leak a slot. *)
LEMMA HotplugFailsStep ==
  ASSUME IInv, NEW d \in Devices, vm # "None", d \notin config,
         HotplugFails(d), UNCHANGED <<created, config, vm, snap, unbooted>>
  PROVE  IInv'
<1> USE DEF IInv
<1>1. /\ d \notin tree
      /\ tree' = tree \cup {d}
      /\ block_devices' = block_devices \cup ({d} \cap Disks)
      /\ held' = held \cup ({d} \cap Disks)
      /\ odd' = odd \cup {d}
      /\ UNCHANGED <<bdf, live, up, down, ged, gpc, known, asked, stray, leftover, unseen>>
  BY DEF HotplugFails, AddNode, guest
<1>2. PICK L \in SUBSET Slots : device_ids' = device_ids \cup L /\ leaked' = leaked \cup L
  <2>1. CASE FreeSlots = {}
    BY <2>1, {} \in SUBSET Slots DEF HotplugFails
  <2>2. CASE FreeSlots # {}
    BY <2>2, FirstFreeIsFree DEF HotplugFails
  <2> QED BY <2>1, <2>2
<1>3. d \notin live
  BY <1>1 DEF SlotInv
<1>4. Types' BY <1>1, <1>2 DEF Types
<1>5. EmptyInv' BY DEF EmptyInv
<1>6. SlotInv' BY <1>1, <1>2 DEF SlotInv
<1>7. NoticeInv' /\ KnownInv' BY <1>1 DEF NoticeInv, KnownInv, Booted
<1>8. RemovalInv' BY <1>1 DEF RemovalInv
<1>9. ImageInv' BY <1>1, <1>3 DEF ImageInv, Booted
<1>10. SnapInv' BY DEF SnapInv
<1> QED BY <1>4, <1>5, <1>6, <1>7, <1>8, <1>9, <1>10

(* Hot unplug, up to its notice to the guest: by the identifier of a       *)
(* configured device, or again, or by the virtio-pci node.                 *)
LEMMA RemoveStep ==
  ASSUME IInv, NEW d \in Devices, vm # "None", d \in live,
         down' = down \cup {bdf[d]}, ged' = TRUE,
         \/ d \in config /\ config' = config \ {d} /\ block_devices' = block_devices \ {d} /\ stray' = stray
         \/ /\ config' = config /\ stray' = stray \cup {bdf[d]}
            /\ block_devices' = block_devices \/ (d \notin config /\ block_devices' = block_devices \ {d}),
         UNCHANGED <<tree, bdf, live, device_ids, up, held, gpc, known, asked>>,
         UNCHANGED <<leftover, leaked, odd, unseen, created, vm, snap, unbooted>>
  PROVE  IInv'
<1> USE DEF IInv
<1>1. bdf[d] \in Slots
  BY HotplugConstants DEF Types, SlotInv, Slots
<1>2. Types' BY <1>1 DEF Types
<1>3. EmptyInv' BY DEF EmptyInv
<1>4. SlotInv' BY DEF SlotInv
<1>5. NoticeInv' BY DEF NoticeInv
<1>6. KnownInv' BY DEF KnownInv, Booted
<1>7. RemovalInv'
  <2>1. CASE d \in config /\ config' = config \ {d} /\ stray' = stray
    <3>1. bdf[d] \in asked => bdf[d] \in stray \cup leftover
      BY <2>1 DEF RemovalInv, SlotInv
    <3>2. down' \cap asked \subseteq stray \cup leftover
      BY <3>1 DEF RemovalInv
    <3>3. ASSUME NEW t \in (down' \cup asked) \ (stray \cup leftover)
          PROVE  \E e \in live \ config' : bdf[e] = t
      BY <2>1 DEF RemovalInv
    <3> QED BY <2>1, <3>2, <3>3 DEF RemovalInv
  <2>2. CASE config' = config /\ stray' = stray \cup {bdf[d]}
    BY <2>2 DEF RemovalInv
  <2> QED BY <2>1, <2>2
<1>8. ImageInv' BY DEF ImageInv, Booted
<1>9. SnapInv' BY DEF SnapInv
<1> QED BY <1>2, <1>3, <1>4, <1>5, <1>6, <1>7, <1>8, <1>9

LEMMA RemoveFailsStep ==
  ASSUME IInv, NEW d, vm # "None", RemoveFails(d),
         UNCHANGED <<created, config, vm, snap, unbooted>>
  PROVE  IInv'
<1> USE DEF IInv, guest, history
<1>1. /\ d \in tree \ live /\ block_devices' = block_devices \ {d}
      /\ UNCHANGED <<tree, bdf, live, device_ids, up, down, held, guest, history>>
  BY DEF RemoveFails
<1>2. d \notin config
  BY <1>1 DEF ImageInv
<1>3. Types' BY <1>1 DEF Types
<1>4. EmptyInv' BY DEF EmptyInv
<1>5. SlotInv' BY <1>1 DEF SlotInv
<1>6. NoticeInv' /\ KnownInv' BY <1>1 DEF NoticeInv, KnownInv, Booted
<1>7. RemovalInv' BY <1>1 DEF RemovalInv
<1>8. ImageInv' BY <1>1, <1>2 DEF ImageInv, Booted
<1>9. SnapInv' BY DEF SnapInv
<1> QED BY <1>3, <1>4, <1>5, <1>6, <1>7, <1>8, <1>9

-----------------------------------------------------------------------------
(* Steps of the guest, with the VMM's part in an ejection. *)

LEMMA ReadStep ==
  ASSUME IInv, vm # "None", ReadUp \/ ReadDown,
         UNCHANGED <<created, config, vm, snap, unbooted>>
  PROVE  IInv'
<1> USE DEF IInv, history
<1>1. /\ UNCHANGED <<tree, bdf, live, device_ids, block_devices, held, history>>
      /\ \/ /\ known' = known \cup {d \in live : bdf[d] \in up} /\ up' = {} /\ gpc' = "down"
            /\ UNCHANGED <<down, asked>>
         \/ /\ asked' = asked \cup down /\ down' = {}
            /\ UNCHANGED <<up, ged, known>>
  BY DEF ReadUp, ReadDown
<1>2. down' \cup asked' = down \cup asked /\ down' \cap asked' \subseteq down \cap asked
  BY <1>1
<1>3. Types' BY <1>1 DEF Types
<1>4. EmptyInv' BY DEF EmptyInv
<1>5. SlotInv' BY <1>1 DEF SlotInv
<1>6. NoticeInv' BY <1>1, <1>2 DEF NoticeInv
<1>7. KnownInv' BY <1>1 DEF KnownInv, Booted
<1>8. RemovalInv' BY <1>1, <1>2 DEF RemovalInv
<1>9. ImageInv' BY <1>1 DEF ImageInv, Booted
<1>10. SnapInv' BY DEF SnapInv
<1> QED BY <1>3, <1>4, <1>5, <1>6, <1>7, <1>8, <1>9, <1>10

(* The notice that is served leaves none behind, or a stray one. *)
LEMMA NoticeServed ==
  ASSUME IInv, vm # "None", NEW s \in Slots, Ejecting(s)
  PROVE  /\ s \in asked /\ asked' = asked \ {s} /\ leaked' = leaked \ {s}
         /\ UNCHANGED <<up, down, block_devices, ged, gpc, leftover, unseen>>
         /\ stray' \subseteq stray
         /\ down' \cap asked' \subseteq stray' \cup leftover'
         /\ \A t \in (down' \cup asked') \ (stray' \cup leftover') :
              t # s /\ t \in (down \cup asked) \ (stray \cup leftover)
<1>1. /\ s \in asked /\ asked' = asked \ {s} /\ leaked' = leaked \ {s}
      /\ stray' = IF s \in down THEN stray ELSE stray \ {s}
      /\ UNCHANGED <<up, down, block_devices, ged, gpc, leftover, unseen>>
  BY DEF Ejecting
<1>2. down \cap asked \subseteq stray \cup leftover
  BY DEF IInv, RemovalInv
<1>3. \A t \in down \cup asked' : t \notin stray' => t \notin stray
  BY <1>1
<1>4. s \in down => s \in stray' \cup leftover
  BY <1>1, <1>2
<1> QED BY <1>1, <1>2, <1>3, <1>4

(* The slot ejected has no device; a leaked slot is given back. *)
LEMMA EjectNothingStep ==
  ASSUME IInv, vm # "None", NEW s \in Slots, Ejecting(s), device_ids' = device_ids \ {s},
         s \notin SlotsOf(tree), UNCHANGED <<tree, bdf, live, held, known, odd>>,
         UNCHANGED <<created, config, vm, snap, unbooted>>
  PROVE  IInv'
<1> USE DEF IInv
<1>1. \A d \in live : bdf[d] # s
  BY DEF SlotsOf, SlotInv
<1>2. Types' BY NoticeServed DEF Types
<1>3. EmptyInv' BY DEF EmptyInv
<1>4. SlotInv' BY <1>1, NoticeServed DEF SlotInv
<1>5. NoticeInv' BY <1>1, NoticeServed DEF NoticeInv
<1>6. KnownInv' BY NoticeServed DEF KnownInv, Booted
<1>7. RemovalInv' BY NoticeServed DEF RemovalInv
<1>8. ImageInv' BY NoticeServed DEF ImageInv, Booted
<1>9. SnapInv' BY DEF SnapInv
<1> QED BY <1>2, <1>3, <1>4, <1>5, <1>6, <1>7, <1>8, <1>9

(* The slot ejected has a node: that of a device whose removal was         *)
(* accepted, or the slot is stray or left over and the device is odd.      *)
LEMMA EjectStep ==
  ASSUME IInv, vm # "None", NEW s \in Slots, Ejecting(s), device_ids' = device_ids \ {s},
         NEW d \in tree, bdf[d] = s, TakeOff(d),
         (Release(d) /\ Odd(d, s)) \/ (odd' = odd \cup {d} /\ held' = held),
         UNCHANGED <<created, config, vm, snap, unbooted>>
  PROVE  IInv'
<1> USE DEF IInv
<1>2. /\ d \in Devices /\ live \subseteq Devices /\ live \subseteq tree /\ s # 0
      /\ bdf \in [Devices -> 0 .. NSlots]
  BY HotplugConstants DEF Types, SlotInv, Slots
<1>3. /\ bdf' \in [Devices -> 0 .. NSlots] /\ bdf'[d] = 0
      /\ \A e \in Devices : e # d => bdf'[e] = bdf[e]
  BY <1>2, HotplugConstants DEF TakeOff
<1>4. /\ live' = live \ {d} /\ known' = known \ {d}
      /\ tree' = IF d \in live THEN tree \ {d} ELSE tree
  BY DEF TakeOff
<1>5. \A e \in live' : e \in live /\ e # d /\ bdf'[e] = bdf[e]
  BY <1>2, <1>3, <1>4
<1>6. /\ held' = held \/ held' = held \ ({d} \ block_devices)
      /\ odd' = odd \/ odd' = odd \cup {d}
      /\ d \in odd' \/ (s \notin stray \cup leftover /\ held' = held \ ({d} \ block_devices))
  BY DEF Release, Odd
<1>7. s \notin leftover => d \in live /\ \A e \in live' : bdf[e] # s
  BY <1>2, <1>5 DEF SlotInv
<1>8. s \notin stray \cup leftover => d \in live /\ d \notin config
  <2> SUFFICES ASSUME s \notin stray \cup leftover PROVE d \notin config
    BY <1>7
  <2>1. PICK e \in live \ config : bdf[e] = s
    BY NoticeServed DEF RemovalInv
  <2> QED BY <1>7, <2>1 DEF SlotInv
<1>9. Types' BY <1>2, <1>3, <1>4, <1>6, NoticeServed DEF Types
<1>10. EmptyInv' BY DEF EmptyInv
<1>11. SlotInv'
  <2>1. live' \subseteq tree' /\ \A e \in live' : bdf'[e] # 0
    BY <1>2, <1>4, <1>5 DEF SlotInv
  <2>2. /\ \A e \in Devices : bdf'[e] # 0 => e \in tree'
        /\ \A e \in Devices \ live' : bdf'[e] # 0 => bdf'[e] \in leftover
    BY <1>3, <1>4 DEF SlotInv
  <2>3. \A e, f \in live' : e # f /\ bdf'[e] = bdf'[f] => bdf'[e] \in leftover
    BY <1>5 DEF SlotInv
  <2>4. ASSUME NEW t \in Slots \ leftover
        PROVE  t \in device_ids' <=> t \in leaked' \/ \E e \in live' : bdf'[e] = t
    <3>1. CASE t = s
      BY <1>5, <1>7, <3>1, NoticeServed
    <3>2. CASE t # s
      <4>1. t \in device_ids <=> t \in leaked \/ \E e \in live : bdf[e] = t
        BY DEF SlotInv
      <4>2. (\E e \in live' : bdf'[e] = t) <=> \E e \in live : bdf[e] = t
        BY <1>4, <1>5, <3>2
      <4> QED BY <3>2, <4>1, <4>2, NoticeServed
    <3> QED BY <3>1, <3>2
  <2> QED BY <2>1, <2>2, <2>3, <2>4, NoticeServed DEF SlotInv
<1>12. NoticeInv' BY <1>4, <1>5, <1>7, NoticeServed DEF NoticeInv
<1>13. KnownInv' BY <1>4, <1>5, NoticeServed DEF KnownInv, Booted
<1>14. RemovalInv'
  <2>1. config \subseteq live' \cup odd'
    BY <1>4, <1>6, <1>8 DEF RemovalInv
  <2>2. ASSUME NEW t \in (down' \cup asked') \ (stray' \cup leftover')
        PROVE  \E e \in live' \ config : bdf'[e] = t
    <3>1. t # s /\ t \in (down \cup asked) \ (stray \cup leftover)
      BY NoticeServed
    <3>2. PICK e \in live \ config : bdf[e] = t
      BY <3>1 DEF RemovalInv
    <3> QED BY <1>4, <1>5, <3>1, <3>2
  <2> QED BY <2>1, <2>2, NoticeServed DEF RemovalInv
<1>15. ImageInv'
  <2>1. config \cap tree' \subseteq live' /\ config \cap Disks \subseteq block_devices
    BY <1>2, <1>4 DEF ImageInv
  <2>2. Booted' => config \cap Disks \subseteq held'
    BY <1>6, <2>1 DEF ImageInv, Booted
  <2>3. block_devices \subseteq config \cup odd' /\ odd' \cap live' = {}
    BY <1>4, <1>6 DEF ImageInv
  <2>4. held' \subseteq live' \cup odd'
    <3>1. CASE d \in odd'
      BY <1>4, <1>6, <3>1 DEF ImageInv
    <3>2. CASE d \notin odd'
      <4>1. d \notin config /\ d \in live /\ held' = held \ ({d} \ block_devices)
        BY <1>6, <1>8, <3>2
      <4>2. d \notin block_devices
        BY <4>1 DEF ImageInv
      <4> QED BY <1>4, <1>6, <4>1, <4>2 DEF ImageInv
    <3> QED BY <3>1, <3>2
  <2> QED BY <2>1, <2>2, <2>3, <2>4, NoticeServed DEF ImageInv
<1>16. SnapInv' BY DEF SnapInv
<1> QED BY <1>9, <1>10, <1>11, <1>12, <1>13, <1>14, <1>15, <1>16
-----------------------------------------------------------------------------
LEMMA LifeKeeps ==
  ASSUME IInv, VmCreate \/ VmBootNew \/ VmBootAgain \/ VmPause \/ VmResume \/ VmSnapshot
  PROVE  IInv'
<1>0. Types /\ EmptyInv
  BY DEF IInv
<1>1. CASE VmCreate
  BY <1>0, <1>1, IdleStep DEF VmCreate, Types
<1>2. CASE VmBootNew
  <2>0. created' /\ vm = "None" /\ UNCHANGED <<created, snap, unbooted>> /\ ~unbooted /\ held = {}
    BY <1>0, <1>2 DEF VmBootNew, EmptyInv
  <2>1. CASE NewFails /\ UNCHANGED <<dm, vm>>
    <3>1. config' \subseteq Devices
      BY <1>0, <2>1 DEF NewFails, Types
    <3> QED BY <2>0, <2>1, <3>1, IdleStep
  <2>2. CASE /\ DmNew(config) /\ UNCHANGED config
             /\ \/ BootFails(block_devices') /\ vm' = "Created" /\ known' = {}
                \/ TryLockDisks(block_devices') /\ vm' = "Running" /\ known' = config
    <3>1. block_devices' = config \cap Disks
      BY <2>2 DEF DmNew
    <3>2. /\ held' \subseteq config \cap Disks
          /\ vm' = "Running" => held' = config \cap Disks /\ known' = config
          /\ vm' \in {"Created", "Running"} /\ known' \subseteq Devices
      BY <1>0, <2>0, <2>2, <3>1 DEF BootFails, TryLockDisks, Types
    <3> QED BY <2>0, <2>2, <3>2, NewStep
  <2> QED BY <1>2, <2>1, <2>2 DEF VmBootNew
<1>3. CASE VmBootAgain
  BY <1>3, BootAgainStep
<1>4. CASE VmPause
  BY <1>4, PauseStep DEF VmPause
<1>5. CASE VmResume
  BY <1>5, PauseStep DEF VmResume
<1>6. CASE VmSnapshot
  BY <1>6, SnapshotStep
<1> QED BY <1>1, <1>2, <1>3, <1>4, <1>5, <1>6

LEMMA EndKeeps ==
  ASSUME IInv, VmShutdown \/ VmDelete \/ Ends \/ VmRestore \/ VmReboot \/ RebootFails
  PROVE  IInv'
<1>0. config \subseteq Devices /\ (~created => vm = "None")
  BY DEF IInv, Types
<1>1. CASE VmShutdown
  BY <1>0, <1>1, DropStep DEF VmShutdown
<1>2. CASE VmDelete
  BY <1>0, <1>2, DropStep DEF VmDelete
<1>3. CASE Ends
  BY <1>3, DropStep DEF Ends
<1>4. CASE VmRestore
  <2>1. PICK s \in snap :
          \/ RestoreFails(s)
          \/ /\ DmRestore(s) /\ held' = s.config \cap Disks
             /\ created' = TRUE /\ config' = s.config
             /\ vm' \in {"Paused", "Running"}
             /\ unbooted' = s.unbooted
    BY <1>4 DEF VmRestore
  <2>2. ~created /\ snap' = {} /\ vm = "None" /\ s.config \subseteq Devices
    BY <1>0, <1>4 DEF VmRestore, IInv, SnapInv
  <2>3. CASE RestoreFails(s)
    BY <1>0, <2>2, <2>3, IdleStep DEF RestoreFails
  <2> QED BY <2>1, <2>2, <2>3, RestoreStep
<1>5. CASE VmReboot
  <2>1. created' /\ known' \subseteq Devices /\ vm' = "Running"
    BY <1>0, <1>5 DEF VmReboot
  <2> QED BY <1>5, <2>1, NewStep DEF VmReboot
<1>6. CASE RebootFails
  <2>1. config' \subseteq Devices
    BY <1>0, <1>6 DEF RebootFails, NewFails
  <2> QED BY <1>6, <2>1, DropStep DEF RebootFails
<1> QED BY <1>1, <1>2, <1>3, <1>4, <1>5, <1>6

LEMMA DevicesKeep ==
  ASSUME IInv, NEW d \in Devices, VmAddDevice(d) \/ VmRemoveDevice(d)
  PROVE  IInv'
<1>0. config \subseteq Devices
  BY DEF IInv, Types
<1>1. CASE VmAddDevice(d)
  <2>0. d \notin config /\ UNCHANGED <<created, vm, snap, unbooted>>
    BY <1>1 DEF VmAddDevice
  <2>1. CASE vm = "None" /\ AddToConfig(d) /\ UNCHANGED dm
    BY <1>0, <2>0, <2>1, IdleStep DEF AddToConfig
  <2>2. CASE vm # "None" /\ HotplugDevice(d) /\ AddToConfig(d)
    BY <2>0, <2>2, HotplugStep DEF AddToConfig
  <2>3. CASE vm # "None" /\ HotplugFails(d) /\ UNCHANGED config
    BY <2>0, <2>3, HotplugFailsStep
  <2> QED BY <1>1, <2>1, <2>2, <2>3 DEF VmAddDevice
<1>2. CASE VmRemoveDevice(d)
  <2>0. UNCHANGED <<created, vm, snap, unbooted>>
    BY <1>2 DEF VmRemoveDevice
  <2>1. CASE vm = "None" /\ RemoveFromConfig(d) /\ UNCHANGED dm
    BY <1>0, <2>0, <2>1, IdleStep DEF RemoveFromConfig
  <2>2. CASE vm # "None" /\ d \in config /\ RemoveFromTree(d) /\ RemoveFromConfig(d) /\ UNCHANGED stray
    BY <2>0, <2>2, RemoveStep DEF RemoveFromConfig, RemoveFromTree
  <2>3. CASE /\ vm # "None" /\ d \in Disks \ config /\ RemoveFromTree(d)
             /\ stray' = stray \cup {bdf[d]} /\ UNCHANGED config
    BY <2>0, <2>3, RemoveStep DEF RemoveFromTree
  <2>4. CASE vm # "None" /\ RemoveByNode(d) /\ stray' = stray \cup {bdf[d]} /\ UNCHANGED config
    BY <2>0, <2>4, RemoveStep DEF RemoveByNode
  <2>5. CASE vm # "None" /\ RemoveFails(d) /\ UNCHANGED config
    BY <2>0, <2>5, RemoveFailsStep
  <2> QED BY <1>2, <2>1, <2>2, <2>3, <2>4, <2>5 DEF VmRemoveDevice
<1> QED BY <1>1, <1>2

LEMMA GuestKeeps ==
  ASSUME IInv, Guest(GuestStep)
  PROVE  IInv'
<1>1. vm # "None" /\ GuestStep /\ UNCHANGED <<created, config, vm, snap, unbooted>>
  BY DEF Guest, GuestRuns
<1>2. CASE ReadUp \/ ReadDown
  BY <1>1, <1>2, ReadStep
<1>3. ASSUME NEW s \in Slots, EjectDevice(s)
      PROVE  IInv'
  <2>1. Ejecting(s) /\ device_ids' = device_ids \ {s}
    BY <1>3 DEF EjectDevice
  <2>2. CASE s \notin SlotsOf(tree) /\ UNCHANGED <<tree, bdf, live, held, known, odd>>
    BY <1>1, <2>1, <2>2, EjectNothingStep
  <2>3. ASSUME NEW d \in tree, bdf[d] = s, TakeOff(d),
               (Release(d) /\ Odd(d, s)) \/ (odd' = odd \cup {d} /\ held' = held)
        PROVE  IInv'
    BY <1>1, <2>1, <2>3, EjectStep
  <2> QED BY <1>3, <2>2, <2>3 DEF EjectDevice
<1> QED BY <1>1, <1>2, <1>3 DEF GuestStep

(* The four invariants and what they rest on hold of every VM, restored or *)
(* new, at every request.                                                  *)
THEOREM Inductive == Spec => []IInv
<1>1. Init => IInv
  <2> SUFFICES ASSUME Init PROVE IInv
    OBVIOUS
  <2> USE DEF Init, DmInit, NoSlots
  <2>1. Types BY HotplugConstants DEF Types
  <2>2. EmptyInv BY DEF EmptyInv
  <2>3. SlotInv BY DEF SlotInv
  <2>4. NoticeInv /\ KnownInv /\ RemovalInv BY DEF NoticeInv, KnownInv, RemovalInv, Booted
  <2>5. ImageInv /\ SnapInv BY DEF ImageInv, SnapInv, Booted
  <2> QED BY <2>1, <2>2, <2>3, <2>4, <2>5 DEF IInv
<1>2. IInv /\ [Next]_vars => IInv'
  <2> SUFFICES ASSUME IInv, [Next]_vars PROVE IInv'
    OBVIOUS
  <2>1. CASE UNCHANGED vars
    BY <2>1 DEF vars, dm, guest, history, IInv, Types, EmptyInv, SlotInv, NoticeInv, KnownInv, RemovalInv,
                ImageInv, SnapInv, Booted
  <2>2. CASE VmCreate \/ VmBootNew \/ VmBootAgain \/ VmPause \/ VmResume \/ VmSnapshot
    BY <2>2, LifeKeeps
  <2>3. CASE VmShutdown \/ VmDelete \/ Ends \/ VmRestore \/ VmReboot \/ RebootFails
    BY <2>3, EndKeeps
  <2>4. CASE \E d \in Devices : VmAddDevice(d) \/ VmRemoveDevice(d)
    BY <2>4, DevicesKeep
  <2>5. CASE Guest(GuestStep)
    BY <2>5, GuestKeeps
  <2> QED BY <2>1, <2>2, <2>3, <2>4, <2>5 DEF Next, VmmShutdown, RemoveNetPanics
<1> QED BY <1>1, <1>2, PTL DEF Spec

(* ConfigLive: what vm_config lists is on the buses of the VM, except the  *)
(* devices that a stray or leftover notice ejected (lib.rs changes both in *)
(* one request, and a notice that is not stray ejects what left it).       *)
THEOREM ConfigIsLive == Spec => []ConfigLive
<1>1. IInv => ConfigLive
  BY DEF IInv, RemovalInv, ConfigLive
<1> QED BY <1>1, Inductive, PTL

(* SlotsExclusive: outside the leftover slots of a restored VM the bus has *)
(* allocated exactly the slots in use, one to each device, and the ones    *)
(* that failed adds leaked (allocate_device_id, free_device_id).           *)
THEOREM SlotsAreExclusive == Spec => []SlotsExclusive
<1>1. IInv => SlotsExclusive
  <2> SUFFICES ASSUME IInv PROVE SlotsExclusive
    OBVIOUS
  <2>1. \A s \in SlotsOf(live) : s \in Slots
    BY HotplugConstants DEF IInv, SlotInv, Types, SlotsOf, Slots
  <2>2. device_ids \ leftover = (SlotsOf(live) \cup leaked) \ leftover
    BY <2>1 DEF IInv, SlotInv, Types, SlotsOf
  <2> QED BY <2>2 DEF IInv, SlotInv, SlotsExclusive
<1> QED BY <1>1, Inductive, PTL

(* ImagesLocked: the locks of the images follow the disks (try_lock_disks, *)
(* and the lock a dropped Block gives back), except of the disks that were *)
(* half added or half removed.                                             *)
THEOREM ImagesAreLocked == Spec => []ImagesLocked
<1>1. IInv => ImagesLocked
  BY DEF IInv, ImageInv, ImagesLocked, GuestRuns, Booted
<1> QED BY <1>1, Inductive, PTL

(* ChangesAnnounced: between the bitmaps, the notification and the guest's *)
(* handler no device that comes or goes is forgotten, except the ones a    *)
(* restored guest had not seen and the ones in a leftover slot.            *)
THEOREM ChangesAreAnnounced == Spec => []ChangesAnnounced
<1>1. IInv => ChangesAnnounced
  BY DEF IInv, NoticeInv, KnownInv, ChangesAnnounced, GuestRuns, Booted
<1> QED BY <1>1, Inductive, PTL
=============================================================================
