# Verification of demo_store

demo_store holds several experiments on sharing a memory snapshot between
processes or virtual machines. This directory keeps TLA+ models of them beside the
code, the TLC configurations that check the models on small instances and the
proofs, checked by TLAPS, that the safety properties hold for instances of any size.

Contents: [the system](#the-system), [template memory](#template-memory),
[template restore](#template-restore-and-page-service),
[vCPU threads](#vcpu-threads), [virtio workers](#virtio-workers),
[live migration](#live-migration), [VMM API](#vmm-api-and-hot-plug),
[snapshot driver](#snapshot-driver), [slot file](#slot-file),
[remote controller](#remote-controller), [runs](#runs),
[behaviours to know](#behaviours-to-know), [bounds](#bounds), [fairness](#fairness),
[what is proved](#what-is-proved), [not modelled](#not-modelled).

## The system

| Part | Source | Modules |
|---|---|---|
| Template memory library: processes share a memfd filled on demand from a layered backend, writes are private | `uffd-cow-gpt/src/lib.rs` | `TemplateMemory`, `CowMemory`, `TemplateMemoryProofs` |
| Page service: a Unix-socket service that serves template pages | `uffd-cow-gpt/src/main.rs` | `TemplateServer`, `RestoreHandlerProofs` |
| Template restore of a VM: the same idea inside cloud-hypervisor, several regions, copy-on-write in chunks | `vmm/src/template_memory.rs`, parts of `memory_manager.rs`, `uffd.rs` | `RestoreHandler`, `CowMemory`, `RestoreHandlerProofs` |
| vCPU threads: pause, resume, NMI, removal, shutdown | `vmm/src/cpu.rs`, parts of `vm.rs` | `VcpuThreads`, `ThreadProofs` |
| virtio workers: activation, pause, resume, reset | `virtio-devices/src/device.rs`, `epoll_helper.rs` | `VirtioWorkers`, `ThreadProofs` |
| Live migration, both ends | `vmm/src/lib.rs`, `migration_transport.rs`, `vm-migration/src/protocol.rs` | `MemorySender`, `Migration`, `MigrationProofs` |
| Requests to the VMM and PCI hot plug | `vmm/src/lib.rs`, `vm.rs`, `device_manager.rs`, `pci/src/bus.rs` | `DeviceHotplug`, `VmmApi`, `VmmApiProofs` |
| Snapshot driver: a kernel module with a page pool deduplicated by hash and templates that VMs map | `conch-driver/driver/*.c` | `SnapshotTemplates`, `PagePool`, `SnapshotTemplatesProofs`, `PagePoolProofs` |
| Slot-file tools: split a memory image into a hash-addressed slot file and query it | `conch-driver/tools/*.c` | `SlotFile`, `SlotFileProofs` |
| Remote controller: a sandbox-controller service | `remote-controller/main.go` | `SandboxController`, `ThreadProofs` |
| Template demo, userfaultfd demo in C, uffd-cow prototype, ublk server, the rest of cloud-hypervisor | | [not modelled](#not-modelled) |

Paths that begin with `vmm/`, `virtio-devices/`, `vm-migration/` and `pci/` are under
`src/uffd-cow-gpt/cloud-hypervisor/`, the others under `src/`. A module `MCx`
instantiates module `x` for TLC; modules without one are instantiated by their cfg.

Where the parts meet, the models do: `RestoreHandler` composes the handler, the
restoring thread, the vCPUs and one connection of `TemplateServer`; `Migration`
composes both ends of a migration with the sender's worker threads of `MemorySender`;
`VmmApi` composes the requests of the VMM with the `DeviceManager` and the guest of
`DeviceHotplug`; `CowMemory` is the promise of both the library and the restore; the
reader of `SlotFile` is the driver's fault handler as well as the query tool.
`VcpuThreads` and `VirtioWorkers` are the two halves of `Vm::pause`: vCPUs first, then
devices, which is why a guest notifies no queue of a paused device in `VirtioWorkers`.

## Template memory

`TemplateMemory` has the state the code shares between processes (`state`,
`cache`), each process's address space (`map`, `anon`), each `ClientInner`
(`dirty`, `stop`) and its handler thread (`pc`, `page`, `buf`), and application
threads (`st`, `acc`, `res`, and the checkpoint loop's `next` and `ckpt`).

The handler's program counter has one label per step another actor can observe:

| Label | Code in lib.rs | Action |
|---|---|---|
| new, check | `start_handler`, top of `fault_handler_main` | StartHandler, CheckStop |
| poll | poll and read | PollTimeout, ReadMessage, PollError |
| cas | compare_exchange, 661 | CompareExchange |
| read_page, copy, publish | 668, 670, 687 | ReadPage, CopyPage, Publish and the errors |
| spin, wake | 690, 693/700/772 | SpinDone, WakePage, WakeError |
| snapshot, writeprotect, remap, copyback, mark | 719, 741, 748, 763, 771 | Snapshot, ClearWriteProtect, RemapPrivate, CopyBack, MarkPrivateDirty and the errors |
| exited, failed, failed_loading | the thread has returned | Join |

An error while the handler is responsible for a page ends in `failed_loading`,
because the page's state word is then LOADING for ever.

The kernel is external. A page is in the memfd's page cache or `Absent`; an entry
of a page table is `none`, `wp` (shared and write-protected), `rw` (shared) or
`priv`. A load or store of an application thread (`Issue`, then `Access`)
completes, or puts the thread to sleep with a message of kind missing or wp.
Three facts about userfaultfd on shared memory decide the results and are taken
from the kernel's documented behaviour:

* a missing fault is raised only where the page cache has no page. A page that is
  there is mapped at once, writable, without a message, because the client is
  registered for MISSING and WP and not for MINOR faults;
* UFFDIO_COPY with MODE_WP protects the page in the calling process only, and
  answers EEXIST, without waking, if the page cache already has the page;
* UFFDIO_WAKE lets the threads asleep on the page retry and withdraws their
  messages; a page replaced by MAP_FIXED is no longer registered.

The content of a page is a function from `Offsets` to cells; a cell holds zero,
the name of the thread that stored into it, or the pair of page and layer it was
loaded from. That tells apart everything the properties speak of.
`UnregisteredTouch` is a mapping of the memfd outside any `Client` (the service's,
or a client's before `Client::new`) touching a hole; `Crash` is the death of a
process.

`CowMemory` has one memory per client and neither page caches nor handlers: `Read`
and `Write` only. `CowSpec` says that `TemplateMemory` implements it under the
mapping `View`: what the client would find at each page if it looked now.

## Template restore and page service

`RestoreHandler` follows one restore with `memory_restore_mode=ondemand` or with a
template socket: `restore_by_uffd` registers guest RAM, spawns the handler, waits for
`ready` and looks once at the result channel (`vmm`: setup, waiting, check, running);
then the vCPUs run, and `stop_uffd_handler` ends the handler. `present` and `mem` are
the guest's page table and memory, `state` the four states of a page, `todo` the pages
the handler still has to load for the message it works on: one for a missing fault, the
rest of the chunk for a write-protect fault. Pages, ranges and chunks are computed as in
the code (`page_count`, `FirstPage`, `cow_chunk_size`, `Chunk`), so a short last chunk
and a range smaller than a chunk occur. Whether the VM has one vCPU or two and whether
pages come from a file or from the service is chosen at the start.

`TemplateServer` is one connection of `serve_template`: the accept loop, the thread that
answers page requests, and the metrics, which are recorded after the reply was sent.
`req` and `rsp` are the two directions of the socket. A request names its page by offset
and length, as `read_page` computes them; the service counts base pages, so one request
for a huge page adds several to `unique_pages_seen`.

The userfaultfd is owned by the handler's closure. When the handler returns, with an
error or not, it is closed: sleepers run, and a page that was not loaded reads as zero.

## vCPU threads

`VcpuThreads` has the three shared flags, the atomics of each `VcpuState` (`kill`,
`interrupted`, `paused`, `active` for the handle), the mutex `vcpu_states`, the vCPU
threads and the VMM's thread. A vCPU thread's loop is `top` to `unack` (the pause
handshake and `park`), `kick`, `kill`, `entry`, `guest` and `mmio`, where it may read
the ACPI hot-plug controller or, by `eject`, remove another vCPU: signal, wait for the
acknowledgement and join, all under the lock. The manager's operations go through
`signal`, `lock`, `wait` for every vCPU as `signal_vcpus` does, then `lockpaused` and
`paused` for pause, `unpark` and `resumed` for resume, `lockjoin` and `join` for
shutdown. A signal takes a thread out of KVM_RUN and is lost on one that is elsewhere,
because the handler is empty; `SignalAgain` is the repetition while an acknowledgement
is missing, and the time-out that ends it with an error. `PauseFails` is a pause that
fails later, with the vCPUs already told to park: VmState stays Running, the flag stays
set, and the next operation starts from there. `leaving` remembers, for
PausedStopsVcpus, the vCPUs that were between the end of the last pause and the clearing
of their flag when a pause began.

## virtio workers

`VirtioWorkers` has the device's flag `device_paused`, the shared pause and kill event, a queue
event per worker, the barrier (a worker or the pausing thread is at "barrier"), the park
tokens, and the thread that holds the device's mutex (`device_pc`). `activate`, `pause`,
`resume` and `reset` are those of `VirtioCommon`; `reset` resumes, kills and joins. A
worker parks at its start when the device is paused, as that of a restored VM is, and
reads the pause event when it leaves a pause. Events are level-triggered, so which of
several pending events a worker picks up is open.

## Live migration

`Migration` has the source (`spc` follows `vm_send_migration`, its pre-copy iterations,
the pause, the final iteration, State, the release of the disk locks, Complete and the
undoing of a failure), the destination (`state` is `ReceiveMigrationState`), the main
connection with one request or answer in flight (`chan`, `broken`) and the guest, which
writes until it is paused. `log` is the dirty log, `table` the pages of the iteration
still to hand over, `stale` the pages of which the destination has not the content of the
source. `MemorySender` adds the workers: the bounded channel, the gate at the end of an
iteration, the error flag, and `cleanup` with its `try_send`. A local migration shares
the memory and sends no pages. Every operation that returns a Result may fail
(`Failures`), and the connection may break at any point. `signalled` is
`vcpus_pause_signalled` of the source, which `VmState` does not follow when `Vm::pause`
fails half way (`half`).

## VMM API and hot plug

`DeviceHotplug` is the `DeviceManager` as hot plug sees it: nodes of the device tree,
slots (`bdf`, `device_ids`), PCIU and PCID (`up`, `down`), `block_devices`, the locked
images (`held`), and the guest that is notified, reads PCIU, then PCID, each of which
clears, and ejects. Disks and network devices stand for all virtio PCI devices.
`remove_device` only announces; slot, node and handle go when the guest ejects. It
accepts the identifier of the device (`RemoveFromTree`) or of the virtio-pci node above it
(`RemoveByNode`), which neither `block_devices` nor the configuration knows. An add may
fail after its slot was allocated (`HotplugFails`), an ejection after slot and node are
gone (`EjectDevice`).

`VmmApi` has the configuration, the state of the VM and one snapshot, and an action per
request: create, boot (of a new VM object, or again after a boot that failed), pause,
resume, snapshot, restore, shutdown, delete, reboot, add and remove a device, and the
end of the VMM. Errors keep what the code leaves behind: `NewFails` loses the list of
disks or of network devices, `BootFails` leaves a Created VM with some images locked,
`HotplugFails` a node without a slot, a failed shutdown a configuration without its VM.

What such a request disturbs is remembered slot by slot and device by device, and the
properties except these and no others: `stray` (slots with a notice to eject that is not
the one removal of the device by its identifier), `leftover` (slots of restored nodes
whose device was on its way out), `leaked` (slots of failed adds), `odd` (devices half
added or half removed), `unseen` (devices a restored guest had not enumerated), and
`unbooted` for a VM that was paused or resumed before it ever booted.

## Snapshot driver

Two modules share the driver. Each step of a model is one section under a lock, or
one stretch of code between two such sections.

`SnapshotTemplates` has the templates (`alloc`, `list`, `device`, `id`, `ref`), the
mappings (`vma` is a mapping's `vm_private_data`, `data` the allocated
`vma_snapshot_data`, `template` its field) and the processes in the driver (`proc`).
Create has three steps (the id check, allocation with `misc_register`, `list_add`),
delete two, mmap two, `snapshot_template_unref` three: the decrement, which is not
under the lock, the `list_del`, and the free. `misc_register` refuses a name that is
registered. The variable `ops`, chosen at the start, says whether the behaviour has
refused mmaps, forks and status queries, which break the driver: NoUseAfterFree,
MappedTemplateKept and OnlyDeleteUnlists are stated for the behaviours without them,
UniqueIds for all.

`PagePool` has the entries (`hash`, `ref`, the struct page's count `pref`, `live`), the
table (`bucket`, `total`, `ready`), the mappings with their tree and page table
(`vma`, `tree`, `pte`), the faulting threads (`fault`) and the end of a delete
(`deleter`). A fault goes through lookup, read, add, new, track, link and map.
`va_insert` has no lock although faults of one mapping run in parallel; so `Track`
(the descent) and `Link` are two steps, and a node linked in between may be
overwritten. A worse corruption of the tree is possible in the code and is left out.
Whether pages.bin has a hash within the probe limit is the constant `PagesBin`. The
variable `events`, chosen at the start, holds the calls that may fail, and "create": a
template is created and mapped while a delete clears the pool. A failing
vmf_insert_page breaks OwnersCounted and MappedPageValid, "create" breaks OwnersCounted
(a fault may also look into the freed bucket array), and these are stated for the
behaviours without; Deduplicated is stated for all.

In both modules freed memory can be allocated again, and a step that would use freed
memory is not taken: after it nothing can be said. The properties therefore speak of
the state in which somebody is about to take such a step.

## Slot file

`SlotFile` has pages.bin (`header`, `data` per slot), page_table.bin, the tool
`split_snapshot`, which may be run again and again on the same files, and a reader. The
two `pwrite`s of a page are two steps, between which the tool may be killed; either may
fail unnoticed. A page is identified with its `hash_idx`; that two pages have the same
first eight bytes of SHA-256, or 0, is left out. The reader's loop is that of
`lookup_page_by_hash` and of `snapshot_vma_fault`; its two reads are two steps beside the
tool. `left` and `torn` are the pages without a slot and the pages of which a write was
lost.

## Remote controller

`SandboxController` has the map (`sandboxes`), the records (`state`, `started`, `exits`,
`updated`, `once`, `stopped`), the calls in progress (`call`) and the server. Create is
one step, because the mutex is held throughout. Every other call begins with `Get`,
after which it holds a record, whatever happens to the map; its second critical
section is a step of its own. stopRecord is `OnceDo`, `Mark` and `Close`; a second
caller of the Once waits for the first. Platform, Metrics and Status change nothing
and are one action, `Query`. `exits` counts how often the exit was recorded.

## Runs

| Run | Instance | Properties | Result |
|---|---|---|---|
| template_single | 1 client, 1 thread, 3 pages (one in both layers, one in none), 2 cells, every call may fail | CheckpointExact, CowSpec | hold |
| template_loaders | 2 clients, 2 + 1 threads, 1 page, read_page may fail, crash, unregistered touch | IInv (TypeOK, LoaderExclusive, ReadyIsCached, PrivateIsDirty, HandlerNeverFaults, WpPending), FaultResolved, StopReturns | hold |
| template_peers_leak | 2 clients, 1 thread each | TemplateReadOnly | violated |
| restore | 3 pages in 2 ranges, one of huge pages, chunks of 2, 1 or 2 vCPUs, file or service, every call may fail | HandlerNeverWaits, ChunkPrivate, CountersExact, RestoredMemoryIsCow, FaultResolved, CallsReturn (restore and stop) | hold |
| vcpu_pause | 2 vCPUs, failing pauses; NMIs, or hot-plug reads and ending threads, or removal and addition | PausedStopsVcpus, NoOrphanThread, RequestsReturn (pause, resume, shutdown) | hold |
| virtio_pause | 2 workers, handlers may fail | QuietWhenPaused, QueueServed, DeviceRequestsReturn (pause, reset) | hold |
| migrate | 3 pages, 2 workers or none, channel of 2, 2 iterations, 8 kinds of failure | MemoryComplete, OneRuns, VmSurvives, LocksHandedOver, SendReturns | hold |
| vmm_api | 2 disks, 1 network device, 2 slots, 6 kinds of failure, one mishap at a time | ConfigLive, SlotsExclusive, ImagesLocked, ChangesAnnounced, RemovalCompletes | hold |
| snap_templates | 3 processes, 2 ids, 3 objects, 2 mappings; in half of the behaviours refused mmaps, fork, status | UniqueIds, NoUseAfterFree, MappedTemplateKept, OnlyDeleteUnlists | hold |
| pool_shared | 2 mappings of 2 pages and 2 hashes, 2 threads; reads and allocations fail, or vmf_insert_page fails, or a template appears while a delete clears the pool | Deduplicated, OwnersCounted, MappedPageValid | hold |
| slot_file | 4 slots, 3 probes, 4 pages of which 3 share a first slot, 3 snapshots, crash and failing writes | SplitComplete, ReadsOwnPage | hold |
| sandbox_calls | 2 calls of any kind, 1 id, 2 records | NeverClosedTwice, RemovedIsStopped, StopEndsWait, DrainEnds | hold |

Several properties except a case in which the code does something else; the comment of
the property says which, and [behaviours to know](#behaviours-to-know) says what the
code does then. A property holds in every other case.

**Library.** With one thread per process and one process, the library keeps its promise
exactly, errors included. The loading protocol is sound for racing processes, crashes and
a page cache filled behind its back: one loader, nothing announced early, the flags
exact, the handler never faults on the page it copies, which rests on UFFDIO_WAKE
withdrawing the second message about a page. Every fault is answered and stop_handler
returns unless the page's loader failed or died. *template_peers_leak* shows the sentence
of the design that does not hold, "多个进程共享同一份只读 template 页" (several processes
share one read-only template page): the second process to use a page is never asked, its
page is writable and its store lands in the template.

**Restore.** A VM with one vCPU has exactly a copy-on-write view of the template. The
handler never meets a page it is loading itself, chunks are replaced as a whole, the
counters in its log and those of the service are exact, and nobody waits for ever.

**vCPUs and workers.** A paused VM executes nothing and its queues are at rest, also
after NMIs that left an acknowledgement behind and after pauses that failed. The one
exception takes a vCPU that was added while the VM was paused. Every request comes back
when no vCPU thread or worker has ended by itself.

**Migration.** The destination never resumes with a page the guest has rewritten since;
before Complete a failure leaves the source running alone, unless undoing it fails or the
pause itself had failed half way; the locks are never held twice.

**VMM API.** Over any sequence of requests the configuration, the bus, the slots
and the disk locks stay consistent, and no change is lost between the two
reads of the guest's handler, because each read clears only what it returns and the
notification was already acknowledged before. A failed add, a failed ejection, a second
removal or one by the virtio-pci node spoils the slot or the device it is about, and
nothing else.

**Driver.** Without fork, refused mmaps and status queries a mapped template is safe, but
only because mmap counts it twice; the mutant with one count shows the template freed by
its last munmap. In the pool every node and every fault is backed by a reference,
whichever read or allocation fails. The table stays free of duplicates on every path.

**Slot file.** Linear probing without deletion keeps every page at the first slot of its
path it could take, which is all the reader's loop needs, also beside the tool. Once the
tool is done every page is readable, unless its slots are full or a write of it was lost.

**Controller.** The Once makes stopping safe for any number of callers, Wait is
answered, and a Shutdown takes out what it has stopped unless another was faster.

## Behaviours to know

What the models, as the code, can do and a reader might not expect.

Library and restore:

* `handle_wp_fault` lifts the protection before MAP_FIXED: another thread of the process
  that stores in between writes into the template (`prompt.txt:7` calls the memfd's pages
  read-only), and one that reads between MAP_FIXED and the copy back reads zero. So
  CowSpec is checked for one thread and RestoredMemoryIsCow excepts this window for two
  vCPUs.
* A loader that fails leaves LOADING behind (`lib.rs:669`); peers spin on it without end
  (`design.md:85` has them wait for SHARED_READY).
* A restore handler that fails after `ready` closes the userfaultfd; the running VM then
  reads zero in every page that was not loaded.
* A page the balloon takes back after it was loaded makes the handler fault on its own
  copy: it waits for itself.
* `page_requests` and `unique_pages` of the service differ when a range has huge pages: a
  request counts once, its base pages one by one (`main.rs:465`). What is exact is stated
  for the set of pages that were served.
* A failing UFFDIO_WAKE is only logged; the closing of the descriptor is what wakes.

vCPU threads and workers:

* `signal_vcpus` says "Do not hold `vcpu_states` across the wait phase" (`cpu.rs:1591`)
  and holds the guard in the wait (1600): a vCPU in the hot-plug controller cannot answer
  and pause ends with the time-out. The flags then stay set.
* A flag `vcpu_run_interrupted` that is left over, by an NMI or a pause that was over,
  counts as the acknowledgement of the next signal. Pause still waits for the flags
  `paused`, so only a vCPU that has not yet cleared that one escapes it.
* A pause that fails after `cpu_manager.pause` told the vCPUs to park (`cpu.rs:2608`,
  `vm.rs:3158`) leaves a guest that stands still while VmState is Running.
* A vCPU thread or worker that ended by itself makes pause wait for ever; so does, for a
  device, a resume that is followed at once by a pause.
* `remove_vcpu` waits and joins under the lock; when the VM is being paused, the vCPU it
  removes may be parked.

Migration:

* When the answer to Complete is lost, or stop_dirty_log or complete_migration fails
  afterwards, the source resumes its VM beside the destination's.
* When stop_dirty_log fails in the error path, the source's VM stays paused. When the
  pause failed half way, its vCPUs stay parked: only a VM whose VmState is Paused is
  resumed (`lib.rs:2607`).
* A source that resumes after it released the disk locks runs without them
  (`docs/disk_locking.md`); a destination that loses the connection after State keeps a
  paused VM and its locks.
* `cleanup` ("Sends disconnect messages to all workers and joins them.",
  `migration_transport.rs:736`) drops a Disconnect when the channel is full, and the join
  does not return.

VMM API:

* When a device cannot be made, its list is lost from the configuration
  (`device_manager.rs:2825`): the boot that is tried again has no disks (`docs/hotplug.md`
  says a device that was added remains after a reboot).
* A second removal of a network device before the guest ejected it is an unwrap of None
  and ends the VMM; of a disk, it leaves a bit in PCID by which the guest ejects the next
  device in that slot.
* A removal by the identifier of the virtio-pci node (`device_manager.rs:4618` accepts it)
  leaves a disk in the configuration and in `block_devices`: after the ejection it is
  still configured, and its image locked. For a network device it is the unwrap of None
  again.
* An add that finds no slot leaves its node in the tree and its image locked; one that
  fails later (`device_manager.rs:4239` to 4274) also keeps the slot it had allocated.
* An ejection that fails after `free_device_id` (`device_manager.rs:4798`, 4866, 4874)
  leaves the device on the buses without its node, its slot free for the next one and its
  image open.
* A snapshot taken between a removal and its ejection restores a node without a device;
  PCIU, PCID and the notification are not in the snapshot.
* A VM whose boot failed can be paused and resumed, and then reports Running without
  vCPUs or disk locks. A vm_delete whose shutdown fails keeps the configuration.
* Reset and exit events that a VM left behind reach the next VM, or end the VMM.

Driver and slot file:

* A refused mmap of a template nobody maps takes the count from 0 to 1 and back, and so
  frees the template (`snapshot_mmap.c:324`).
* A template that was ever mapped has a count above 0 for good, and delete answers EBUSY.
* Two faults of one mapping that overlap lose a node and its reference ("va_insert may
  fail if already exists (race), ignore", `snapshot_mmap.c:264`); so does a failed
  allocation of a node.
* Parent and child share one vma_data after fork, and a status query reads a template it
  holds no reference of.
* A failed vmf_insert_page drops the reference its tree node still stands for, and a
  delete clears the pool under a new template.
* A tool killed between header and page leaves a header that every later run takes for
  the page ("Already exists, same content - dedup", `split_snapshot.c:66`): the page is
  never written, and the driver caches the hole.
* The page table names a page also when there was no slot for it, and `unique_pages`
  counts pages that were there before.

Controller:

* A second Shutdown of a sandbox removes the one created under the id meanwhile
  (`main.go:199`), running or not, when the two overlap; RemovedIsStopped says that
  nothing else does.
* A Start that found its record before a Stop makes the ended sandbox READY.

## Bounds

* **Library.** One page is enough where processes race, because a handler works on one
  page at a time and pages share nothing; template_single has three pages, so that the
  checkpoint loop and the layers matter, and two cells per page, so that a copy must
  preserve what the store does not overwrite. template_loaders checks liveness with the
  two failures that leave something behind; the other failures are in template_single,
  and its five invariants are proved for all. `Readers`, `Writers` and `Exporters` say
  which thread does what.
* **Restore.** A range of one page (a short chunk) and one of a full chunk, in which one
  vCPU reads and writes and the other writes. One connection: connections share only the
  metrics' mutex.
* **vCPUs.** Two, because every handshake is between the manager or one vCPU and another.
  The extra events are checked in three groups; all of them together were checked for the
  invariants. **Workers.** Two: a third has the same part in barrier and events.
* **Migration.** Three pages, two workers and a channel of two let the channel fill,
  workers overtake one another and a worker sleep at the gate; two iterations are the
  first and one that sends what the log had.
* **VMM API.** Three devices and two slots: a slot is reused, and there is none for the
  third. Once a snapshot is written only the end of the VM and the restore are followed.
  A guest enumerates all devices at boot and ejects only what it was asked to.
  `MaxMishaps` lets one slot or device at a time be disturbed by a failed add or ejection
  or by a removal again or by the other node; a snapshot may bring more. The proofs have
  no such bound.
* **Driver.** Two mappings, two faults and two hashes show every race for an entry, a page
  repeated in one template and a page shared by two. `MaxRef` stops new faults or mappings
  once a count exceeds it, because leaked references grow for ever. `Bounded` also starts
  no fault once a count is below the number of nodes.
* **Slot file.** Pages 2, 6 and 10 share a first slot and 3 follows, probes wrap around,
  and one page too many wants the slots in reach. `MaxTorn` bounds the lost writes to one.
* **Controller.** `Records` lets an id be reused once; two calls suffice for the races
  inside stopRecord, whose safety is proved for any number.

Deadlock is checked in vmm_api. Elsewhere a system may stop: a handler, a VM or a server
that ended, or a process about to use freed memory. Symmetry is used in the runs of the
driver.

## Fairness

No failure, crash, guest access or request is fair. What is:

* `TemplateMemory`: each handler's step, each runnable thread and join (scheduling), and,
  strongly, ReadMessage: poll returns a waiting message rather than timing out for ever.
* `RestoreHandler`: the handler, the restoring thread, the service's thread and a vCPU's
  access.
* `VcpuThreads`: the steps of a vCPU thread outside KVM_RUN, the manager, and the
  repetition of a signal. The guest need never leave KVM_RUN by itself.
* `VirtioWorkers`: device thread and workers; strongly, per worker, each kind of event,
  because epoll reports every pending event.
* `Migration`: the main thread of both ends and the workers.
* `VmmApi`: a running guest serves its notification and ejects.
* `SandboxController`: each goroutine, and the end of GracefulStop.

`SlotFile` and the modules of the driver are checked for safety only.

## What is proved

Every safety property that a passing run checks is also proved, for every value of the
constants that satisfies the modules' ASSUMEs: invariants, the action properties
OnlyDeleteUnlists, RemovedIsStopped and RestoredMemoryIsCow, and that the library
implements `CowMemory`.
The ASSUMEs give the constants their types and keep special values apart. They say that
the sets whose members are counted are finite: processes, mappings, pages and faulting
threads of the driver, workers of a migration, devices of the VMM, vCPUs of a restored VM.
And they say that the last `FirstPage`, a sum of page counts, is a number, which would
take an induction.

| Module | Theorems (the property, where it has another name) | Inductive invariant |
|---|---|---|
| `TemplateMemoryProofs` | Invariance (IInv) and its parts TypeCorrect, Exclusion (LoaderExclusive), ReadyPagesCached (ReadyIsCached), DirtyExact (PrivateIsDirty), NoHandlerFault (HandlerNeverFaults), NoStaleMessage (WpPending) | IInv |
| | ExportExact (CheckpointExact), TemplateUnchanged (TemplateReadOnly), ImplementsCow (CowSpec), for one client with one thread | AloneInv |
| `RestoreHandlerProofs` | NeverWaits (HandlerNeverWaits), ChunksPrivate (ChunkPrivate) | HandlerInv, LifeInv |
| | CountersAreExact (CountersExact) | these and ServiceInv |
| | RestoredIsCow (RestoredMemoryIsCow) | these, MappedInv and AloneInv |
| `ThreadProofs` | NoOrphanThreadHolds, LockExclusiveHolds | IInv |
| | PausedStops (PausedStopsVcpus) | IInv, PauseInv |
| | QuietWhenPausedHolds, BarrierForPauseHolds | DevInv |
| | ExitRecorded (ExitBeforeClose), CloseSafe (NeverClosedTwice) | CtlInv |
| | RemovedStopped (RemovedIsStopped, an action property) | CtlInv, RemovalInv |
| `MigrationProofs` | MemoryCompleteHolds, OneRunsHolds, VmSurvivesHolds, LocksHandedOverHolds | ProtocolInv, MemoryInv, Parked |
| `VmmApiProofs` | ConfigIsLive (ConfigLive), SlotsAreExclusive (SlotsExclusive), ImagesAreLocked (ImagesLocked), ChangesAreAnnounced (ChangesAnnounced) | IInv |
| `SnapshotTemplatesProofs` | Unique (UniqueIds) | NameInv |
| | UseAllocated (NoUseAfterFree), MappedKept (MappedTemplateKept), OnlyDelete (OnlyDeleteUnlists) | NameInv, RefInv |
| `PagePoolProofs` | Shared (Deduplicated) | TableInv |
| | OwnersAreCounted (OwnersCounted), MappedValid (MappedPageValid) | TableInv, OwnerInv, QuietInv |
| `SlotFileProofs` | DeduplicatedHolds, StoredIsFoundHolds, LeftIsFullHolds, ReadsOwnPageHolds, SplitCompleteHolds, FoundStaysHolds (an action property) | FirstOnPath and what it needs |

The theorems about one client have a hypothesis beside the constants' ASSUMEs, `Alone`:
one client, with one thread, and nobody touches the memfd before `Client::new`. With two
clients TemplateReadOnly is what template_peers_leak refutes, and with two threads the
window before MAP_FIXED breaks CowSpec. ImplementsCow is also stated without crashes: the
memory of a dead process is nobody's.

What each argument rests on:

* **Library, many clients.** None but LoaderExclusive is inductive alone. TypeOK needs
  HandlerNeverFaults, since the snapshot copies `cache`, which may be `Absent`, and
  PrivateIsDirty. HandlerNeverFaults needs WpPending at ReadMessage. WpPending needs the
  handler to be at remap, copyback, mark or wake while a sleeper's page is no longer
  protected. ReadyIsCached carries the loader's own step from copy to publish. There is
  one lemma per action or group of actions (`HandlerMoves`, `ThreadFrame`), and
  `LoaderFrame` settles LoaderExclusive wherever loading neither begins nor ends.
* **Library, one client.** `AloneInv` says what the only thread would see at each page in
  every state of the handler: the handler works on the page the thread sleeps on, so the
  copy it took is still the memory when it is copied back, and the memfd holds the
  backend's page or nothing. The refinement then has one lemma per group of steps: a
  completed access is `Read` or `Write` of `CowMemory`, every other step leaves `View` as
  it was. CheckpointExact needs that the pages already exported are as they are now: the
  exporter is the only thread.
* **Restore.** The handler loads what its message is about: while it waits for a message
  no page is LOADING, and otherwise the pages that are LOADING are those of `Batch`
  (`LoadingInv`). So it meets no page of its own making in the spin loops, a chunk is
  complete before it is replaced, and the counters are cardinalities of sets of page
  states. For the service's metrics the invariant spans both processes: a page that has
  arrived at the client is recorded, or is the one the connection's thread is about to
  record (`MetricsInv`, which names the set of pages recorded; the metrics are its size
  and the base pages it covers). For the refinement `MappedInv` says what a mapped page holds, and
  `AloneInv` where the only vCPU sleeps while the handler works.
* **vCPUs.** A handle is cleared only by whoever has the lock and has seen the thread
  end; so the invariant ties the owner of the lock to where the manager and the removing
  vCPU are (`LockExclusive`) and says which vCPUs the operations have signalled
  (`Signallers`). For the pause, `FlagsOfPause` says where a thread is whose paused flag
  is set, and `NobodyLeaves` that from the request of a pause to the resume only a vCPU in
  `leaving` is about to clear that flag. The argument does not use the acknowledgements,
  which an old NMI can give.
* **Workers.** A pause event can be left over after a pause. `EventLeftOver` says that a
  worker is then about to read it, so it cannot bring another one to the barrier of a
  pause that is not in progress.
* **Controller.** That the caller of `Close` finds the channel open needs `OnceInv`: at
  most one call is at mark or close of a record, the Once is then running, and exit and
  channel are as far as that call is. For a removal, a call comes to the delete only with
  its record stopped (`DeleteAfterStop`), and the record is in the map under the call's id
  or not at all (`UnderItsId`, `OneId`).
* **Migration.** `ProtocolInv` ties the positions of source, channel and destination
  together. `MemoryInv` says where a page that is stale is: in the log, the table, the
  channel, with a worker, or lost to an error that has been flagged; that gates are the
  last messages of an iteration in the channel (`GatesLast`); and so that nothing is on
  its way once all gates have been reached (`AllArrived`). VmSurvives also needs `Parked`:
  vCPUs that are told to park belong to a paused VM or to a pause that failed half way.
* **VMM API.** The four invariants need one another. An ejection takes away the device
  that was meant because slots are exclusive; a configured device stays because every
  notice of removal, in PCID or already read by the guest, names one that has left the
  configuration (`NoticeInv`, `RemovalInv`); an image is unlocked with its device because
  block_devices lists configured disks only (`ImageInv`). Each of these is stated for the
  slots that are neither stray nor leftover and the devices that are not odd, and a step
  on a disturbed slot must be shown to leave the others alone (`EjectStep`). `SnapInv` says
  of the snapshot that its slots are those of its nodes, and `KnownInv` what the guest has
  enumerated.
* **Templates of the driver.** Between `list_del` and `kfree`, and between `kzalloc` and
  `list_add`, a template belongs to one process (`Owned`), and devices have different
  names (`DeviceNames`), which gives UniqueIds for all operations. Without refused mmaps,
  forks and status queries `UsersCounted` counts a mapping twice, as mmap does; the count
  of a mapped template therefore never returns to 0, and no munmap frees.
* **Page pool.** `TableInv` is about the table alone and holds whatever fails. A page
  of a mapping owns a reference of an entry as long as a node, the page table or a fault
  names the entry, and so does the copy of a node that a fault saw in its descent and may
  bring back (`Owns`). `Counted` says, per entry, that `ref` covers these pages and the
  faults that carry the entry, and `pref` the pages mapped; overlapping faults leak
  references, so both are inequalities. `ClosingInv` and `QuietInv` keep faults away from a
  mapping that is closed and from a pool that is cleared.
* **Slot file.** `FirstOnPath`: the slots before a stored page on its probe path are all
  taken, by other pages. Slots are never emptied, so nothing breaks it; deduplication and
  the reader's success both follow.

Only proved, and in no run: ControllerTypeOK, ExitBeforeClose, LockExclusive,
BarrierForPause, and Deduplicated, StoredIsFound, LeftIsFull and FoundStays of the slot
file. The TypeOK of a module without a theorem about it documents the types.

Only model-checked: the ten liveness properties (FaultResolved, StopReturns, CallsReturn,
RequestsReturn, DeviceRequestsReturn, QueueServed, SendReturns, RemovalCompletes,
StopEndsWait, DrainEnds), since fairness and ENABLED are beyond the prover.

## Not modelled

Parts without a module:

* *Template demo* (`run_demo`, `child_process` of `main.rs`) and *userfaultfd demo*
  (`demo/main.c`): fixed scripts over the steps `TemplateMemory` has.
* *uffd-cow prototype*: superseded by the library. Whether a store to a page that is not
  populated raises a write-protect fault depends on the kernel's version, so a model would
  be of the kernel rather than of the code. In the source: the private page is mapped over
  the shared one before the copy (`uffd_handler.c:171`), and nobody wakes the thread that
  faulted (160).
* *ublk server*: a single-threaded loop; what its errors lead to is decided by the kernel's
  ublk driver, of which the source shows nothing.
* *The rest of cloud-hypervisor*: device emulation, hypervisor bindings, architecture code,
  configuration parsing, HTTP and D-Bus, disk formats. This is most of the repository's
  lines; it is data conversion and I/O, for which a model would restate the code.

Left out of the modules:

* Library: creating the memfd, the metadata mapping and the userfaultfd, whose success is
  the initial state; bytes, addresses and words of bitmaps; `is_private` and
  `backend_offset`, which are never read; a checkpoint copies a page in one step. Memory
  ordering: state words are acquire and release, and the models interleave sequentially.
* Restore: panics, access to guest memory by vhost-user processes, prefault (which
  `config.rs` refuses together with ondemand).
* vCPUs: creation failures before the thread's loop, core dumps and debugging.
* Migration: TLS, postponed time-outs, the receiver's own worker threads, vhost-user
  and device state other than memory.
* VMM API: consoles, landlock, resizing, counters, VFIO, vDPA and IOMMU devices; an image is
  identified with its disk.
* Driver: module init and exit, the sysfs counter, the failure of the pool's reallocation,
  partial munmap. A template's page table and size do not change and are constants.
* Slot file: two tools at once, and a `pread` error, which the tool takes for an empty slot.
* Controller: the contents of info, labels and time stamps, and the listener.
