------------------------------ MODULE SlotFile ------------------------------
(***************************************************************************)
(* pages.bin and page_table.bin of a snapshot: conch-driver/tools,         *)
(* split_snapshot.c, which writes them, query_snapshot.c and the fault     *)
(* handler of driver/snapshot_mmap.c, which read them.                     *)
(*                                                                         *)
(* pages.bin is a hash table with linear probing: a slot has a header, the *)
(* hash_idx of its page, and the page.  A header of 0 is an empty slot,    *)
(* and so is one beyond the end of the file.  A page is known by its       *)
(* hash_idx: two pages with one hash_idx, and a hash_idx of 0, are left    *)
(* out.  The files are not truncated when the tool runs again.  One tool   *)
(* runs at a time, a reader may run beside it.                             *)
(***************************************************************************)
EXTENDS Integers, Sequences, FiniteSets

CONSTANTS
  Hashes,       (* the hash_idx of the pages                               *)
  HASH_MODULUS, MAX_PROBE_COUNT,
  Snapshots,    (* the snapshots that are split: sequences of pages        *)
  Failures,     (* "crash": the tool is killed; "write": a pwrite fails    *)
  MaxTorn       (* bound: pages of which a write was lost                  *)

ASSUME SlotConstants ==
  /\ Hashes \subseteq Nat \ {0}
  /\ HASH_MODULUS \in Nat \ {0} /\ MAX_PROBE_COUNT \in Nat \ {0}
  /\ Snapshots \subseteq Seq(Hashes)
  /\ Failures \subseteq {"crash", "write"} /\ MaxTorn \in Nat

VARIABLES
  header, data,   (* pages.bin: of a slot, and 0 for what was not written  *)
  page_table,     (* page_table.bin: the hash_idx of the pages             *)
  pc, snapshot, va, probe,         (* split_snapshot                       *)
  rpc, hash_idx, rprobe, got,      (* a reader, and the page it read       *)
  left,           (* history: pages write_page_to_slot found no slot for   *)
  torn            (* history: pages of which one part alone was written    *)

file   == <<header, data, page_table>>
tool   == <<pc, snapshot, va, probe, left, torn>>
reader == <<rpc, hash_idx, rprobe, got>>
vars   == <<file, tool, reader>>

Slots == 0 .. HASH_MODULUS - 1

TypeOK ==
  /\ header \in [Slots -> Hashes \cup {0}] /\ data \in [Slots -> Hashes \cup {0}]
  /\ page_table \in Seq(Hashes)
  /\ pc \in {"idle", "page", "probe", "data", "done"}
  /\ snapshot \in Seq(Hashes) /\ va \in Nat \ {0} /\ probe \in Nat
  /\ pc \in {"probe", "data"} => va \in 1 .. Len(snapshot)
  /\ rpc \in {"idle", "probe", "data", "found", "not_found"}
  /\ hash_idx \in Hashes \cup {0} /\ rprobe \in Nat /\ got \in Hashes \cup {0}
  /\ rpc # "idle" => hash_idx \in Hashes
  /\ left \subseteq Hashes /\ torn \subseteq Hashes

Init ==
  /\ header = [i \in Slots |-> 0] /\ data = [i \in Slots |-> 0] /\ page_table = <<>>
  /\ pc = "idle" /\ snapshot = <<>> /\ va = 1 /\ probe = 0 /\ left = {} /\ torn = {}
  /\ rpc = "idle" /\ hash_idx = 0 /\ rprobe = 0 /\ got = 0

(* The slot at which the k-th probe for h looks. *)
FileIndex(h, k) == (h + k) % HASH_MODULUS

Page == snapshot[va]

(* A pwrite of the page fails, or the tool is killed before it. *)
Tears(kind) ==
  /\ kind \in Failures
  /\ torn' = torn \cup {Page} /\ Cardinality(torn') <= MaxTorn

-----------------------------------------------------------------------------
(* split_snapshot *)
Split(s) ==
  /\ pc \in {"idle", "done"}
  /\ pc' = "page" /\ snapshot' = s /\ va' = 1 /\ left' = {} /\ probe' = 0
  /\ UNCHANGED <<file, torn, reader>>

(* The loop over the pages: the entry in the page table comes before the   *)
(* page, and is not taken back when there is no slot for it.               *)
WriteEntry ==
  /\ pc = "page"
  /\ \/ /\ va > Len(snapshot)
        /\ pc' = "done" /\ UNCHANGED <<page_table, probe>>
     \/ /\ va <= Len(snapshot)
        /\ page_table' = IF va <= Len(page_table) THEN [page_table EXCEPT ![va] = Page]
                                                  ELSE Append(page_table, Page)
        /\ pc' = "probe" /\ probe' = 0
  /\ UNCHANGED <<header, data, snapshot, va, left, torn, reader>>

NextPage == pc' = "page" /\ va' = va + 1 /\ probe' = 0

(* write_page_to_slot, at the slot the tool has come to *)
Slot == FileIndex(Page, probe)

(* An empty slot takes the header, and then the page; the results of the   *)
(* two pwrites are not looked at.                                          *)
TakeSlot ==
  /\ pc = "probe" /\ header[Slot] = 0
  /\ \/ header' = [header EXCEPT ![Slot] = Page] /\ UNCHANGED torn
     \/ Tears("write") /\ UNCHANGED header
  /\ pc' = "data"
  /\ UNCHANGED <<data, page_table, snapshot, va, probe, left, reader>>

(* A slot with this hash_idx is the page. *)
SamePage ==
  /\ pc = "probe" /\ header[Slot] = Page
  /\ NextPage
  /\ UNCHANGED <<file, snapshot, left, torn, reader>>

(* Mutant: the probes stop one slot early. *)
ProbeShort ==
  /\ pc = "probe" /\ header[Slot] \notin {0, Page}
  /\ \/ probe + 2 < MAX_PROBE_COUNT /\ probe' = probe + 1 /\ UNCHANGED <<pc, va, left>>
     \/ probe + 2 >= MAX_PROBE_COUNT /\ NextPage /\ left' = left \cup {Page}
  /\ UNCHANGED <<file, snapshot, torn, reader>>

(* Any other slot is passed over, and after the last there is none. *)
ProbeOn ==
  /\ pc = "probe" /\ header[Slot] \notin {0, Page}
  /\ \/ probe + 1 < MAX_PROBE_COUNT /\ probe' = probe + 1 /\ UNCHANGED <<pc, va, left>>
     \/ probe + 1 = MAX_PROBE_COUNT /\ NextPage /\ left' = left \cup {Page}
  /\ UNCHANGED <<file, snapshot, torn, reader>>

(* The second pwrite. *)
WriteData ==
  /\ pc = "data" /\ NextPage
  /\ \/ data' = [data EXCEPT ![Slot] = Page] /\ UNCHANGED torn
     \/ Tears("write") /\ UNCHANGED data
  /\ UNCHANGED <<header, page_table, snapshot, left, reader>>

Crash ==
  /\ \/ pc \in {"page", "probe"} /\ "crash" \in Failures /\ UNCHANGED torn
     \/ pc = "data" /\ Tears("crash")
  /\ pc' = "idle" /\ snapshot' = <<>> /\ va' = 1 /\ probe' = 0 /\ left' = {}
  /\ UNCHANGED <<file, reader>>

-----------------------------------------------------------------------------
(* A reader, with the hash_idx of an entry of the page table. *)
StartRead(h) ==
  /\ rpc = "idle" /\ \E i \in 1 .. Len(page_table) : page_table[i] = h
  /\ rpc' = "probe" /\ hash_idx' = h /\ rprobe' = 0 /\ got' = 0
  /\ UNCHANGED <<file, tool>>

(* lookup_page_by_hash, and the same loop of snapshot_vma_fault. *)
ReadHeader ==
  LET i == FileIndex(hash_idx, rprobe)
  IN  /\ rpc = "probe"
      /\ \/ header[i] = hash_idx /\ rpc' = "data" /\ UNCHANGED rprobe
         \/ header[i] = 0 /\ rpc' = "not_found" /\ UNCHANGED rprobe
         \/ /\ header[i] \notin {0, hash_idx}
            /\ \/ rprobe + 1 < MAX_PROBE_COUNT /\ rprobe' = rprobe + 1 /\ UNCHANGED rpc
               \/ rprobe + 1 = MAX_PROBE_COUNT /\ rpc' = "not_found" /\ UNCHANGED rprobe
      /\ UNCHANGED <<file, tool, hash_idx, got>>

(* Mutant: the page of the first slot is read, not of the one found. *)
ReadFirstSlot ==
  /\ rpc = "data" /\ rpc' = "found" /\ got' = data[FileIndex(hash_idx, 0)]
  /\ UNCHANGED <<file, tool, hash_idx, rprobe>>

(* The page of the slot: a hole reads as 0, and beyond the end of the file *)
(* the read is short, an error.                                            *)
ReadData ==
  LET i == FileIndex(hash_idx, rprobe)
  IN  /\ rpc = "data"
      /\ \/ rpc' = "found" /\ got' = data[i]
         \/ data[i] = 0 /\ rpc' = "not_found" /\ UNCHANGED got
      /\ UNCHANGED <<file, tool, hash_idx, rprobe>>

EndRead ==
  /\ rpc \in {"found", "not_found"}
  /\ rpc' = "idle" /\ hash_idx' = 0 /\ rprobe' = 0 /\ got' = 0
  /\ UNCHANGED <<file, tool>>

ToolStep == WriteEntry \/ TakeSlot \/ SamePage \/ ProbeOn \/ WriteData \/ Crash
Reader   == ReadHeader \/ ReadData \/ EndRead \/ \E h \in Hashes : StartRead(h)
Next     == ToolStep \/ Reader \/ \E s \in Snapshots : Split(s)
Spec     == Init /\ [][Next]_vars

-----------------------------------------------------------------------------
Probes == 0 .. MAX_PROBE_COUNT - 1

(* What the loop of a reader finds. *)
Found(h) ==
  \E k \in Probes :
    /\ header[FileIndex(h, k)] = h
    /\ \A j \in 0 .. k - 1 : header[FileIndex(h, j)] # 0

(* No page is stored twice, however often and from however many snapshots  *)
(* write_page_to_slot meets it.                                            *)
Deduplicated ==
  \A i, j \in Slots : header[i] = header[j] /\ header[i] # 0 => i = j

(* Every page in the file is one a reader finds: no later page gets into   *)
(* its way.                                                                *)
StoredIsFound == \A i \in Slots : header[i] # 0 => Found(header[i])

(* What a reader finds stays where it is, so a fault that has read the     *)
(* header reads the page of that header.                                   *)
FoundStays == [][\A h \in Hashes : Found(h) => Found(h)']_vars

(* A page is left out only if the slots it may take all hold other pages.  *)
NoRoom(h) == \A k \in Probes : header[FileIndex(h, k)] \notin {0, h}
LeftIsFull == \A h \in left : NoRoom(h)

(* When the tool is done the page of every entry can be found and read,    *)
(* but for pages of which a write was lost and pages whose slots are all   *)
(* taken by other pages.                                                   *)
SplitComplete ==
  pc = "done" =>
    \A i \in 1 .. Len(snapshot) :
      LET h == snapshot[i] IN
        \/ h \in torn \/ NoRoom(h)
        \/ Found(h) /\ \E s \in Slots : header[s] = h /\ data[s] = h

(* A reader beside the tool gets its page, or a hole where the page is not *)
(* yet or never was written.  It gets another page only if that one is in  *)
(* the slot without the header it was to have.                             *)
ReadsOwnPage == rpc = "found" => got \in {hash_idx, 0} \cup torn
=============================================================================
