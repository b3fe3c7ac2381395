--------------------------- MODULE SlotFileProofs ---------------------------
(***************************************************************************)
(* The properties of SlotFile, for every modulus, probe limit, set of      *)
(* snapshots and bound.  The heart is FirstOnPath: a header stands at the  *)
(* first place of its own probe path that was free, and nothing before it  *)
(* on that path is empty or equal to it.                                   *)
(***************************************************************************)
EXTENDS SlotFile, SequenceTheorems, TLAPS

(* The first k probes for h meet neither an empty slot nor h. *)
Path(h, k) == \A j \in 0 .. k - 1 : header[FileIndex(h, j)] \notin {0, h}

ProbedSoFar == pc = "probe" => probe \in Probes /\ Path(Page, probe)

FirstOnPath ==
  \A i \in Slots : header[i] # 0 =>
    \E k \in Probes : FileIndex(header[i], k) = i /\ Path(header[i], k)

(* Before the second pwrite the slot has the header, or never will.        *)
HeaderFirst ==
  pc = "data" => \/ header[Slot] = Page
                 \/ header[Slot] = 0 /\ Page \in torn

(* A slot with a header has its page, but for lost writes and the slot     *)
(* that is being written; and a page is in the slot of its header.         *)
PageOfHeader ==
  \A i \in Slots : header[i] # 0 =>
    \/ data[i] = header[i]
    \/ header[i] \in torn
    \/ pc = "data" /\ i = Slot
HeaderOfPage == \A i \in Slots : data[i] \in {0, header[i]} \cup torn

(* A reader that has found its header is at a slot with that header. *)
ReaderAtPage == rpc = "data" => header[FileIndex(hash_idx, rprobe)] = hash_idx

Stored(h) == h \in left \cup torn \/ \E i \in Slots : header[i] = h /\ data[i] = h

(* The pages before the one the tool is at are stored. *)
StoredSoFar ==
  /\ pc \in {"page", "probe", "data"} =>
       \A i \in 1 .. Len(snapshot) : i < va => Stored(snapshot[i])
  /\ pc = "done" => \A i \in 1 .. Len(snapshot) : Stored(snapshot[i])

IInv ==
  /\ TypeOK /\ ProbedSoFar /\ FirstOnPath /\ LeftIsFull /\ HeaderFirst
  /\ PageOfHeader /\ HeaderOfPage /\ ReadsOwnPage /\ ReaderAtPage /\ StoredSoFar

-----------------------------------------------------------------------------
(* A probe for a page looks at a slot. *)
LEMMA IndexInSlots == \A h \in Hashes, k \in Nat : FileIndex(h, k) \in Slots
BY SlotConstants DEF FileIndex, Slots

(* The page the tool writes is one, and so is the slot it has come to. *)
LEMMA PageAndSlot ==
  ASSUME TypeOK, pc \in {"probe", "data"}
  PROVE  Page \in Hashes /\ Slot \in Slots /\ Page # 0
<1>1. Page \in Hashes
  BY DEF TypeOK, Page
<1>2. Slot \in Slots
  BY <1>1, IndexInSlots DEF Slot, TypeOK
<1> QED BY <1>1, <1>2, SlotConstants

(* No step of any actor changes a header that was written: the tool never  *)
(* takes a page out of pages.bin.                                          *)
LEMMA HeadersKept ==
  ASSUME TypeOK, [Next]_vars
  PROVE  /\ \A i \in Slots : header[i] # 0 => header'[i] = header[i]
         /\ torn \subseteq torn'
<1>1. CASE TakeSlot
  BY <1>1, PageAndSlot DEF TakeSlot, TypeOK, Tears
<1>2. CASE WriteData \/ Crash
  BY <1>2 DEF WriteData, Crash, NextPage, Tears, file
<1>3. CASE WriteEntry \/ SamePage \/ ProbeOn
  BY <1>3 DEF WriteEntry, SamePage, ProbeOn, file
<1>4. CASE Reader \/ UNCHANGED vars
  BY <1>4 DEF Reader, ReadHeader, ReadData, EndRead, StartRead, file, tool, vars
<1>5. CASE \E s \in Snapshots : Split(s)
  BY <1>5 DEF Split, file
<1> QED BY <1>1, <1>2, <1>3, <1>4, <1>5 DEF Next, ToolStep

(* A path once passed is passed ever after. *)
LEMMA PathKept ==
  ASSUME TypeOK, [Next]_vars, NEW h \in Hashes, NEW k \in Nat, Path(h, k)
  PROVE  Path(h, k)'
<1> SUFFICES ASSUME NEW j \in 0 .. k - 1
             PROVE  header'[FileIndex(h, j)] \notin {0, h}
  BY DEF Path, FileIndex
<1>1. FileIndex(h, j) \in Slots
  BY IndexInSlots
<1>2. header[FileIndex(h, j)] \notin {0, h}
  BY DEF Path
<1> QED BY <1>1, <1>2, HeadersKept

(* The types are kept by every step of the tool and of a reader. *)
LEMMA TypeStep == TypeOK /\ [Next]_vars => TypeOK'
<1> SUFFICES ASSUME TypeOK, [Next]_vars PROVE TypeOK'
  OBVIOUS
<1>1. CASE WriteEntry
  <2>1. page_table' \in Seq(Hashes)
    <3>1. CASE va > Len(snapshot)
      BY <1>1, <3>1 DEF WriteEntry, TypeOK
    <3>2. CASE va <= Len(snapshot)
      <4>1. va \in 1 .. Len(snapshot) /\ Page \in Hashes
        BY <1>1, <3>2, LenProperties DEF WriteEntry, TypeOK, Page
      <4>2. CASE va <= Len(page_table)
        <5>1. page_table' = [page_table EXCEPT ![va] = Page] /\ page_table \in Seq(Hashes)
          BY <1>1, <3>2, <4>2 DEF WriteEntry, TypeOK
        <5>2. va \in 1 .. Len(page_table)
          BY <4>1, <4>2, <5>1, LenProperties
        <5> QED BY <4>1, <5>1, <5>2, ExceptSeq
      <4>3. CASE ~(va <= Len(page_table))
        <5>1. page_table' = Append(page_table, Page) /\ page_table \in Seq(Hashes)
          BY <1>1, <3>2, <4>3 DEF WriteEntry, TypeOK
        <5> QED BY <4>1, <5>1, AppendProperties
      <4> QED BY <4>2, <4>3
    <3> QED BY <1>1, <3>1, <3>2 DEF WriteEntry
  <2>2. pc' \in {"done", "probe"} /\ probe' \in Nat
        /\ (pc' = "probe" => va \in 1 .. Len(snapshot))
    BY <1>1, LenProperties DEF WriteEntry, TypeOK
  <2> QED BY <1>1, <2>1, <2>2 DEF WriteEntry, TypeOK, reader
<1>2. CASE TakeSlot
  BY <1>2, PageAndSlot DEF TakeSlot, TypeOK, Tears, reader
<1>3. CASE SamePage
  BY <1>3 DEF SamePage, NextPage, TypeOK, file, reader
<1>4. CASE ProbeOn
  BY <1>4, PageAndSlot DEF ProbeOn, NextPage, TypeOK, file, reader
<1>5. CASE WriteData
  BY <1>5, PageAndSlot DEF WriteData, NextPage, TypeOK, Tears, reader
<1>6. CASE Crash
  BY <1>6, PageAndSlot DEF Crash, TypeOK, Tears, file, reader
<1>7. CASE ReadHeader
  BY <1>7 DEF ReadHeader, TypeOK, file, tool
<1>8. CASE ReadData
  BY <1>8, IndexInSlots DEF ReadData, TypeOK, file, tool
<1>9. CASE EndRead \/ UNCHANGED vars
  BY <1>9 DEF EndRead, TypeOK, file, tool, reader, vars
<1>10. CASE \E h \in Hashes : StartRead(h)
  BY <1>10 DEF StartRead, TypeOK, file, tool
<1>11. CASE \E s \in Snapshots : Split(s)
  BY <1>11, SlotConstants DEF Split, TypeOK, file, reader
<1> QED BY <1>1, <1>2, <1>3, <1>4, <1>5, <1>6, <1>7, <1>8, <1>9, <1>10, <1>11
        DEF Next, ToolStep, Reader

(* What the tool has probed stays probed until it goes to another page. *)
LEMMA ProbedStep == TypeOK /\ TypeOK' /\ ProbedSoFar /\ [Next]_vars => ProbedSoFar'
<1> SUFFICES ASSUME TypeOK, TypeOK', ProbedSoFar, [Next]_vars, pc' = "probe"
             PROVE  probe' \in Probes /\ Path(Page, probe)'
  BY DEF ProbedSoFar
<1>1. CASE WriteEntry
  <2>1. probe' = 0
    BY <1>1 DEF WriteEntry
  <2> QED BY <2>1, SlotConstants DEF Probes, Path
<1>2. CASE ProbeOn
  <2>1. pc = "probe" /\ probe \in Nat /\ probe' = probe + 1 /\ probe + 1 < MAX_PROBE_COUNT
        /\ Page' = Page /\ header' = header
    BY <1>2 DEF ProbeOn, NextPage, Page, TypeOK, file
  <2>2. Path(Page, probe) /\ header[FileIndex(Page, probe)] \notin {0, Page}
    BY <1>2, <2>1 DEF ProbedSoFar, ProbeOn, Slot
  <2>3. Path(Page, probe + 1)
    BY <2>1, <2>2 DEF Path
  <2>4. Path(Page, probe)'
    BY <2>1, <2>3 DEF Path, FileIndex
  <2> QED BY <2>1, <2>4, SlotConstants DEF Probes
<1>3. CASE UNCHANGED tool /\ UNCHANGED header
  BY <1>3 DEF tool, ProbedSoFar, Path, Page, FileIndex
<1>4. CASE Reader \/ UNCHANGED vars
  BY <1>3, <1>4 DEF Reader, ReadHeader, ReadData, EndRead, StartRead, file, vars
<1>5. ~(TakeSlot \/ SamePage \/ WriteData \/ Crash \/ \E s \in Snapshots : Split(s))
  BY DEF TakeSlot, SamePage, WriteData, Crash, Split, NextPage
<1> QED BY <1>1, <1>2, <1>4, <1>5 DEF Next, ToolStep

(* write_page_to_slot puts a header only at the first free slot of the     *)
(* page's path, and paths stay passed: the table stays one that linear     *)
(* probing can read.                                                       *)
LEMMA FirstStep ==
  TypeOK /\ TypeOK' /\ ProbedSoFar /\ FirstOnPath /\ [Next]_vars => FirstOnPath'
<1> SUFFICES ASSUME TypeOK, TypeOK', ProbedSoFar, FirstOnPath, [Next]_vars,
                    NEW i \in Slots, header'[i] # 0
             PROVE  \E k \in Probes : FileIndex(header'[i], k) = i /\ Path(header[i], k)'
  BY DEF FirstOnPath, Slots, Probes, FileIndex
<1>1. CASE header[i] # 0
  <2>1. header'[i] = header[i] /\ header[i] \in Hashes
    BY <1>1, HeadersKept DEF TypeOK
  <2>2. PICK k \in Probes : FileIndex(header[i], k) = i /\ Path(header[i], k)
    BY <1>1 DEF FirstOnPath
  <2>3. k \in Nat
    BY DEF Probes
  <2>4. \A h \in Hashes : Path(h, k) => Path(h, k)'
    BY <2>3, PathKept
  <2>5. Path(header[i], k)'
    BY <2>1, <2>2, <2>4 DEF Path
  <2> QED BY <2>1, <2>2, <2>5
<1>2. CASE header[i] = 0
  <2>1. TakeSlot /\ i = Slot /\ header'[i] = Page
    <3>1. CASE TakeSlot
      BY <1>2, <3>1, PageAndSlot DEF TakeSlot, TypeOK
    <3>2. CASE ~TakeSlot
      <4>1. header' = header
        BY <3>2 DEF Next, ToolStep, Reader, WriteEntry, SamePage, ProbeOn, WriteData, Crash,
                    ReadHeader, ReadData, EndRead, StartRead, Split, file, vars
      <4> QED BY <1>2, <4>1
    <3> QED BY <3>1, <3>2
  <2>2. pc = "probe" /\ probe \in Probes /\ Path(Page, probe) /\ Page \in Hashes
    BY <2>1, PageAndSlot DEF TakeSlot, ProbedSoFar
  <2>3. \A h \in Hashes : Path(h, probe) => \A j \in 0 .. probe - 1 :
                                              header'[FileIndex(h, j)] \notin {0, h}
    BY IndexInSlots, HeadersKept DEF Path
  <2>4. probe' = probe
    BY <2>1 DEF TakeSlot
  <2>5. \A j \in 0 .. probe - 1 : header'[FileIndex(header'[i], j)] \notin {0, header'[i]}
    BY <2>1, <2>2, <2>3
  <2>6. FileIndex(header'[i], probe) = i
    BY <2>1 DEF Slot
  <2> QED BY <2>2, <2>5, <2>6 DEF Path, FileIndex
<1> QED BY <1>1, <1>2

(* A page for which there was no slot has its whole path taken by others.  *)
LEMMA LeftStep ==
  TypeOK /\ ProbedSoFar /\ LeftIsFull /\ [Next]_vars => LeftIsFull'
<1> SUFFICES ASSUME TypeOK, ProbedSoFar, LeftIsFull, [Next]_vars,
                    NEW h \in left', NEW k \in Probes
             PROVE  header'[FileIndex(h, k)] \notin {0, h}
  BY DEF LeftIsFull, NoRoom, Probes, FileIndex
<1>1. h \in Hashes /\ k \in Nat /\ (h \in left \/ (ProbeOn /\ h = Page /\ probe + 1 = MAX_PROBE_COUNT))
  <2>1. CASE ProbeOn
    BY <2>1, PageAndSlot DEF ProbeOn, TypeOK, Probes
  <2>2. CASE ~ProbeOn
    <3>1. left' \subseteq left
      BY <2>2 DEF Next, ToolStep, Reader, WriteEntry, TakeSlot, SamePage, WriteData, Crash,
                  ReadHeader, ReadData, EndRead, StartRead, Split, tool, vars
    <3> QED BY <3>1 DEF TypeOK, Probes
  <2> QED BY <2>1, <2>2
<1>2. FileIndex(h, k) \in Slots
  BY <1>1, IndexInSlots
<1>3. header[FileIndex(h, k)] \notin {0, h}
  <2>1. CASE h \in left
    BY <2>1 DEF LeftIsFull, NoRoom
  <2>2. CASE ProbeOn /\ h = Page /\ probe + 1 = MAX_PROBE_COUNT
    <3>1. Path(Page, probe) /\ header[FileIndex(Page, probe)] \notin {0, Page} /\ probe \in Nat
      BY <2>2 DEF ProbeOn, ProbedSoFar, Slot, TypeOK
    <3>2. k \in 0 .. probe - 1 \/ k = probe
      BY <2>2, <3>1 DEF Probes
    <3> QED BY <2>2, <3>1, <3>2 DEF Path
  <2> QED BY <1>1, <2>1, <2>2
<1> QED BY <1>2, <1>3, HeadersKept

PagesInv == HeaderFirst /\ PageOfHeader /\ HeaderOfPage

(* Which page is in which slot, over the two pwrites, their failures and a *)
(* crash between them.                                                     *)
LEMMA PagesStep == TypeOK /\ TypeOK' /\ PagesInv /\ [Next]_vars => PagesInv'
<1> SUFFICES ASSUME TypeOK, TypeOK', PagesInv, [Next]_vars PROVE PagesInv'
  OBVIOUS
<1> USE DEF PagesInv, HeaderFirst, PageOfHeader, HeaderOfPage
<1>1. CASE TakeSlot
  <2>1. Page' = Page /\ Slot' = Slot /\ Page \in Hashes /\ Slot \in Slots /\ Page # 0
    BY <1>1, PageAndSlot DEF TakeSlot, Page, Slot, FileIndex
  <2> QED BY <1>1, <2>1 DEF TakeSlot, Tears, TypeOK
<1>2. CASE WriteData
  <2>1. Page \in Hashes /\ Slot \in Slots /\ Page # 0
    BY <1>2, PageAndSlot DEF WriteData
  <2> QED BY <1>2, <2>1 DEF WriteData, NextPage, Tears, TypeOK
<1>3. CASE Crash
  BY <1>3, PageAndSlot DEF Crash, Tears, file, TypeOK
<1>4. CASE WriteEntry \/ SamePage \/ ProbeOn
  <2>1. pc # "data" /\ pc' # "data" /\ UNCHANGED <<header, data, torn>>
    BY <1>4 DEF WriteEntry, SamePage, ProbeOn, NextPage, file
  <2> QED BY <2>1
<1>5. CASE \E s \in Snapshots : Split(s)
  <2>1. pc # "data" /\ pc' # "data" /\ UNCHANGED <<header, data, torn>>
    BY <1>5 DEF Split, file
  <2> QED BY <2>1
<1>6. CASE Reader \/ UNCHANGED vars
  <2>1. UNCHANGED <<file, tool>>
    BY <1>6 DEF Reader, ReadHeader, ReadData, EndRead, StartRead, vars
  <2> QED BY <2>1 DEF file, tool, Page, Slot, FileIndex
<1> QED BY <1>1, <1>2, <1>3, <1>4, <1>5, <1>6 DEF Next, ToolStep

ReaderInv == ReaderAtPage /\ ReadsOwnPage

(* What a reader has found does not move before it reads the page. *)
LEMMA ReaderStep == TypeOK /\ HeaderOfPage /\ ReaderInv /\ [Next]_vars => ReaderInv'
<1> SUFFICES ASSUME TypeOK, HeaderOfPage, ReaderInv, [Next]_vars PROVE ReaderInv'
  OBVIOUS
<1> USE DEF ReaderInv, ReaderAtPage, ReadsOwnPage
<1>0. \A h \in Hashes, k \in Nat : header[FileIndex(h, k)] = h => header'[FileIndex(h, k)] = h
  BY IndexInSlots, HeadersKept, SlotConstants
<1>1. CASE ReadHeader
  BY <1>1 DEF ReadHeader, file, TypeOK, FileIndex
<1>2. CASE ReadData
  <2>1. FileIndex(hash_idx, rprobe) \in Slots /\ header[FileIndex(hash_idx, rprobe)] = hash_idx
    BY <1>2, IndexInSlots DEF ReadData, TypeOK
  <2>2. data[FileIndex(hash_idx, rprobe)] \in {hash_idx, 0} \cup torn
    BY <2>1 DEF HeaderOfPage
  <2> QED BY <1>2, <2>2 DEF ReadData, tool
<1>3. CASE EndRead \/ \E h \in Hashes : StartRead(h)
  BY <1>3 DEF EndRead, StartRead
<1>4. CASE UNCHANGED reader
  <2>1. rpc = "data" => hash_idx \in Hashes /\ rprobe \in Nat
    BY DEF TypeOK
  <2>2. ReaderAtPage'
    BY <1>0, <1>4, <2>1 DEF reader, FileIndex
  <2>3. ReadsOwnPage'
    BY <1>4, HeadersKept DEF reader
  <2> QED BY <2>2, <2>3
<1>5. CASE ToolStep \/ (\E s \in Snapshots : Split(s)) \/ UNCHANGED vars
  BY <1>4, <1>5 DEF ToolStep, WriteEntry, TakeSlot, SamePage, ProbeOn, WriteData, Crash, Split, vars
<1> QED BY <1>1, <1>2, <1>3, <1>5 DEF Next, Reader

(* A page that is stored stays so, until the tool begins again and forgets *)
(* which pages it found no slot for.                                       *)
LEMMA StoredKept ==
  ASSUME TypeOK, PagesInv, [Next]_vars, left \subseteq left', NEW h \in Hashes, Stored(h)
  PROVE  Stored(h)'
<1>1. CASE h \in left \cup torn
  BY <1>1, HeadersKept DEF Stored
<1>2. CASE \E i \in Slots : header[i] = h /\ data[i] = h
  <2>1. PICK i \in Slots : header[i] = h /\ data[i] = h
    BY <1>2
  <2>2. header'[i] = h
    BY <2>1, HeadersKept, SlotConstants
  <2>3. data'[i] = h
    <3>1. CASE WriteData
      <4>1. i = Slot => header[i] = Page
        BY <2>1, <3>1, SlotConstants DEF WriteData, PagesInv, HeaderFirst
      <4> QED BY <2>1, <3>1, <4>1 DEF WriteData, TypeOK
    <3>2. CASE ~WriteData
      <4>1. data' = data
        BY <3>2 DEF Next, ToolStep, Reader, WriteEntry, TakeSlot, SamePage, ProbeOn, Crash,
                    ReadHeader, ReadData, EndRead, StartRead, Split, file, vars
      <4> QED BY <2>1, <4>1
    <3> QED BY <3>1, <3>2
  <2> QED BY <2>2, <2>3 DEF Stored, Slots
<1> QED BY <1>1, <1>2 DEF Stored

(* The tool goes on to the next page with the last one stored. *)
LEMMA StoredStep ==
  TypeOK /\ PagesInv /\ PagesInv' /\ StoredSoFar /\ [Next]_vars => StoredSoFar'
<1> SUFFICES ASSUME TypeOK, PagesInv, PagesInv', StoredSoFar, [Next]_vars PROVE StoredSoFar'
  OBVIOUS
<1>0. Len(snapshot) \in Nat /\ \A i \in 1 .. Len(snapshot) : snapshot[i] \in Hashes
  BY LenProperties, ElementOfSeq DEF TypeOK
<1>1. ASSUME left \subseteq left' PROVE \A h \in Hashes : Stored(h) => Stored(h)'
  BY <1>1, StoredKept
<1>2. CASE WriteEntry
  <2>1. left \subseteq left' /\ snapshot' = snapshot /\ va' = va /\ pc = "page"
        /\ pc' \in {"done", "probe"} /\ (pc' = "done" => va > Len(snapshot))
    BY <1>2 DEF WriteEntry
  <2>2. \A i \in 1 .. Len(snapshot) : i < va => \E h \in Hashes : h = snapshot[i] /\ Stored(h)'
    BY <1>0, <1>1, <2>1 DEF StoredSoFar
  <2>3. ASSUME pc' = "done", NEW i \in 1 .. Len(snapshot) PROVE i < va
    BY <1>0, <2>1, <2>3 DEF TypeOK
  <2> QED BY <2>1, <2>2, <2>3 DEF StoredSoFar, Stored
<1>3. CASE TakeSlot \/ (ProbeOn /\ pc' = "probe")
  <2>1. left \subseteq left' /\ snapshot' = snapshot /\ va' = va /\ pc = "probe"
        /\ pc' \in {"probe", "data"}
    BY <1>3 DEF TakeSlot, ProbeOn, NextPage
  <2>2. \A i \in 1 .. Len(snapshot) : i < va => \E h \in Hashes : h = snapshot[i] /\ Stored(h)'
    BY <1>0, <1>1, <2>1 DEF StoredSoFar
  <2> QED BY <2>1, <2>2 DEF StoredSoFar, Stored
<1>4. CASE SamePage \/ WriteData \/ (ProbeOn /\ pc' = "page")
  <2>1. /\ left \subseteq left' /\ snapshot' = snapshot /\ va' = va + 1 /\ pc' = "page"
        /\ pc \in {"probe", "data"} /\ va \in 1 .. Len(snapshot)
    BY <1>4 DEF SamePage, WriteData, ProbeOn, NextPage, TypeOK
  <2>2. Page \in Hashes /\ Slot \in Slots /\ Page # 0
    BY <2>1, PageAndSlot
  <2>3. \A h \in Hashes : h = Page => Stored(h)'
    <3>1. CASE SamePage
      BY <2>2, <3>1 DEF SamePage, NextPage, file, Stored, PagesInv, PageOfHeader
    <3>2. CASE WriteData
      <4>1. Page \in torn' \/ (header'[Slot] = Page /\ data'[Slot] = Page)
        BY <2>2, <3>2 DEF WriteData, Tears, PagesInv, HeaderFirst, TypeOK
      <4> QED BY <2>2, <4>1 DEF Stored, Slots
    <3>3. CASE ProbeOn /\ pc' = "page"
      BY <3>3 DEF ProbeOn, Stored
    <3> QED BY <1>4, <3>1, <3>2, <3>3
  <2>4. \A i \in 1 .. Len(snapshot) : i < va + 1 => \E h \in Hashes : h = snapshot[i] /\ Stored(h)'
    <3> TAKE i \in 1 .. Len(snapshot)
    <3> HAVE i < va + 1
    <3>1. CASE i = va
      BY <2>2, <2>3, <3>1 DEF Page
    <3>2. CASE i < va
      BY <1>0, <1>1, <2>1, <3>2 DEF StoredSoFar
    <3> QED BY <2>1, <3>1, <3>2
  <2> QED BY <2>1, <2>4 DEF StoredSoFar, Stored
<1>5. CASE Crash \/ \E s \in Snapshots : Split(s)
  <2>1. pc' = "idle" \/ (pc' = "page" /\ va' = 1)
    BY <1>5 DEF Crash, Split
  <2> QED BY <2>1 DEF StoredSoFar
<1>6. CASE Reader \/ UNCHANGED vars
  <2>1. UNCHANGED <<file, tool>>
    BY <1>6 DEF Reader, ReadHeader, ReadData, EndRead, StartRead, vars
  <2> QED BY <2>1 DEF file, tool, StoredSoFar, Stored, Slots
<1>7. ProbeOn => pc' \in {"probe", "page"}
  BY DEF ProbeOn, NextPage
<1> QED BY <1>2, <1>3, <1>4, <1>5, <1>6, <1>7 DEF Next, ToolStep

-----------------------------------------------------------------------------
(* IInv is inductive. *)
THEOREM Inductive == Spec => []IInv
<1>1. Init => IInv
  BY SlotConstants, EmptySeq
  DEF Init, IInv, TypeOK, ProbedSoFar, FirstOnPath, LeftIsFull, NoRoom, HeaderFirst, PageOfHeader,
      HeaderOfPage, ReadsOwnPage, ReaderAtPage, StoredSoFar
<1>2. IInv /\ [Next]_vars => IInv'
  BY TypeStep, ProbedStep, FirstStep, LeftStep, PagesStep, ReaderStep, StoredStep
  DEF IInv, PagesInv, ReaderInv
<1> QED BY <1>1, <1>2, PTL DEF Spec

(* In the order of the probes a page stands once: of two slots with the    *)
(* same header one would be on the path to the other.                      *)
LEMMA OnePlace == TypeOK /\ FirstOnPath => Deduplicated
<1> SUFFICES ASSUME TypeOK, FirstOnPath, NEW i \in Slots, NEW j \in Slots,
                    header[i] = header[j], header[i] # 0
             PROVE  i = j
  BY DEF Deduplicated
<1>1. PICK k \in Probes : FileIndex(header[i], k) = i /\ Path(header[i], k)
  BY DEF FirstOnPath
<1>2. PICK l \in Probes : FileIndex(header[j], l) = j /\ Path(header[j], l)
  BY DEF FirstOnPath
<1>3. k \in Int /\ l \in Int /\ k >= 0 /\ l >= 0
  BY DEF Probes
<1>4. CASE k < l
  BY <1>1, <1>2, <1>3, <1>4 DEF Path
<1>5. CASE l < k
  BY <1>1, <1>2, <1>3, <1>5 DEF Path
<1>6. CASE k = l
  BY <1>1, <1>2, <1>6
<1> QED BY <1>3, <1>4, <1>5, <1>6

(* A reader's loop finds every header. *)
LEMMA HeaderFound ==
  ASSUME FirstOnPath, NEW i \in Slots, header[i] # 0
  PROVE  Found(header[i])
BY DEF FirstOnPath, Found, Path

(* No page is stored twice in pages.bin, for every modulus, probe limit    *)
(* and set of snapshots, over crashes and lost writes.                     *)
THEOREM DeduplicatedHolds == Spec => []Deduplicated
BY Inductive, OnePlace, PTL DEF IInv

(* Every page stored in pages.bin is found by the loop of the driver's     *)
(* fault handler and of query_snapshot.                                    *)
THEOREM StoredIsFoundHolds == Spec => []StoredIsFound
<1>1. IInv => StoredIsFound
  BY HeaderFound DEF IInv, StoredIsFound
<1> QED BY <1>1, Inductive, PTL

(* write_page_to_slot gives up only when the slots it may use are taken.   *)
THEOREM LeftIsFullHolds == Spec => []LeftIsFull
BY Inductive, PTL DEF IInv

(* A reader beside split_snapshot gets its own page or a hole, but for     *)
(* pages that lost a write.                                                *)
THEOREM ReadsOwnPageHolds == Spec => []ReadsOwnPage
BY Inductive, PTL DEF IInv

(* When split_snapshot has ended the page of every entry can be read, but  *)
(* for those with no free slot or with a lost write.                       *)
THEOREM SplitCompleteHolds == Spec => []SplitComplete
<1>1. IInv => SplitComplete
  <2> SUFFICES ASSUME IInv, pc = "done", NEW i \in 1 .. Len(snapshot),
                      snapshot[i] \notin torn, ~NoRoom(snapshot[i])
               PROVE  Found(snapshot[i]) /\ \E s \in Slots : header[s] = snapshot[i]
                                                           /\ data[s] = snapshot[i]
    BY DEF SplitComplete
  <2>1. snapshot[i] \in Hashes /\ snapshot[i] # 0
    BY ElementOfSeq, SlotConstants DEF IInv, TypeOK
  <2>2. PICK s \in Slots : header[s] = snapshot[i] /\ data[s] = snapshot[i]
    BY DEF IInv, StoredSoFar, Stored, LeftIsFull
  <2>3. Found(header[s])
    BY <2>1, <2>2, HeaderFound DEF IInv
  <2> QED BY <2>2, <2>3
<1> QED BY <1>1, Inductive, PTL

(* A page that can be found can be found ever after, whatever is split     *)
(* into the same file.                                                     *)
THEOREM FoundStaysHolds == Spec => FoundStays
<1>1. TypeOK /\ [Next]_vars => [\A h \in Hashes : Found(h) => Found(h)']_vars
  <2> SUFFICES ASSUME TypeOK, [Next]_vars, NEW h \in Hashes, Found(h)
               PROVE  Found(h)'
    OBVIOUS
  <2>1. PICK k \in Probes : /\ header[FileIndex(h, k)] = h
                            /\ \A j \in 0 .. k - 1 : header[FileIndex(h, j)] # 0
    BY DEF Found
  <2>2. k \in Nat /\ h # 0
    BY SlotConstants DEF Probes
  <2>3. \A j \in Nat : header[FileIndex(h, j)] # 0 =>
                        header'[FileIndex(h, j)] = header[FileIndex(h, j)]
    BY IndexInSlots, HeadersKept
  <2>4. /\ header'[FileIndex(h, k)] = h
        /\ \A j \in 0 .. k - 1 : header'[FileIndex(h, j)] # 0
    BY <2>1, <2>2, <2>3
  <2> QED BY <2>4 DEF Found, FileIndex, Probes
<1> QED BY <1>1, Inductive, PTL DEF IInv, Spec, FoundStays
=============================================================================
