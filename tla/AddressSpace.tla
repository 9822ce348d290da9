---------------------------- MODULE AddressSpace ----------------------------
(***************************************************************************)
(* Address spaces of tasks (vm.c, anonmap.c) and the page tables behind    *)
(* them (arch/x86/paging.c): building a space from an executable, the      *)
(* regions of the kernel every space has, growing the data segment (brk),  *)
(* mapping messages, page faults, and destroying the space.  The kernel    *)
(* makes the first space, its own, as it starts.                           *)
(*                                                                         *)
(* Addresses are words: a page has PageSize of them and addresses wrap at  *)
(* Width.  Each step is a whole call of the kernel, which computes on k,   *)
(* the record of all the state: ret is what the last function returned (0  *)
(* or -1), mem the number of objects the heap still gives.  A call that    *)
(* the code does not survive sets k.failure and nothing follows it.        *)
(***************************************************************************)
EXTENDS Elf

CONSTANTS Spaces,         \* address spaces that may exist at a time
          Frames,         \* physical pages the allocator has, positive
          Foreign,        \* physical pages of message bodies
          PagesPerTable,
          KernelRanges,   \* sequence of [start, pages, phys] all spaces have
          PhysRanges,     \* the regions of physical memory, mapped where they are
          BootStack,      \* the stack the kernel starts with
          IoRanges, Video, \* ranges that are no memory, mapped where they are
          MsgqVremap,     \* [start, pages]: where the kernel maps messages
          KernelVremap,   \* [start, pages, map]: the shared, persistent region
          UserVremap,     \* [start, pages]: where messages are mapped
          StackBottom, StackPages,
          Vdso, VdsoBase, \* the file of the only ABI in the initial ram disk
          Executables,    \* of each space, the files it may be built from
          Heap            \* bound on what the heap gives to one call

VARIABLE k

Kernel == "kernel"
AllSpaces == Spaces \cup {Kernel}
Starts == {a \in 0 .. Width - 1 : a % PageSize = 0}

ASSUME MachineAssumption ==
  /\ PageSize \in Nat /\ PageSize > 1 /\ Pages \in Nat \ {0} /\ PagesPerTable \in Nat \ {0}
  /\ Frames \subseteq Nat \ {0} /\ Frames \cap Foreign = {}
  /\ Kernel \notin Spaces

\* The ranges the kernel is built for are pages of the address space.
InSpace(r) == r.start \in Starts /\ r.pages \in 1 .. Pages - 1 /\ r.start + r.pages * PageSize <= Width
ASSUME RangesAssumption ==
  /\ KernelRanges \in Seq([start : Starts, pages : 1 .. Pages, phys : Nat])
  /\ PhysRanges \in Seq([start : Starts, pages : 1 .. Pages])
  /\ IoRanges \in Seq([start : Starts, pages : 1 .. Pages])
  /\ \A i \in DOMAIN KernelRanges : InSpace(KernelRanges[i])
  /\ \A i \in DOMAIN PhysRanges : InSpace(PhysRanges[i])
  /\ \A i \in DOMAIN IoRanges : InSpace(IoRanges[i])
  /\ InSpace(BootStack) /\ InSpace(Video)
  /\ InSpace(MsgqVremap) /\ InSpace(KernelVremap) /\ InSpace(UserVremap)
  /\ \A o \in DOMAIN KernelVremap.map : o \in 0 .. KernelVremap.pages - 1
  /\ StackPages \in Nat \ {0} /\ StackBottom \in 0 .. Width
  /\ StackBottom - StackPages * PageSize \in Starts \ {0}

\* The map of the boot loader has no piece of memory twice.
ASSUME MemoryAssumption ==
  \A i, j \in DOMAIN PhysRanges :
    i # j => \/ PhysRanges[i].start + PhysRanges[i].pages * PageSize <= PhysRanges[j].start
             \/ PhysRanges[j].start + PhysRanges[j].pages * PageSize <= PhysRanges[i].start

\* What the headers of a file and its relocations hold are addresses and sizes
\* of the machine.
Files == {Vdso} \cup UNION {Executables[s] : s \in Spaces}
Word == 0 .. Width - 1
ASSUME FilesAssumption ==
  /\ VdsoBase \in Starts
  /\ \A file \in Files :
       /\ file.phdrs \in Seq([type : STRING, vaddr : Word, offset : Word, filesz : Word,
                              memsz : Word, x : BOOLEAN])
       /\ \A i \in DOMAIN file.phdrs : file.phdrs[i].type = "dynamic" =>
            LET tags == file.tags[file.phdrs[i].offset] IN DOMAIN tags = 1 .. Len(tags) /\ Len(tags) \in Nat
       /\ LET rels == Relocations(Open(file)) IN
          Open(file).ok => /\ Len(rels) \in Nat /\ DOMAIN rels = 1 .. Len(rels)
                           /\ \A i \in DOMAIN rels : rels[i].off \in Word

Units(n) == (n + PageSize - 1) \div PageSize
NoPages == << >>
NoEntry == [phys |-> 0, present |-> FALSE]
\* unmapped: a page table could not be allocated; base, top: bounds of the image
NoSpace == [phase |-> "none", unmapped |-> FALSE, base |-> 0, top |-> 0, regions |-> << >>, dir |-> 0,
            tables |-> [g \in 0 .. (Pages - 1) \div PagesPerTable |-> 0],
            entry |-> [p \in 0 .. Pages - 1 |-> NoEntry]]

Init == k = [free |-> Frames, mem |-> 0, ret |-> 0, failure |-> "none",
             new |-> << >>,        \* the region a constructor returned
             words |-> [f \in Frames |-> [i \in 0 .. PageSize - 1 |-> Undefined]],
             space |-> [s \in AllSpaces |-> NoSpace],
             exec |-> [s \in AllSpaces |-> << >>]]   \* history: the words a task must see

Going(x) == x.ret = 0 /\ x.failure = "none"
Then(x, f(_)) == IF Going(x) THEN f(x) ELSE x
Else(x, f(_)) == IF x.failure = "none" /\ x.ret = -1 THEN [f(x) EXCEPT !.ret = -1] ELSE x
Failing(x, how) == [x EXCEPT !.failure = IF @ = "none" THEN how ELSE @]
HeapAlloc(x) == IF x.mem = 0 THEN [x EXCEPT !.ret = -1] ELSE [x EXCEPT !.mem = @ - 1]
\* MANDATORY: a failure is a panic
Mandatory(x) == IF x.ret # 0 THEN Failing(x, "panic") ELSE x
FirstFree(x) == CHOOSE f \in x.free : \A g \in x.free : f <= g

\* f for each element of seq, while it returns 0
Turn(y, e, f(_, _)) == IF Going(y) THEN f(y, e) ELSE y
Each(x, seq, f(_, _)) ==
  LET after[i \in 0 .. Len(seq)] == IF i = 0 THEN x ELSE Turn(after[i - 1], seq[i], f)
  IN  after[Len(seq)]

\* page_free of pages that are in use, and only those
FreeFrames(x, F) ==
  IF F \cap Foreign # {} THEN Failing(x, "freed_page_of_message")
  ELSE IF F \cap x.free # {} THEN Failing(x, "freed_twice")
  ELSE [x EXCEPT !.free = @ \cup F,
                 !.words = [f \in Frames |-> IF f \in F THEN [i \in 0 .. PageSize - 1 |-> Undefined]
                                             ELSE @[f]]]

-----------------------------------------------------------------------------
(* Page tables                                                             *)

\* x86_prepare_page_table
PrepareTable(x, s, page) ==
  LET g == page \div PagesPerTable IN
  IF x.space[s].tables[g] # 0 THEN x
  ELSE IF x.free = {} THEN [x EXCEPT !.ret = -1]
  ELSE [x EXCEPT !.space[s].tables[g] = FirstFree(x), !.free = @ \ {FirstFree(x)}]

\* x86_pagedir_map_range writes entries from the address virt: the table is
\* looked for at the first page and where a new table begins.
MapEntry(x, s, page, entry) ==
  Then(IF page % PagesPerTable = 0 THEN PrepareTable(x, s, page) ELSE x,
       LAMBDA y : [y EXCEPT !.space[s].entry[page] = entry])
MapRange(x, s, virt, entries) ==
  LET first == virt \div PageSize
  IN  Each(PrepareTable(x, s, first), [i \in DOMAIN entries |-> i],
           LAMBDA y, i : MapEntry(y, s, (first + i - 1) % Pages, entries[i]))

-----------------------------------------------------------------------------
(* Page sets: the pages of a region and those that are present             *)

\* vm_page_set_put
PutPage(pages, o, f) ==
  [i \in DOMAIN pages \cup {o} |-> IF i = o THEN [phys |-> f, present |-> TRUE] ELSE pages[i]]

\* vm_page_set_translate
PageIn(pages, o) == IF o \in DOMAIN pages /\ pages[o].present THEN pages[o].phys ELSE 0

\* vm_update_region, whose result no caller looks at.  Without a page for the
\* page directory the tables are written at address 0.
WithDirectory(x, s) ==
  IF x.space[s].dir # 0 THEN x
  ELSE IF x.free = {} THEN Failing(x, "null_page_directory")
  ELSE [x EXCEPT !.space[s].dir = FirstFree(x), !.free = @ \ {FirstFree(x)}]

Ignoring(x, s) == IF x.ret = -1 THEN [x EXCEPT !.ret = 0, !.space[s].unmapped = TRUE] ELSE x

\* vm_page_set_walk visits pages in their order.
MapIn(x, s, r, o) ==
  IF o \in DOMAIN r.pages THEN MapRange(x, s, At(r.start + o * PageSize), <<r.pages[o]>>) ELSE x
MapPages(x, s, r) == Each(x, [i \in 1 .. Pages |-> i - 1], LAMBDA y, o : MapIn(y, s, r, o))

UpdateRegion(x, s, r) ==
  Ignoring(IF r.type = "RANGEMAP"
           THEN Then(WithDirectory(x, s), LAMBDA y :
                  MapRange(y, s, r.start, [i \in 1 .. Units(At(r.end - r.start + 1)) |->
                                             [phys |-> r.phys + i - 1, present |-> TRUE]]))
           ELSE MapPages(WithDirectory(x, s), s, r),
           s)

-----------------------------------------------------------------------------
(* Regions                                                                 *)

Region(start, n, type, ops) ==
  [start |-> start, end |-> At(start + n * PageSize - 1), type |-> type,
   ops |-> ops, role |-> "USERMAP", phys |-> 0, pages |-> NoPages]

\* rbtree_search LEFTWARDS and RIGHTWARDS
Leftwards(R, a) == {b \in DOMAIN R : b <= a /\ \A c \in DOMAIN R : c <= a => c <= b}
Rightwards(R, a) == {b \in DOMAIN R : b >= a /\ \A c \in DOMAIN R : c >= a => c >= b}

\* Mutant: a region that begins inside the range is not looked for.
OverlapsLeft(R, start, n) == \E b \in Leftwards(R, start) : start <= R[b].end

\* vm_space_find_first_in_range finds a region
Overlaps(R, start, n) ==
  \/ \E b \in Leftwards(R, start) : start <= R[b].end
  \/ \E b \in Rightwards(R, start) : b < At(start + n * PageSize - 1)

\* vm_space_find_region
FindRegion(R, a) == {b \in Leftwards(R, a) : R[b].start <= a /\ a <= R[b].end}

\* vm_space_overlap_region
OverlapRegion(x, s, r) ==
  Then(HeapAlloc(x), LAMBDA y :
    UpdateRegion([y EXCEPT !.space[s].regions =
                    [b \in DOMAIN @ \cup {r.start} |-> IF b = r.start THEN r ELSE @[b]]],
                 s, r))

\* vm_space_add_region
AddRegion(x, s, r) ==
  IF Overlaps(x.space[s].regions, r.start, At(r.end + 1 - r.start) \div PageSize)
  THEN [x EXCEPT !.ret = -1]
  ELSE OverlapRegion(x, s, r)

\* vm_space_find_region_by_role
DataRegions(R) == {b \in DOMAIN R : R[b].role = "DATASEG"}
DataRegion(R) == CHOOSE b \in DataRegions(R) : \A c \in DataRegions(R) : b <= c

\* vm_region_destroy: a page set goes with all its pages, also those that are
\* not present any more.
PagesOf(r) == {r.pages[o].phys : o \in DOMAIN r.pages}
Persistent(r) == r.ops = "vremap_kernel"       \* vremap_prevent_destroy
DestroyRegion(x, r) ==
  IF Persistent(r) \/ r.type # "PAGEMAP" THEN x ELSE FreeFrames(x, PagesOf(r))

\* __alloc_colored for pages of x.new.  When a page or the node for it is
\* missing, the loop that gives the pages back counts an unsigned index down
\* and never ends.
AllocPage(x, o) ==
  IF x.free = {} \/ (DOMAIN x.new.pages = {} /\ x.mem = 0) THEN Failing(x, "hang")
  ELSE [x EXCEPT !.mem = IF DOMAIN x.new.pages = {} THEN @ - 1 ELSE @,
                 !.new.pages = PutPage(@, o, FirstFree(x)),
                 !.free = @ \ {FirstFree(x)}]
AllocColored(x, from, n) == Each(x, [i \in 1 .. n |-> from + i - 1], AllocPage)

\* kernel_object_instance_task: when only the reference cannot be had, the
\* destructor of the new object has freed the data its caller frees again.
Instance(x) ==
  Then(HeapAlloc(x), LAMBDA y : LET z == HeapAlloc(y) IN
                                IF z.ret = -1 THEN Failing(z, "freed_twice") ELSE z)

\* vm_region_anonmap
AnonMap(x, start, n) ==
  LET x1 == Then(HeapAlloc(x), HeapAlloc)   \* page set, region
      x2 == Then(x1, Instance)
  IN  Then(x2, LAMBDA y : AllocColored([y EXCEPT !.new = Region(start, n, "PAGEMAP", "anon")],
                                       0, n))

\* vm_region_remap, and vm_region_physmap and vm_region_iomap when phys is virt
Remap(x, start, n, phys) ==
  Then(HeapAlloc(x), LAMBDA y :
         [y EXCEPT !.new = [Region(start, n, "RANGEMAP", "kernel") EXCEPT !.phys = phys]])
MapInPlace(x, r) == Remap(x, r.start, r.pages, r.start \div PageSize)

\* vm_region_stack
StackRegion(x) ==
  Then(AnonMap(x, StackBottom - StackPages * PageSize, StackPages),
       LAMBDA y : [y EXCEPT !.new.role = "STACK"])

\* vm_region_vremap_new: the page set, the list of free chunks with one chunk
\* in it, the region and the object of the page set
VremapNew(x, r, ops) ==
  LET x1 == Then(Then(Then(Then(x, HeapAlloc), HeapAlloc), HeapAlloc), HeapAlloc)
  IN  Then(Then(x1, Instance), LAMBDA y : [y EXCEPT !.new = Region(r.start, r.pages, "PAGEMAP", ops)])

\* anonmap_resize of r, which starts where it did, to n pages.  It does not
\* shrink.
AnonResize(x, r, n) ==
  LET size == Units(At(r.end - r.start + 1)) IN
  IF n = size THEN x
  ELSE IF n < size THEN [x EXCEPT !.ret = -1]
  ELSE AllocColored([x EXCEPT !.new = r], size, n - size)

\* vm_region_resize for the region at start in s, the beginning of which its
\* only caller keeps.
Resize(x, s, start, n) ==
  LET R    == x.space[s].regions
      past == {b \in DOMAIN R : b > start /\ \A c \in DOMAIN R : c > start => c >= b}
      y    == AnonResize([x EXCEPT !.new = R[start]], R[start], n)
      grown == [y.new EXCEPT !.end = At(start + n * PageSize - 1)]
  IN  CASE At(start + n * PageSize) < start -> [x EXCEPT !.ret = -1]
        [] \E b \in past : b < start + n * PageSize -> [x EXCEPT !.ret = -1]
        [] OTHER -> Then(y, LAMBDA z : [z EXCEPT !.space[s].regions[start] = grown])

-----------------------------------------------------------------------------
(* Copies                                                                  *)

\* vm_region_translate_page: the frame of the page at a in r, or 0.  The
\* kernel's image is a range whose addresses are taken for physical ones.
Translate(r, a) ==
  LET o == (PageStart(a) - r.start) \div PageSize IN
  CASE r.ops = "kernel" -> a \div PageSize
    [] r.type = "RANGEMAP" -> r.phys + o
    [] OTHER -> PageIn(r.pages, o)

\* virt2phys
Virt2Phys(x, s, a) ==
  LET R == x.space[s].regions
      hit == FindRegion(R, a)
  IN  IF hit = {} THEN 0 ELSE Translate(R[CHOOSE b \in hit : TRUE], a)

\* Mutant: the offset in the first page is kept for the next ones.
CopyPageOffset(x, s, a, data, i) ==
  LET f == Virt2Phys(x, s, At(PageStart(a) + i * PageSize))
      from == i * (PageSize - (a % PageSize))
      put == [w \in 0 .. PageSize - 1 |->
                LET d == from + w - (a % PageSize) + 1
                IN  IF w >= a % PageSize /\ d \in DOMAIN data THEN data[d] ELSE x.words[f][w]]
  IN  IF f = 0 THEN [x EXCEPT !.ret = -1] ELSE [x EXCEPT !.words[f] = put]

\* What of data, which is copied to a, belongs to page i of the copy
CopyPage(x, s, a, data, i) ==
  LET f == Virt2Phys(x, s, At(PageStart(a) + i * PageSize))
      put == [w \in 0 .. PageSize - 1 |->
                LET d == i * PageSize + w - (a % PageSize) + 1
                IN  IF d \in DOMAIN data THEN data[d] ELSE x.words[f][w]]
  IN  IF f = 0 THEN [x EXCEPT !.ret = -1] ELSE [x EXCEPT !.words[f] = put]

\* copy2virt and bzero2virt, page after page; ret tells a copy that falls
\* short.
Copy2Virt(x, s, a, data) ==
  LET n == IF data = << >> THEN 0 ELSE Units((a % PageSize) + Len(data))
  IN  Each(x, [i \in 1 .. n |-> i - 1], LAMBDA y, i : CopyPage(y, s, a, data, i))

\* copy2phys: as many of the n words at a as can be read
Copy2Phys(x, s, a, n) ==
  LET word(i) == x.words[Virt2Phys(x, s, PageStart(At(a + i)))][At(a + i) % PageSize]
      Readable(i) == Virt2Phys(x, s, PageStart(At(a + i))) # 0
      m == CHOOSE m \in 0 .. n : /\ \A i \in 0 .. m - 1 : Readable(i)
                                 /\ m < n => ~Readable(m)
  IN  [i \in 1 .. m |-> word(i - 1)]

-----------------------------------------------------------------------------
(* Executables                                                             *)

\* __load_segment_cb.  A copy that falls short is a panic.
LoadSegment(x, s, seg) ==
  LET start == PageStart(seg.virt)
      n     == Units(At(seg.size + seg.virt - start))
      bss   == [i \in 1 .. seg.size - Len(seg.data) |-> 0]
      Add(y) == LET r == [y.new EXCEPT !.role = seg.role]
                    z == AddRegion(y, s, r)
                IN  Else(z, LAMBDA w : DestroyRegion(w, r))
      Fill(y) == Copy2Virt(Mandatory(Copy2Virt(y, s, seg.virt, seg.data)),
                           s, At(seg.virt + Len(seg.data)), bss)
  IN  IF Len(seg.data) > seg.size THEN [x EXCEPT !.ret = -1]
      ELSE Then(Then(AnonMap(x, start, n), Add), LAMBDA y : Mandatory(Fill(y)))

\* Mutant: the page directory is freed, its tables are not.
FreeTablesDir(x, sp) == FreeFrames(x, {sp.dir})

\* x86_free_pagedir
FreeTables(x, sp) ==
  FreeFrames(x, ({sp.tables[g] : g \in DOMAIN sp.tables} \ {0}) \cup {sp.dir})

\* vm_space_destroy.  A space without a page directory has the one at address
\* 0 freed.
DestroyAt(x, R, b) == IF b \in DOMAIN R THEN DestroyRegion(x, R[b]) ELSE x
DestroyRegions(x, R) ==
  Each(x, [p \in 1 .. Pages |-> (p - 1) * PageSize], LAMBDA y, b : DestroyAt(y, R, b))
DestroySpace(x, s) ==
  LET sp == x.space[s]
      y == DestroyRegions([x EXCEPT !.ret = 0], sp.regions)
      z == IF sp.dir = 0 THEN Failing(y, "null_page_directory") ELSE FreeTables(y, sp)
  IN  [z EXCEPT !.space[s] = NoSpace, !.exec[s] = << >>, !.ret = -1]

AddNew(x, s) == AddRegion(x, s, x.new)

\* vm_kernel_space_map_image, the boot stack as long as it is in use
MapRequired(x, s, r, phys) ==
  Then(Remap(x, r.start, r.pages, phys), LAMBDA y : Mandatory(AddNew(y, s)))
MapKernel(x, s) == Each(x, KernelRanges, LAMBDA y, r : MapRequired(y, s, r, r.phys))
MapImage(x, s) ==
  LET image == MapKernel(x, s)
  IN  IF s # Kernel THEN image
      ELSE Then(image, LAMBDA y : MapRequired(y, s, BootStack, BootStack.start \div PageSize))

\* vm_kernel_space_map_io: a range that overlaps others is left out.
MapIoRange(x, s, r) == Then(MapInPlace(x, r), LAMBDA y : [AddNew(y, s) EXCEPT !.ret = 0])
MapIoRanges(x, s) == Each(x, IoRanges, LAMBDA y, r : MapIoRange(y, s, r))
MapIo(x, s) ==
  LET video  == Then(MapIoRanges(x, s), LAMBDA y : Mandatory(MapInPlace(y, Video)))
  IN  Mandatory(Then(video, LAMBDA y : AddNew(y, s)))

\* vm_kernel_space_init_vremap, the first time
InitVremap(x, s) ==
  Then(VremapNew(x, KernelVremap, "vremap_kernel"),
       LAMBDA y : AddRegion(y, s, [y.new EXCEPT !.pages = KernelVremap.map]))

\* vm_kernel_space: memory is mapped where it is, whatever it overlaps.
MapMemory(x, r) == Then(MapInPlace(x, r), LAMBDA y : OverlapRegion(y, Kernel, y.new))
MapRegions(x) == Each(x, PhysRanges, MapMemory)
KernelSpace(x) ==
  LET space == Then(HeapAlloc(x), HeapAlloc)
      memory == Then(space, MapRegions)
      image == Then(memory, LAMBDA y : MapImage(y, Kernel))
      io == Then(image, LAMBDA y : MapIo(y, Kernel))
  IN  Then(io, LAMBDA y : InitVremap(y, Kernel))

\* vm_bare_sysproc_space
BareSpace(x, s) ==
  LET vremap == [Region(KernelVremap.start, KernelVremap.pages, "PAGEMAP", "vremap_kernel")
                   EXCEPT !.pages = KernelVremap.map]
      filled == Then(MapImage(x, s), LAMBDA y : AddRegion(y, s, vremap))
  IN  Else(filled, LAMBDA y : DestroySpace(y, s))

\* loader_open_exec with the only loader there is
OpenExec(x, st) ==
  IF ~st.ok THEN [x EXCEPT !.ret = -1]
  ELSE IF st.undefined THEN Failing(x, "read_through_no_pointer")
  ELSE Then(HeapAlloc(x), HeapAlloc)            \* the state and the handle

\* What elf32_parse_rel and elf32_parse_rela do for one relocation.  They fall
\* off their end without a value, which is not -1.
Relocate1(x, s, st, r) ==
  LET P == Target(st, r)
      A == IF r.implicit THEN Copy2Phys(x, s, P, 1) ELSE <<r.addend>>
  IN  IF A = << >> \/ (RequiresSymbol(r) /\ Symbol(st, r).shndx = 0)
      THEN [x EXCEPT !.ret = -1]
      ELSE LET R == Reloc(st, r, A[1]) IN
           IF R = << >> THEN [x EXCEPT !.ret = -1] ELSE Copy2Virt(x, s, P, R)

RelocateAll(x, s, st) == Each(x, Relocations(st), LAMBDA y, r : Relocate1(y, s, st, r))
LoaderRelocate(x, s, st) ==
  IF st.jmprel = Null /\ st.jmprelCount > 0 THEN Failing(x, "read_through_no_pointer")
  ELSE RelocateAll(x, s, st)

LoadHeader(x, s, st, i) ==
  IF i \in Loads(st.file) THEN LoadSegment(x, s, Segment(st, i)) ELSE x
WalkExec(x, s, st) ==
  Each(x, [i \in DOMAIN st.file.phdrs |-> i], LAMBDA y, i : LoadHeader(y, s, st, i))

\* The segments of every file end within the address space and leave room in
\* it.  Nothing in the code looks at that.
SegmentsFit ==
  \A st \in {Open(file) : file \in UNION {Executables[s] : s \in Spaces}}
              \cup {Rebase(Open(Vdso), VdsoBase)} :
    \A i \in Loads(st.file) :
      LET seg == Segment(st, i)
          n == Units((seg.virt % PageSize) + seg.size)
      IN  n < Pages /\ PageStart(seg.virt) + n * PageSize <= Width

\* vm_space_load_abi_vdso
LoadAbi(x, s, abi) ==
  LET st == Rebase(Open(Vdso), VdsoBase)
  IN  IF abi # "linux" THEN [x EXCEPT !.ret = -1]
      ELSE Then(Then(OpenExec(x, Open(Vdso)), LAMBDA y : WalkExec(y, s, st)),
                LAMBDA y : LoaderRelocate(y, s, st))

\* loader_get_base_addr and loader_get_top_addr
BaseAddr(st) ==
  FoldLeft(LAMBDA lo, seg : IF lo > seg.virt THEN PageStart(seg.virt) ELSE lo,
           Width - 1, WalkSeg(st))
TopAddr(st) ==
  LET last(seg) == At(seg.virt + Units(seg.size) * PageSize - 1)
  IN  FoldLeft(LAMBDA hi, seg : IF hi < last(seg) THEN PageStart(last(seg)) + PageSize - 1
                                ELSE hi,
               0, WalkSeg(st))

\* vm_space_load_from_exec: the ABI is loaded once the executable is open.
LoadInto(x, s, st) ==
  LET abi(y) == IF st.abi = "agnostic" THEN y ELSE LoadAbi(y, s, st.abi)
      walked == Then(Then(OpenExec(x, st), abi), LAMBDA y : WalkExec(y, s, st))
      placed == Then(walked, LAMBDA y : [y EXCEPT !.space[s].base = BaseAddr(st),
                                                  !.space[s].top = TopAddr(st)])
  IN  Else(Then(placed, LAMBDA y : LoaderRelocate(y, s, st)), LAMBDA y : DestroySpace(y, s))

LoadFromExec(x, s, file) ==
  LET space == Then(HeapAlloc(x), HeapAlloc)    \* space and its tree
  IN  Then(Then(space, LAMBDA y : BareSpace(y, s)), LAMBDA y : LoadInto(y, s, Open(file)))

-----------------------------------------------------------------------------
(* What a file promises: its words linked for the place it is loaded at.  A *)
(* relocated word is its symbol, or its own address, plus an addend,        *)
(* wherever the word is and whatever was relocated before it.               *)
Linked(st, moved, h, w) ==
  LET a == h.vaddr + moved + w
      old == IF w < h.filesz /\ h.offset + h.filesz <= st.file.size
             THEN st.file.word[h.offset + w] ELSE 0
      rels == Relocations(st)
      at == {i \in DOMAIN rels : rels[i].off + moved = a}
      r == rels[Min(at)]
      sym == st.file.syms[r.sym].value
               + IF st.file.syms[r.sym].shndx < st.file.sections THEN moved ELSE 0
      add == IF r.implicit THEN old ELSE r.addend
  IN  IF at = {} THEN old
      ELSE CASE r.type = "32" -> At(sym + add)
             [] r.type = "PC32" -> At(sym + add - a)
             [] r.type = "RELATIVE" -> At(moved + add)
             [] OTHER -> sym

Image(st, moved) ==
  LET h == st.file.phdrs
      in(i) == {h[i].vaddr + moved + w : w \in 0 .. h[i].memsz - 1}
      at(a) == h[CHOOSE i \in Loads(st.file) : a \in in(i)]
  IN  [a \in UNION {in(i) : i \in Loads(st.file)} |->
         Linked(st, moved, at(a), a - moved - at(a).vaddr)]

\* The executable and the ABI it asks for
Images(file) ==
  Image(Open(file), 0) @@ IF Open(file).abi = "agnostic" THEN << >>
                          ELSE Image(Rebase(Open(Vdso), VdsoBase), VdsoBase)

-----------------------------------------------------------------------------
(* Calls                                                                   *)

\* What a call leaves; of one the kernel does not survive, how it ended.
Done(x) == IF x.failure # "none" THEN [k EXCEPT !.failure = x.failure]
           ELSE [x EXCEPT !.mem = 0, !.ret = 0, !.new = << >>]
Running == k.failure = "none"

\* vm_init: nothing else runs before it.
KernelStart(mem) ==
  LET space  == Mandatory(KernelSpace([k EXCEPT !.mem = mem]))
      vremap == Mandatory(Then(Mandatory(Then(space, Instance)),
                               LAMBDA y : VremapNew(y, MsgqVremap, "vremap")))
  IN  /\ Running /\ k.space[Kernel].phase = "none"
      /\ k' = Done(Then(Mandatory(Then(vremap, LAMBDA y : AddNew(y, Kernel))),
                        LAMBDA y : [y EXCEPT !.space[Kernel].phase = "kernel"]))

\* user_task_new_from_exec as far as the space goes.  While the space has no
\* object yet, a failure loses it.
WithVremap(x, s) ==
  Else(Then(VremapNew(x, UserVremap, "vremap"), LAMBDA y : AddNew(y, s)),
       LAMBDA y : [y EXCEPT !.space[s].phase = "lost"])

WithStack(x, s) ==
  LET Add(y) == Else(AddNew(y, s), LAMBDA z : DestroyRegion(z, y.new))
  IN  Else(Then(Then(Instance(x), StackRegion), Add), LAMBDA y : DestroySpace(y, s))

Start(s, exe, mem) ==
  LET loaded == Then(LoadFromExec([k EXCEPT !.mem = mem], s, exe), LAMBDA y : WithVremap(y, s))
  IN  /\ Running /\ k.space[s].phase = "none" /\ k.space[Kernel].phase = "kernel"
      /\ k' = Done(Then(Then(loaded, LAMBDA y : WithStack(y, s)), LAMBDA y :
                         [y EXCEPT !.space[s].phase = "ready", !.exec[s] = Images(exe)]))

Ready(s) == Running /\ k.space[s].phase = "ready"

\* Mutant: the page tables are left as they were.
BrkNoUpdate(s, a, mem) ==
  LET R == k.space[s].regions
      start == DataRegion(R)
      prog_brk == At(R[start].end + 1)
      grown == Resize([k EXCEPT !.mem = mem], s, start, Units(a - start))
  IN  /\ Ready(s) /\ DataRegions(R) # {} /\ a > 0
      /\ a >= prog_brk /\ Units(a - start) # Units(At(R[start].end - start + 1))
      /\ k' = Done(grown)

\* syscall_krn_brk; ret is only told apart from 0 when nothing was done.
Brk(s, a, mem) ==
  LET R == k.space[s].regions
      start == DataRegion(R)
      prog_brk == At(R[start].end + 1)
      grown == Resize([k EXCEPT !.mem = mem], s, start, Units(a - start))
  IN  /\ Ready(s) /\ DataRegions(R) # {} /\ a > 0
      /\ a >= prog_brk /\ Units(a - start) # Units(At(R[start].end - start + 1))
      /\ k' = Done(Then(grown, LAMBDA y : UpdateRegion(y, s, y.space[s].regions[start])))

\* vm_region_map_page of a region that is no range
MapPage(x, s, b, o, f) == [x EXCEPT !.space[s].regions[b].pages = PutPage(@, o, f)]

\* __msg_map: the body of a message where the receiver can see it
MapMessage(s, offset, f) ==
  LET a == UserVremap.start
      x == MapPage(k, s, a, offset, f)
  IN  /\ Ready(s) /\ offset < UserVremap.pages
      /\ offset \notin DOMAIN k.space[s].regions[a].pages
      /\ k' = Done(UpdateRegion(x, s, x.space[s].regions[a]))

\* the reference of the task, the last one, is closed
Exit(s) == Ready(s) /\ k' = Done(DestroySpace(k, s))

\* The handlers of all kinds of regions: anonmap_pagefault, kmap_pagefault and
\* vremap_pagefault
FaultHandled(ops) == FALSE

\* vm_handle_page_fault for an address whose page is not present: unless a
\* handler of its region maps one, the task is gone.
Fault(s, a) ==
  LET R == k.space[s].regions
      entry == k.space[s].entry[a \div PageSize]
  IN  /\ Ready(s) /\ ~entry.present
      /\ \A b \in FindRegion(R, a) : ~FaultHandled(R[b].ops)
      /\ k' = Done(DestroySpace(k, s))

Next ==
  \/ \E mem \in 0 .. Heap : KernelStart(mem)
  \/ \E s \in Spaces :
    \/ \E exe \in Executables[s], mem \in 0 .. Heap : Start(s, exe, mem)
    \/ \E a \in 0 .. Width - 1, mem \in {0, Heap} : Brk(s, a, mem)
    \/ \E offset \in 0 .. Pages - 1, f \in Foreign : MapMessage(s, offset, f)
    \/ \E a \in 0 .. Width - 1 : Fault(s, a)
    \/ Exit(s)

Spec == Init /\ [][Next]_k

-----------------------------------------------------------------------------
(* Properties                                                              *)

Used(s) == k.space[s].phase # "none"

\* No two regions of a space share an address, whatever executables were
\* loaded, however far the data segment was grown.
RegionsDisjoint ==
  \A s \in AllSpaces : LET R == k.space[s].regions IN
    \A a, b \in DOMAIN R : a < b => R[a].end < R[b].start

\* Every page is free or has one owner: the directory or a table of a space,
\* or a page of one of its regions.  Spaces that were destroyed, or whose
\* construction failed half way, left nothing behind.
FramesExact ==
  k.failure = "none" =>
    LET tables(s) == {g \in DOMAIN k.space[s].tables : k.space[s].tables[g] # 0}
        slots(s) == {e \in (DOMAIN k.space[s].regions) \X (0 .. Pages - 1) :
                       /\ k.space[s].regions[e[1]].ops = "anon"
                       /\ e[2] \in DOMAIN k.space[s].regions[e[1]].pages}
        phys(s, e) == k.space[s].regions[e[1]].pages[e[2]].phys
        all(s) == {k.space[s].dir} \cup {k.space[s].tables[g] : g \in tables(s)}
                    \cup {phys(s, e) : e \in slots(s)}
        count(s) == IF Used(s) THEN 1 + Cardinality(tables(s)) + Cardinality(slots(s)) ELSE 0
    IN /\ \A s \in AllSpaces : Used(s) => Cardinality(all(s)) = count(s)
       /\ \A s \in AllSpaces : Used(s) => all(s) \cap k.free = {}
       /\ \A s, t \in AllSpaces : s # t /\ Used(s) /\ Used(t) => all(s) \cap all(t) = {}
       /\ k.free \cup UNION {all(s) : s \in {t \in AllSpaces : Used(t)}} = Frames

\* The page tables are what the regions say: a page is present exactly where
\* a region has one, at the same physical page, after any growth and mapping,
\* unless a page table could not be allocated, which the code ignores.
TablesAgree ==
  k.failure = "none" =>
    \A s \in {t \in AllSpaces : Used(t) /\ ~k.space[t].unmapped} : \A p \in 0 .. Pages - 1 :
      LET R == k.space[s].regions
          off(b) == p - b \div PageSize
          here == {b \in FindRegion(R, p * PageSize) :
                     R[b].type = "RANGEMAP" \/ off(b) \in DOMAIN R[b].pages}
          e == k.space[s].entry[p]
      IN IF here = {} THEN ~e.present
         ELSE \A b \in here :
                /\ e.present => k.space[s].tables[p \div PagesPerTable] # 0
                /\ e = IF R[b].type = "RANGEMAP" THEN [phys |-> R[b].phys + off(b), present |-> TRUE]
                        ELSE R[b].pages[off(b)]

\* A task that was started sees its executable and the ABI linked for the place
\* they were loaded at: every word of every segment through its page tables and
\* through the kernel's own copies, the rest of a segment cleared, all of its
\* executable within the bounds its first instruction is told.
ImageLoaded ==
  k.failure = "none" =>
    \A s \in {t \in AllSpaces : ~k.space[t].unmapped} : \A a \in DOMAIN k.exec[s] :
      LET word == k.exec[s][a] IN
      /\ k.words[k.space[s].entry[a \div PageSize].phys][a % PageSize] = word
      /\ Copy2Phys(k, s, a, 1) = <<word>>
      /\ a < VdsoBase => k.space[s].base <= a /\ a <= k.space[s].top
=============================================================================
