--------------------------- MODULE MCAddressSpace ---------------------------
EXTENDS AddressSpace

CONSTANTS s1, s2

Load(vaddr, offset, filesz, memsz, x) ==
  [type |-> "load", vaddr |-> vaddr, offset |-> offset, filesz |-> filesz, memsz |-> memsz, x |-> x]
Text == Load(6, 0, 2, 2, TRUE)
Data == Load(9, 2, 1, 2, FALSE)            \* its bss is on the next page
Header(type, offset, n) == [type |-> type, vaddr |-> 0, offset |-> offset,
                            filesz |-> n, memsz |-> 0, x |-> FALSE]
Note == Header("note", 5, 1)
LinuxNote == Header("note", 6, 1)
Dynamic == Header("dynamic", 7, 1)

Rel(off, type, sym, addend) ==
  [off |-> off, type |-> type, sym |-> sym, addend |-> addend, implicit |-> FALSE]
Tag(name, val) == [name |-> name, val |-> val, type |-> "rel"]
Tables(a) == <<Tag("symtab", a), Tag("strtab", a), Tag("strsz", 1), Tag("gnu_hash", a)>>

File(type, phdrs, tags, rels) ==
  [valid |-> TRUE, type |-> type, size |-> 12, phend |-> 1, shend |-> 12, sections |-> 3,
   phdrs |-> phdrs, word |-> [i \in 0 .. 11 |-> 10 + i],
   note |-> 6 :> "linux", tags |-> 7 :> tags, rels |-> 0 :> rels[1] @@ 1 :> rels[2] @@ 2 :> rels[3],
   syms |-> << [value |-> 7, shndx |-> 1], [value |-> 5, shndx |-> 9], [value |-> 0, shndx |-> 0] >>]

NoRels == [i \in 1 .. 3 |-> Rel(6, "NONE", 1, 0)]
Plain(phdrs) == File("exec", phdrs, << >>, NoRels)
MCKernelRanges == << [start |-> 18, pages |-> 2, phys |-> 50] >>
MCKernelVremap == [start |-> 22, pages |-> 1, map |-> 0 :> [phys |-> 60, present |-> TRUE]]
MCPhysRanges == << [start |-> 0, pages |-> 2], [start |-> 16, pages |-> 1] >>
MCBootStack == [start |-> 6, pages |-> 1]
MCIoRanges == << [start |-> 4, pages |-> 1], [start |-> 20, pages |-> 1] >>   \* one overlaps the image
MCVideo == [start |-> 10, pages |-> 1]
MCMsgqVremap == [start |-> 12, pages |-> 2]
MCUserVremap == [start |-> 2, pages |-> 1]
\* The ABI: an address of its own in its second word, that of its symbol and
\* an absolute one through its PLT
MCVdso == File("dyn", <<Load(0, 0, 3, 4, TRUE), Note, Dynamic>>,
               Tables(0) \o <<Tag("rel", 0), Tag("relsz", 1), Tag("jmprel", 1), Tag("pltrelsz", 2),
                             Tag("pltrel", 0)>>,
               <<Rel(1, "RELATIVE", 1, 0), Rel(2, "32", 1, 0), Rel(3, "GLOB_DAT", 2, 0)>>)
MCExecutables == s2 :> { Plain(<<Text, Note>>) } @@ s1 :>
  { Plain(<<Text, Data, LinuxNote>>),
    Plain(<<Load(8, 1, 0, 0, FALSE), Text, Note>>),
    Plain(<<Text, Load(9, 11, 2, 2, FALSE), Note>>),   \* leaves the file
    File("exec", <<Text, Data, Note, Dynamic>>,
         Tables(6) \o <<Tag("rela", 6), Tag("relasz", 2), Tag("rel", 9), Tag("relsz", 1)>>,
         <<Rel(7, "32", 2, 1), Rel(6, "JMP_SLOT", 1, 0), Rel(9, "PC32", 1, 20)>>),
    File("exec", <<Text, Data, Note, Dynamic>>,        \* a symbol of another file
         Tables(6) \o <<Tag("rel", 6), Tag("relsz", 1)>>,
         <<Rel(7, "32", 3, 0), Rel(7, "32", 1, 0), Rel(7, "32", 1, 0)>>),
    Plain(<<Data, Load(6, 0, 2, 3, TRUE), Note>>),     \* segments that collide
    Plain(<<Load(6, 0, 2, 2, TRUE), Load(10, 2, 2, 1, FALSE), Note>>),
    Plain(<<Text, Load(15, 3, 1, 2, FALSE), Note>>),   \* ends where the stack begins
    Plain(<<Text, Load(13, 3, 1, 2, FALSE), LinuxNote>>) }
ASSUME FitAssumption == SegmentsFit
=============================================================================
