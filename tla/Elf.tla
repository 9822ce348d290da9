-------------------------------- MODULE Elf --------------------------------
(***************************************************************************)
(* The ELF loader (loaders/elf/elf.c, dyn.c, abi.c): which files it opens, *)
(* which segments it asks its caller to load and what it writes when it    *)
(* relocates them.  A file is a record                                     *)
(*   valid    the identification, machine and entry sizes are right        *)
(*   type     "exec" or "dyn"                                              *)
(*   size     its length; phend, shend: the ends of its two header tables  *)
(*   sections e_shnum                                                      *)
(*   phdrs    program headers: [type, vaddr, offset, filesz, memsz, x]     *)
(*   word     its contents                                                 *)
(*   note, tags, rels, syms   what is found at an offset: the ABI a note   *)
(*            names, the entries of the dynamic section, relocations,      *)
(*            symbols                                                      *)
(* An entry of a table, an address and a word have the same size.          *)
(***************************************************************************)
EXTENDS Integers, FiniteSets, FiniteSetsExt, SequencesExt

CONSTANTS PageSize, Pages

Width == PageSize * Pages
At(a) == a % Width                        \* address arithmetic wraps
PageStart(a) == a - (a % PageSize)
Undefined == -1                           \* a word nobody wrote
Null == -1                                \* an offset that is not known

\* OVERFLOW: what is below zero has wrapped and is too large as well.
Overflow(n, size) == n < 0 \/ n >= size

Loads(file) == {i \in DOMAIN file.phdrs : file.phdrs[i].type = "load"}

\* elf32_addr_offset
AddrOffset(file, a) ==
  LET hit == {i \in Loads(file) : /\ file.phdrs[i].vaddr <= a
                                  /\ a < file.phdrs[i].vaddr + file.phdrs[i].filesz}
      i == Min(hit)
  IN  IF hit = {} THEN Null ELSE a - file.phdrs[i].vaddr + file.phdrs[i].offset

\* elf32_setup_abi: the first note of its type in the header
SetupAbi(st, h) ==
  IF Overflow(h.offset + h.filesz - 1, st.file.size) THEN [st EXCEPT !.ok = FALSE]
  ELSE [st EXCEPT !.abi = IF h.offset \in DOMAIN st.file.note THEN st.file.note[h.offset]
                          ELSE "agnostic"]

\* The tags of the dynamic section; of two with the same name the last counts.
\* DT_HASH reads the size of the symbol table through a pointer that was
\* never set.
ReadTag(st, tag) ==
  LET offset == AddrOffset(st.file, tag.val) IN
  CASE tag.name = "rel"      -> [st EXCEPT !.rel = offset]
    [] tag.name = "relsz"    -> [st EXCEPT !.relCount = tag.val]
    [] tag.name = "rela"     -> [st EXCEPT !.rela = offset]
    [] tag.name = "relasz"   -> [st EXCEPT !.relaCount = tag.val]
    [] tag.name = "jmprel"   -> [st EXCEPT !.jmprel = offset]
    [] tag.name = "pltrelsz" -> [st EXCEPT !.jmprelCount = tag.val]
    [] tag.name = "pltrel"   -> [st EXCEPT !.jmprelType = tag.type]
    [] tag.name = "symtab"   -> [st EXCEPT !.symtab = offset]
    [] tag.name = "strtab"   -> [st EXCEPT !.strtab = offset]
    [] tag.name = "strsz"    -> [st EXCEPT !.strSize = tag.val]
    [] tag.name = "gnu_hash" -> IF offset = Null THEN st
                                ELSE [st EXCEPT !.symSize = Len(st.file.syms)]
    [] tag.name = "hash"     -> IF offset = Null THEN st ELSE [st EXCEPT !.undefined = TRUE]
    [] OTHER                 -> st

\* A table without an address has no entries.  A table of PLT relocations
\* that leaves the file is reported with 1, which no caller takes for an
\* error: its count stays and its address is 0.
Counted(s) ==
  [s EXCEPT !.relCount = IF s.rel = Null THEN 0 ELSE @,
            !.relaCount = IF s.rela = Null THEN 0 ELSE @,
            !.jmprelCount = IF s.jmprel = Null THEN 0 ELSE @,
            !.jmprel = IF @ # Null /\ Overflow(@ + s.jmprelCount, s.file.size) THEN Null ELSE @]

\* elf32_parse_dyn, once every tag is read: with PLT relocations, the type of
\* their table has to be one of two.
Checked(s, plt) ==
  [s EXCEPT !.ok = ~ \/ s.strtab = Null \/ s.symtab = Null
                     \/ Overflow(s.symtab + s.symSize - 1, s.file.size)
                     \/ Overflow(s.strtab + s.strSize - 1, s.file.size)
                     \/ s.rel # Null /\ Overflow(s.rel + s.relCount, s.file.size)
                     \/ s.rela # Null /\ Overflow(s.rela + s.relaCount, s.file.size)
                     \/ s.jmprelCount = Null
                     \/ plt /\ s.jmprelType \notin {"rel", "rela"}]

ReadTags(st, h) ==
  LET tags == st.file.tags[h.offset]
      after[i \in 0 .. Len(tags)] ==
        IF i = 0 THEN [st EXCEPT !.jmprelCount = Null] ELSE ReadTag(after[i - 1], tags[i])
  IN  after[Len(tags)]

ParseDyn(st, h) ==
  LET Parsed(s) == Checked(Counted(s), s.jmprel # Null)
  IN  IF Overflow(h.offset + h.filesz - 1, st.file.size) THEN [st EXCEPT !.ok = FALSE]
      ELSE Parsed(ReadTags(st, h))

\* elf32_preload_info
ReadHeader(st, h) ==
  IF ~st.ok THEN st
  ELSE CASE h.type = "note" -> SetupAbi(st, h)
         [] h.type = "dynamic" -> ParseDyn(st, h)
         [] OTHER -> st
PreloadInfo(st) ==
  LET headers == st.file.phdrs
      after[i \in 0 .. Len(headers)] == IF i = 0 THEN st ELSE ReadHeader(after[i - 1], headers[i])
  IN  after[Len(headers)]

\* elf32_open; ok tells whether it returned a state.  Without a note the
\* name of the ABI is read at address 0.
NewState(file) ==
  [file |-> file, ok |-> TRUE, undefined |-> FALSE, dyn |-> file.type = "dyn", addr |-> 0,
   abi |-> "none", rel |-> Null, relCount |-> 0, rela |-> Null, relaCount |-> 0,
   jmprel |-> Null, jmprelCount |-> 0, jmprelType |-> "none",
   symtab |-> Null, symSize |-> 0, strtab |-> Null, strSize |-> 0]

Open(file) ==
  IF \/ ~file.valid
     \/ file.type \notin {"exec", "dyn"}
     \/ Overflow(file.phend - 1, file.size) \/ Overflow(file.shend - 1, file.size)
  THEN [NewState(file) EXCEPT !.ok = FALSE]
  ELSE PreloadInfo(NewState(file))

\* elf32_rebase takes only the start of a page.
Rebase(st, base) == [st EXCEPT !.addr = base, !.ok = base % PageSize = 0]

-----------------------------------------------------------------------------
(* elf32_walkseg                                                           *)

\* The header that is the data segment: index 0 stands for none, so the
\* second segment always takes its place.
DataSeg(st) ==
  LET h == st.file.phdrs
      Later(d, i) ==
        IF i \notin Loads(st.file) THEN d
        ELSE IF d = 1 \/ (h[i].vaddr > h[d].vaddr /\ ~h[i].x) THEN i ELSE d
  IN  FoldLeft(Later, 1, [i \in DOMAIN h |-> i])

\* A segment that leaves the file is loaded without data, and so is every
\* segment after it.
Outside(st, i) ==
  LET h == st.file.phdrs[i] IN
  Overflow(h.offset, st.file.size) \/ Overflow(h.offset + h.filesz - 1, st.file.size)

Segment(st, i) ==
  LET h == st.file.phdrs[i]
      zeropg == \E j \in Loads(st.file) : j <= i /\ Outside(st, j)
  IN  [role |-> IF i = DataSeg(st) /\ ~st.dyn THEN "DATASEG" ELSE "USERMAP",
       virt |-> IF st.dyn THEN At(h.vaddr + st.addr) ELSE h.vaddr,
       size |-> h.memsz,
       data |-> [w \in 1 .. IF zeropg THEN 0 ELSE h.filesz |-> st.file.word[h.offset + w - 1]]]

\* The segments the callback is called with, in order
WalkSeg(st) ==
  LET order == SetToSortSeq(Loads(st.file), <)
  IN  [n \in DOMAIN order |-> Segment(st, order[n])]

-----------------------------------------------------------------------------
(* elf32_relocate                                                          *)

\* Every relocation, in the order they are made: [off, type, sym, addend,
\* implicit], implicit when the addend is read from memory.
Relocations(st) ==
  LET Table(at, n, implicit) ==
        [i \in 1 .. n |-> [st.file.rels[at + i - 1] EXCEPT !.implicit = implicit]]
  IN  Table(st.rel, st.relCount, TRUE) \o Table(st.rela, st.relaCount, FALSE)
        \o IF st.jmprel = Null THEN << >>
           ELSE Table(st.jmprel, st.jmprelCount, st.jmprelType = "rel")

Target(st, r) == IF st.dyn THEN At(st.addr + r.off) ELSE r.off
RequiresSymbol(r) == r.type \in {"32", "PC32", "GLOB_DAT", "JMP_SLOT", "GOTOFF"}
Symbol(st, r) == st.file.syms[r.sym]

\* The run time value of a symbol: the one of a section moves with the file.
SymbolValue(st, r) ==
  LET s == Symbol(st, r) IN
  IF st.dyn /\ 1 <= s.shndx /\ s.shndx < st.file.sections THEN At(s.value + st.addr) ELSE s.value

\* elf32_reloc: the word written at the target P with the addend A, or
\* "unsupported".  R_386_NONE writes a variable that has no value.
Reloc(st, r, A) ==
  LET S == SymbolValue(st, r)
      P == Target(st, r)
  IN  CASE r.type = "NONE" -> <<Undefined>>
        [] r.type = "32" -> <<At(S + A)>>
        [] r.type = "PC32" -> <<At(S + A - P)>>
        [] r.type \in {"GLOB_DAT", "JMP_SLOT"} -> <<S>>
        [] r.type = "RELATIVE" -> <<At(st.addr + A)>>
        [] OTHER -> << >>

\* elf32_entry, e_entry being the first address of the first segment
Entry(st) ==
  LET e == st.file.phdrs[Min(Loads(st.file))].vaddr
  IN  IF st.dyn THEN At(st.addr + e) ELSE e
=============================================================================
