------------------------------- MODULE Image --------------------------------
(***************************************************************************)
(* Finding and reading program files: user/cpio.c, user/elf.c, the merging *)
(* of program headers in root_main (user/main.c), what load_segment        *)
(* (user/pager.c) and the kernel's elf_load (kernel/task/init.c) put into  *)
(* a page.                                                                 *)
(*                                                                         *)
(* A page has PAGE_SIZE bytes.  The byte at offset o of an ELF file is     *)
(* written o + 1, so that every byte tells where it comes from; 0 is a     *)
(* cleared byte and Junk whatever a frame held before.                     *)
(***************************************************************************)
EXTENDS Integers, Sequences, SequencesExt, FiniteSets, FiniteSetsExt

CONSTANTS PAGE_SIZE, EHDR_SIZE, PHDR_SIZE

Junk == 0 - 1

AlignUp(x, a) == ((x + a - 1) \div a) * a
AlignDown(x, a) == (x \div a) * a

-----------------------------------------------------------------------------
(* The archive: a sequence of [name, namesize, filesize], the sizes as     *)
(* eight hexadecimal digits, with records at the offsets of Placed.        *)

HEADER == 110

parse_hex8(hex) == FoldLeft(LAMBDA val, d : 16 * val + d, 0, hex)

data_offset(r) == AlignUp(HEADER + parse_hex8(r.namesize), 4)

next_record_offset(r) == AlignUp(data_offset(r) + parse_hex8(r.filesize), 4)

(* Where the records of an archive start: header and name, and data, are   *)
(* each padded to a multiple of four bytes of the archive (external: the   *)
(* newc format of cpio).                                                   *)
PadFour(x) == IF x % 4 = 0 THEN x ELSE x + 4 - (x % 4)
Placed(archive) ==
  LET at[i \in 1..Len(archive)] ==
        IF i = 1 THEN 0
        ELSE LET r == archive[i - 1] IN
             PadFour(PadFour(at[i - 1] + HEADER + parse_hex8(r.namesize)) + parse_hex8(r.filesize))
  IN at

NotFound == [base |-> 0 - 1, size |-> 0]

(* The walk: no record at an offset means no magic number there. *)
RECURSIVE CpioWalk(_, _, _)
CpioWalk(archive, name, offset) ==
  LET here == {i \in 1..Len(archive) : Placed(archive)[i] = offset} IN
  IF here = {} THEN NotFound
  ELSE LET r == archive[CHOOSE i \in here : TRUE] IN
       IF r.name = "TRAILER!!!" THEN NotFound
       ELSE IF r.name = name
       THEN [base |-> offset + data_offset(r), size |-> parse_hex8(r.filesize)]
       ELSE CpioWalk(archive, name, offset + next_record_offset(r))

cpio_extract(archive, name) == CpioWalk(archive, name, 0)

-----------------------------------------------------------------------------
(* ELF files: [header, phoff, phdr, entry], header telling whether the     *)
(* identification, type, machine and entry size are the expected ones.     *)

elf_check(e, size) ==
  /\ size >= EHDR_SIZE
  /\ e.header = "ok"
  /\ e.phoff + Len(e.phdr) * PHDR_SIZE <= size

Mergeable(ph, p) ==
  /\ p.type = "PT_LOAD"
  /\ p.flags = ph.flags
  /\ p.vaddr = ph.vaddr + ph.memsz
  /\ p.offset = ph.offset + ph.filesz

Merge(ph, p) ==
  [ph EXCEPT !.memsz = p.vaddr + p.memsz - ph.vaddr,
             !.filesz = p.offset + p.filesz - ph.offset]

(* the segments root_main loads *)
LoadSegments(phdr) ==
  FoldLeft(LAMBDA segs, p :
             IF p.type # "PT_LOAD" THEN Append(segs, p)
             ELSE IF segs # <<>> /\ Last(segs).type = "PT_LOAD" /\ Mergeable(Last(segs), p)
             THEN ReplaceAt(segs, Len(segs), Merge(Last(segs), p))
             ELSE Append(segs, p),
           <<>>, phdr)
Segments(phdr) == SelectSeq(LoadSegments(phdr), LAMBDA p : p.type = "PT_LOAD")

(* The bytes from f_lo up to f_hi of the page at va come from the file. *)
f_lo(ph, va) == Max({va, ph.vaddr})

(* Mutant of f_hi: the end of the page is not looked at. *)
f_hi_page(ph, va) == va + PAGE_SIZE

f_hi(ph, va) == Min({va + PAGE_SIZE, ph.vaddr + ph.filesz})

Copied(page, ph, va) ==
  [i \in 0..(PAGE_SIZE - 1) |->
     IF va + i \in f_lo(ph, va)..(f_hi(ph, va) - 1) THEN ph.offset + (va + i - ph.vaddr) + 1
     ELSE page[i]]

Zeroed == [i \in 0..(PAGE_SIZE - 1) |-> 0]

(* load_segment clears the frame first *)
load_page(ph, va) == Copied(Zeroed, ph, va)

z_lo(ph, va) == Max({va, ph.vaddr + ph.filesz})

(* elf_load clears what the segment has beyond the file, and nothing else *)
elf_load_page(page, ph, va) ==
  LET z_hi == Min({va + PAGE_SIZE, ph.vaddr + ph.memsz})
  IN [i \in 0..(PAGE_SIZE - 1) |->
        IF va + i \in z_lo(ph, va)..(z_hi - 1) THEN 0 ELSE Copied(page, ph, va)[i]]

PageStart(ph) == AlignDown(ph.vaddr, PAGE_SIZE)
PageEnd(ph) == AlignUp(ph.vaddr + ph.memsz, PAGE_SIZE)
PagesOf(ph) == {va \in PageStart(ph)..(PageEnd(ph) - 1) : va % PAGE_SIZE = 0}

-----------------------------------------------------------------------------
(* What a program expects at address x, which is in one of its segments. *)
Expected(phdr, x) ==
  LET i == CHOOSE i \in 1..Len(phdr) :
             phdr[i].type = "PT_LOAD" /\ x \in phdr[i].vaddr..(phdr[i].vaddr + phdr[i].memsz - 1)
      p == phdr[i]
  IN IF x < p.vaddr + p.filesz THEN p.offset + (x - p.vaddr) + 1 ELSE 0

Addresses(phdr) ==
  UNION {phdr[i].vaddr..(phdr[i].vaddr + phdr[i].memsz - 1) :
           i \in {j \in 1..Len(phdr) : phdr[j].type = "PT_LOAD"}}

Adjoin(p, q) ==
  q.flags = p.flags /\ q.vaddr = p.vaddr + p.memsz /\ q.offset = p.offset + p.filesz

(* The files that link editors write: segments ascend and share no page,   *)
(* unless they adjoin in memory and in the file; then only the last of     *)
(* them has memory beyond its contents.                                    *)
WellFormed(phdr) ==
  LET load == SelectSeq(phdr, LAMBDA p : p.type = "PT_LOAD") IN
  /\ \A i \in 1..Len(load) : load[i].filesz <= load[i].memsz /\ load[i].memsz > 0
  /\ \A i \in 1..(Len(load) - 1) :
       IF Adjoin(load[i], load[i + 1]) THEN load[i].filesz = load[i].memsz
       ELSE PageEnd(load[i]) <= PageStart(load[i + 1])
=============================================================================
