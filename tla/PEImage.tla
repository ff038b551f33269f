------------------------------- MODULE PEImage -------------------------------
(***************************************************************************)
(* How memmod lays an image out in memory (memmod_windows.go): the check   *)
(* of its size, the choice of a base that crosses no boundary of a machine *)
(* word, copySections, and the loop of finalizeSections, which goes        *)
(* through the sections once and gives their pages their final protection. *)
(*                                                                         *)
(* Memory is counted in units; the contents of the sections are left out,  *)
(* their places and the protection of their pages are kept.  A behaviour   *)
(* loads one file, from the start of finalizeSections on.                  *)
(***************************************************************************)
EXTENDS Integers, Sequences

CONSTANTS
    Page,               \* size of a page of the system
    SectionAlignment,   \* of the optional header
    Word,               \* 2^32 of the code: addresses are kept modulo this in the section headers
    Bases,              \* addresses that VirtualAlloc may return
    Files               \* the files: see WellFormed

VARIABLES
    file,               \* the file that is loaded
    base,               \* codeBase
    i,                  \* section that the loop comes to, Len + 1 at its end, Len + 2 after it
    sectionData,        \* the part of the image that has still to get its protection
    pages               \* the committed pages of the image and the access that each one gives

vars == <<file, base, i, sectionData, pages>>

(* The masks of the code, for an alignment that is a power of two.         *)
alignDown(value, alignment) == value - (value % alignment)
alignUp(value, alignment) == alignDown(value + alignment - 1, alignment)

(***************************************************************************)
(* A file is what its headers say: the sections, in the order of their     *)
(* addresses, and the three totals of the optional header.                 *)
(***************************************************************************)
Section ==
    [va : Nat, raw : Nat, virt : Nat \ {0}, contents : {"initialized", "uninitialized", "none"},
     access : SUBSET {"r", "w", "x"}, discardable : BOOLEAN]

(* Sections begin at aligned addresses, no section reaches into the next   *)
(* one, with its data or with its size in memory, and all are inside the   *)
(* image.                                                                  *)
WellFormed(f) ==
    /\ f.sections \in Seq(Section) /\ f.sections # <<>>
    /\ f.image \in Nat /\ f.initialized \in Nat /\ f.uninitialized \in Nat
    /\ \A k \in DOMAIN f.sections :
         /\ f.sections[k].va % SectionAlignment = 0
         /\ f.sections[k].va + f.sections[k].virt <= f.image
    /\ \A j, k \in DOMAIN f.sections :
         j < k => /\ f.sections[j].va + f.sections[j].raw <= f.sections[k].va
                  /\ f.sections[j].va + f.sections[j].virt <= f.sections[k].va

alignedImageSize(f) == alignUp(f.image, SectionAlignment)

(* A section without data counts as one unit of alignment.                 *)
endOfSection(s) == s.va + (IF s.raw = 0 THEN SectionAlignment ELSE s.raw)

(* LoadLibrary refuses an image whose sections do not end where its header *)
(* says: k is the section that ends last.                                  *)
Accepted(f) ==
    \E k \in DOMAIN f.sections :
      /\ \A j \in DOMAIN f.sections : endOfSection(f.sections[j]) <= endOfSection(f.sections[k])
      /\ alignedImageSize(f) = alignUp(endOfSection(f.sections[k]), SectionAlignment)

(* check4GBBoundaries, and the bases that are left for an image.           *)
Crosses(b, size) == b \div Word < (b + size) \div Word
BasesFor(f) == {b \in Bases : ~Crosses(b, alignedImageSize(f))}

PagesOf(address, size) == address \div Page .. (address + size - 1) \div Page
Reserved(f, b) == PagesOf(b, alignedImageSize(f))

(* copySections keeps the low part of each address in the section header:  *)
(* of the address that VirtualAlloc returns, which begins a page, or of    *)
(* the address of a section without data as it is.  finalizeSections puts  *)
(* the high part of the base before it.                                    *)
PhysicalAddress(k) ==
    LET dest == base + file.sections[k].va
    IN  (IF file.sections[k].raw = 0 THEN dest ELSE alignDown(dest, Page)) % Word
imageOffset == base - (base % Word)
sectionAddress(k) == PhysicalAddress(k) + imageOffset

(* A section without data in the file counts with a total of the header.   *)
realSectionSize(k) ==
    LET s == file.sections[k] IN
    CASE s.raw # 0 -> s.raw
      [] s.raw = 0 /\ s.contents = "initialized" -> file.initialized
      [] s.raw = 0 /\ s.contents = "uninitialized" -> file.uninitialized
      [] s.raw = 0 /\ s.contents = "none" -> 0

(***************************************************************************)
(* finalizeSections.                                                       *)
(***************************************************************************)
StartWith(k) ==
    [address |-> sectionAddress(k),
     aligned |-> alignDown(sectionAddress(k), SectionAlignment),
     size |-> realSectionSize(k),
     access |-> file.sections[k].access,
     discardable |-> file.sections[k].discardable]

(* Section k shares a page with the ones collected in sectionData, ...     *)
Shares(k) ==
    LET aligned == alignDown(sectionAddress(k), SectionAlignment)
    IN  \/ sectionData.aligned = aligned
        \/ sectionData.address + sectionData.size > aligned

(* ... and is put together with them.                                      *)
ShareAnyDiscardable(k) ==
    [address |-> sectionData.address,
     aligned |-> sectionData.aligned,
     size |-> sectionAddress(k) + realSectionSize(k) - sectionData.address,
     access |-> sectionData.access \cup file.sections[k].access,
     discardable |-> sectionData.discardable \/ file.sections[k].discardable]

Share(k) ==
    [address |-> sectionData.address,
     aligned |-> sectionData.aligned,
     size |-> sectionAddress(k) + realSectionSize(k) - sectionData.address,
     access |-> sectionData.access \cup file.sections[k].access,
     discardable |-> sectionData.discardable /\ file.sections[k].discardable]

(* finalizeSection.  VirtualFree gives the pages of a discardable part     *)
(* back, if the part is made of whole pages and inside the image, and its  *)
(* error is ignored; VirtualProtect fails, and with it the load, when a    *)
(* page of the part is not a committed one of the image.                   *)
touched == IF sectionData.size = 0 THEN {} ELSE PagesOf(sectionData.address, sectionData.size)

Frees(last) ==
    /\ sectionData.address = sectionData.aligned
    /\ last \/ sectionData.size % SectionAlignment = 0
    /\ touched \subseteq Reserved(file, base)

finalizeSection(last) ==
    IF sectionData.discardable
    THEN pages' = [p \in DOMAIN pages \ (IF Frees(last) THEN touched ELSE {}) |-> pages[p]]
    ELSE /\ touched \subseteq DOMAIN pages
         /\ pages' = [p \in DOMAIN pages |-> IF p \in touched THEN sectionData.access ELSE pages[p]]

Init ==
    /\ file \in {f \in Files : Accepted(f)}
    /\ base \in BasesFor(file)
    /\ i = 2
    /\ sectionData = StartWith(1)
    /\ pages = [p \in Reserved(file, base) |-> {"r", "w"}]

(* One round of the loop.                                                  *)
RoundShares ==
    /\ i <= Len(file.sections)
    /\ Shares(i)
    /\ sectionData' = Share(i)
    /\ i' = i + 1
    /\ UNCHANGED <<file, base, pages>>

RoundStarts ==
    /\ i <= Len(file.sections)
    /\ ~Shares(i)
    /\ finalizeSection(FALSE)
    /\ sectionData' = StartWith(i)
    /\ i' = i + 1
    /\ UNCHANGED <<file, base>>

(* The last part, after the loop.                                          *)
Finish ==
    /\ i = Len(file.sections) + 1
    /\ finalizeSection(TRUE)
    /\ i' = i + 1
    /\ UNCHANGED <<file, base, sectionData>>

(* VirtualProtect fails here, or another step of the load later: the image *)
(* is freed, and the next call loads the same file at another base.        *)
LoadAgain ==
    /\ UNCHANGED file
    /\ base' \in BasesFor(file)
    /\ i' = 2
    /\ sectionData' = StartWith(1)'
    /\ pages' = [p \in Reserved(file, base') |-> {"r", "w"}]

Next == RoundShares \/ RoundStarts \/ Finish \/ LoadAgain

Spec == Init /\ [][Next]_vars

(***************************************************************************)
(* Properties.                                                             *)
(***************************************************************************)
Gives(k, size, access) ==
    size > 0 => \A p \in PagesOf(base + file.sections[k].va, size) :
                  p \in DOMAIN pages /\ access \subseteq pages[p]

SectionUsable(k) ==
    LET s == file.sections[k] IN
    ~s.discardable =>
      /\ Gives(k, s.raw, s.access)
      /\ "w" \in s.access => Gives(k, s.virt, s.access \cap {"r", "w"})

(* When finalizeSections has returned, every section that is not           *)
(* discardable can be used as its header says, over all of its data in the *)
(* file, and, where it is writable, be read and written over the zeroed    *)
(* part behind it too: no page of it was given back with a discardable     *)
(* neighbour or lost an access to one.                                     *)
SectionsUsable ==
    i = Len(file.sections) + 2 => \A k \in DOMAIN file.sections : SectionUsable(k)
=============================================================================
