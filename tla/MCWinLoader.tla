----------------------------- MODULE MCWinLoader -----------------------------
(* Goroutines that look up two exported functions and one that the library *)
(* does not have, and the files that they may load: up to three sections:  *)
(* code, constants, data, uninitialized data and a discardable section,    *)
(* shorter and longer than a page, with less and with more data in the     *)
(* file than in memory.  A behaviour follows the goroutines, for which     *)
(* finalizeSections is one step of the load, or the rounds of that step    *)
(* for one file.                                                           *)
EXTENDS WinLoader, Sequences

CONSTANTS Page, SectionAlignment, Word, Bases, Files    \* of PEImage

VARIABLES
    part,
    file, base, i, sectionData, pages                   \* of PEImage

I == INSTANCE PEImage

ASSUME PEImageAssumption ==
    /\ Page \in Nat \ {0} /\ SectionAlignment \in Nat \ {0} /\ Word \in Nat \ {0}
    /\ SectionAlignment % Page = 0
    /\ \A b \in Bases : b \in Nat /\ b % Page = 0
    /\ \A f \in Files : I!WellFormed(f)

imageVars == <<file, base, i, sectionData, pages>>

(* The part that is not followed is left in one initial state.             *)
MCInit ==
    /\ part \in {"find", "finalize"}
    /\ Init
    /\ IF part = "find"
       THEN /\ file = [sections |-> <<>>] /\ base = 0 /\ i = 0
            /\ sectionData = <<>> /\ pages = <<>>
       ELSE I!Init /\ proc = [t \in Threads |-> CHOOSE p \in Procs : TRUE]

MCNext ==
    \/ part = "find" /\ Next /\ UNCHANGED <<part, imageVars>>
    \/ part = "finalize" /\ I!Next /\ UNCHANGED <<part, vars>>

MCSpec == MCInit /\ [][MCNext]_<<part, vars, imageVars>> /\ Fairness

(* The sections of every file, wherever it is loaded, can be used as their *)
(* headers say when finalizeSections has returned (PEImage).               *)
SectionsUsable == I!SectionsUsable

(***************************************************************************)
(* The files.                                                              *)
(***************************************************************************)
Access == {{"r"}, {"r", "w"}, {"r", "x"}}

Shapes ==
    [raw : {2, 3}, virt : 1..3, contents : {"initialized"}, access : Access,
     discardable : {FALSE}]
    \cup [raw : {2, 3}, virt : {2, 3}, contents : {"initialized"}, access : {{"r"}},
          discardable : {TRUE}]
    \cup [raw : {0}, virt : 1..3, contents : {"uninitialized"}, access : {{"r", "w"}},
          discardable : {FALSE}]
    \cup [raw : {0}, virt : {2}, contents : {"initialized", "none"}, access : {{"r", "w"}},
          discardable : {FALSE}]

(* A file with one section more, which begins where the last one ends, the *)
(* first one behind the headers.                                           *)
Headers == [sections |-> <<>>, image |-> 1, initialized |-> 0, uninitialized |-> 0]

WithSection(f, s) ==
    LET ends == {f.image} \cup {x.va + x.raw : x \in {f.sections[k] : k \in DOMAIN f.sections}}
        end == CHOOSE e \in ends : \A d \in ends : d <= e
        va == CHOOSE v \in end .. (end + SectionAlignment - 1) : v % SectionAlignment = 0
    IN  [sections |-> Append(f.sections,
           [va |-> va, raw |-> s.raw, virt |-> s.virt, contents |-> s.contents,
            access |-> s.access, discardable |-> s.discardable]),
         image |-> va + s.virt,
         initialized |-> f.initialized + (IF s.contents = "initialized" THEN s.raw ELSE 0),
         uninitialized |-> f.uninitialized + (IF s.contents = "uninitialized" THEN s.virt ELSE 0)]

OneSection == {WithSection(Headers, s) : s \in Shapes}
TwoSections == {WithSection(f, s) : f \in OneSection, s \in Shapes}
ThreeSections == {WithSection(f, s) : f \in TwoSections, s \in Shapes}
AllFiles == OneSection \cup TwoSections \cup ThreeSections
=============================================================================
