------------------------------- MODULE MCElf -------------------------------
(***************************************************************************)
(* Tables of two entries: index 1 of a PML4 is the kernel's.  The heap     *)
(* window and the user pages each span more than one page table, so that   *)
(* mappings share tables, make new ones, and run out of frames at every    *)
(* level.  The programs have segments that begin and end inside pages,     *)
(* span two, have a tail without file bytes, or none, or share a page.     *)
(* The one with six segments over the same two pages takes so many frames  *)
(* that none may be left for the next space.                               *)
(***************************************************************************)
EXTENDS Elf

MCHeapPages == <<<<1, 1, 0, 1>>, <<1, 1, 1, 0>>>>
MCProgramPages == <<<<0, 0, 0, 1>>, <<0, 0, 1, 0>>>>
MCStackPage == <<0, 0, 1, 1>>
MCUserPages == {MCProgramPages[1], MCProgramPages[2], MCStackPage}
MCImagePage == <<1, 0, 0, 0>>

Seg1(vaddr, memsz, filesz, w) ==
  [load |-> TRUE, vaddr |-> vaddr, memsz |-> memsz, filesz |-> filesz,
   offset |-> 10 + vaddr, w |-> w]
Note == [load |-> FALSE, vaddr |-> 0, memsz |-> 1, filesz |-> 1, offset |-> 0, w |-> TRUE]
Executable(segments) == [valid |-> TRUE, entry |-> 1, segments |-> segments]

MCPrograms ==
  { Executable(<<Seg1(1, 5, 3, FALSE)>>),
    Executable(<<Note, Seg1(0, 2, 2, FALSE), Seg1(4, 2, 1, TRUE)>>),
    Executable(<<Seg1(0, 2, 2, FALSE), Seg1(2, 3, 2, TRUE)>>),
    [Executable(<<Seg1(2, 0, 0, TRUE), Seg1(3, 3, 0, TRUE)>>) EXCEPT !.entry = 0],
    Executable([n \in 1..6 |-> Seg1(0, 4, 0, TRUE)]),
    [Executable(<<>>) EXCEPT !.valid = FALSE] }
=============================================================================
