-------------------------------- MODULE MCVm --------------------------------
(***************************************************************************)
(* The guest's memory with pages of eight words, so that three levels of    *)
(* tables map 512 pages, and 40 pages of RAM behind the kernel: what is     *)
(* left of it after the start lets one of two programs run an exec() while  *)
(* the other runs out of pages.                                             *)
(***************************************************************************)
EXTENDS VmTests

MCDevices == <<<<2, 1>>, <<3, 1>>, <<8, 1>>, <<10, 2>>>>
MCFile == <<7, 8, 9>>
\* The test, echo, and files that exec() must refuse half way.
MCImage ==
  (<<3>> :> <<[vaddr |-> 0, memsz |-> 8, filesz |-> 7, file |-> <<1, 2, 0, 1, 0, 600, 0>>]>>) @@
  (<<2>> :> <<[vaddr |-> 0, memsz |-> 8, filesz |-> 2, file |-> <<1, 6>>]>>) @@
  (<<4>> :> <<[vaddr |-> 0, memsz |-> 8, filesz |-> 1, file |-> <<1>>],
              [vaddr |-> 12, memsz |-> 2, filesz |-> 1, file |-> <<1>>]>>) @@
  (<<5>> :> <<[vaddr |-> 0, memsz |-> 1, filesz |-> 2, file |-> <<1, 6>>]>>) @@
  (<<7>> :> <<[vaddr |-> 0, memsz |-> 16, filesz |-> 10, file |-> <<1, 6>>]>>)
=============================================================================
