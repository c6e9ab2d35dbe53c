-------------------------------- MODULE MCVm --------------------------------
(* Instances of Vm: two-byte pages, two pages to a page table.               *)
EXTENDS Vm, TLC

\* A program header; whole is 0 when the file ends before the segment does.
Seg(vaddr, memsz, filesz, whole) ==
    [vaddr |-> vaddr, memsz |-> memsz, filesz |-> filesz, whole |-> whole]

\* A small image, one of two segments, one that is cut short, one whose header
\* wraps around.
MCPrograms ==
    {<<Seg(0, 2, 2, 1)>>,
     <<Seg(0, 3, 2, 1), Seg(4, 1, 0, 1)>>,
     <<Seg(0, 3, 3, 0)>>,
     <<Seg(2, 23, 1, 1)>>}

MCGrows == {-6, 3}

\* The CPUs are alike.
CPUSymmetry == Permutations(CPUs)
=============================================================================
