------------------------------- MODULE MCBoot -------------------------------
(* GRUB puts the modules behind the loader, over the page tables, where they  *)
(* are moved to, and at the end of the memory.                                *)
EXTENDS Boot

MCMemories == {28, 33}
MCStarts == {2, 4, 5, 18, 19, 20, 21, 22, 24, 30}
MCSizes == 1 .. 2

=============================================================================
