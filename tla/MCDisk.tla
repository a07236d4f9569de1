------------------------------- MODULE MCDisk -------------------------------
(* Any drives on one channel, none, one or two disks on the other; blocks at *)
(* the bounds of the registers, and one beyond the 28 bits.                  *)
EXTENDS Disk

MCKinds == {"ata", "atapi", "absent"}
MCRequests == {0, 1, 3} \X {0, 2^16 + 1, 2^24 + 1, 2^28 + 1}

=============================================================================
