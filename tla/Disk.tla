-------------------------------- MODULE Disk --------------------------------
(***************************************************************************)
(* The driver of the ATA disks (Kernel/ata_device_task.c): it looks for    *)
(* the four drives of two channels and reads blocks by polling. The driver *)
(* is in the build, but the line that starts its thread is commented out.  *)
(*                                                                         *)
(* The drives are external: the two of a channel share their registers,    *)
(* and the one selected takes the commands and answers. The driver resets  *)
(* them first; it is assumed that they are done when it has slept.         *)
(***************************************************************************)
EXTENDS Integers

CONSTANTS Kinds,      \* what may be attached: "ata", "atapi", "absent"
          Requests    \* <<device, block>> to be read

Devices  == 0 .. 3
Channels == 0 .. 1
ChannelOf(d) == d \div 2
Slave(d)     == d % 2

\* Blocks are numbered from 0.
ASSUME DiskAssumption == Requests \subseteq Devices \X Nat

VARIABLES kind,       \* what is attached
          selected,   \* by the last write to ATA_REG_HDDEVSEL of each channel
          drive,      \* what each drive does
          data,       \* what each drive will hand out
          pc,         \* of the driver
          device,     \* it deals with
          existe,     \* devices[i].existe
          request,    \* the last block asked for
          result,     \* of ReadBlock
          buffer      \* what it has read

vars == <<kind, selected, drive, data, pc, device, existe, request, result, buffer>>
hardware == <<selected, drive, data>>

Nothing == [from |-> -1, block |-> -1]
Identity == [d \in Devices |-> [from |-> d, block |-> -2]]

Init ==
  /\ kind \in [Devices -> Kinds]
  /\ selected = [c \in Channels |-> 0]
  /\ drive = [d \in Devices |-> "idle"]
  /\ data = [d \in Devices |-> Nothing]
  /\ pc = "select" /\ device = 0
  /\ existe = [d \in Devices |-> TRUE]
  /\ request = <<0, 0>> /\ result = 0
  /\ buffer = Nothing

-----------------------------------------------------------------------------
(* The channels.                                                           *)

\* The drive that answers on a channel.
Answering(c) == 2 * c + selected[c]

\* What the status register may say: a drive that is not there leaves 0 if there is
\* another one on the channel, else whatever the lines float at.
Status(c) ==
  LET d == Answering(c)
  IN  IF kind[d] = "absent"
      THEN IF \A e \in Devices : ChannelOf(e) = c => kind[e] = "absent"
           THEN {"zero", "error"} ELSE {"zero"}
      ELSE CASE drive[d] = "busy"  -> {"busy"}
             [] drive[d] = "error" -> {"error"}
             [] OTHER              -> {"ready"}

Select(c, slave) == selected' = [selected EXCEPT ![c] = slave]

\* The drive selected takes a command; what comes of it is what it hands out then.
Command(c, outcome) ==
  LET d == 2 * c + selected'[c]
  IN  IF kind[d] = "absent" THEN UNCHANGED <<drive, data>>
      ELSE /\ drive' = [drive EXCEPT ![d] = "busy"]
           /\ data'  = [data EXCEPT ![d] = outcome[d]]

\* A drive is done: with what it was asked for, or with an error; a drive that is not
\* a disk knows none of the commands.
Finish(d) ==
  /\ drive[d] = "busy"
  /\ \E done \in IF kind[d] = "ata" THEN {"data", "error"} ELSE {"error"} :
       drive' = [drive EXCEPT ![d] = done]
  /\ UNCHANGED <<kind, selected, data, pc, device, existe, request, result, buffer>>

\* ide_read_data: what a drive that has nothing hands out is nothing.
ReadData(c) ==
  LET d == Answering(c)
  IN  /\ buffer' = IF drive[d] = "data" THEN data[d] ELSE Nothing
      /\ drive'  = [drive EXCEPT ![d] = IF @ = "data" THEN "idle" ELSE @]
      /\ UNCHANGED <<selected, data>>

-----------------------------------------------------------------------------
(* InitDevices.                                                            *)

\* The next device, or the reading of blocks.
NextDevice == IF device = 3 THEN pc' = "idle" /\ device' = 0
                            ELSE pc' = "select" /\ device' = device + 1

\* Selected and, after a sleep, told to identify itself.
Identify ==
  LET c == ChannelOf(device)
  IN  /\ pc = "select" /\ pc' = "look"
      /\ Select(c, Slave(device))
      /\ Command(c, Identity)
      /\ UNCHANGED <<kind, device, existe, request, result, buffer>>

\* Mutant: a status of 0 is not looked for.
LookNever == pc = "look" /\ pc' = "wait" /\ UNCHANGED <<kind, hardware, device, existe, request, result, buffer>>

\* After a second sleep: a status of 0 is a device that is not there.
Look ==
  /\ pc = "look"
  /\ \E status \in Status(ChannelOf(device)) :
       IF status = "zero"
       THEN /\ existe' = [existe EXCEPT ![device] = FALSE]
            /\ NextDevice
       ELSE pc' = "wait" /\ UNCHANGED <<device, existe>>
  /\ UNCHANGED <<kind, hardware, request, result, buffer>>

\* Until there is an error or the device is ready.
WaitIdentity ==
  LET c == ChannelOf(device)
  IN  /\ pc = "wait"
      /\ \/ /\ "error" \in Status(c)
            /\ existe' = [existe EXCEPT ![device] = FALSE]
            /\ UNCHANGED <<hardware, buffer>>
         \/ /\ "ready" \in Status(c)
            /\ ReadData(c)
            /\ UNCHANGED existe
      /\ NextDevice
      /\ UNCHANGED <<kind, request, result>>

-----------------------------------------------------------------------------
(* ReadBlock.                                                              *)

\* Bits 24 and above go into the register that selects the drive, next to the bit of
\* the slave.
HighBits(block) == block \div 2^24
SelectedBy(d, block) == IF Slave(d) = 1 \/ (HighBits(block) \div 16) % 2 = 1 THEN 1 ELSE 0

\* Mutant: bits 16 to 23 are left out.
AddressShort(block) == (block % 2^16) + 2^24 * (HighBits(block) % 16)

Address(block) == (block % 2^24) + 2^24 * (HighBits(block) % 16)

ReadBlock(d, block) ==
  LET c == ChannelOf(d)
      found == [e \in Devices |-> [from |-> e, block |-> Address(block)]]
  IN  /\ pc = "idle"
      /\ request' = <<d, block>>
      /\ IF existe[d]
         THEN /\ "busy" \notin Status(c)
              /\ Select(c, SelectedBy(d, block))
              /\ Command(c, found)
              /\ pc' = "poll" /\ device' = d
              /\ result' = 0
         ELSE /\ result' = 0
              /\ UNCHANGED <<hardware, pc, device>>
      /\ UNCHANGED <<kind, existe, buffer>>

Poll ==
  LET c == ChannelOf(device)
  IN  /\ pc = "poll" /\ pc' = "idle"
      /\ \/ /\ "error" \in Status(c) /\ result' = 0
            /\ UNCHANGED <<hardware, buffer>>
         \/ /\ "ready" \in Status(c) /\ result' = 1
            /\ ReadData(c)
      /\ UNCHANGED <<kind, device, existe, request>>

-----------------------------------------------------------------------------

Driver ==
  \/ Identify \/ Look \/ WaitIdentity \/ Poll
  \/ \E r \in Requests : ReadBlock(r[1], r[2])

Next == Driver \/ \E d \in Devices : Finish(d)

\* The thread of the driver is scheduled, and a drive ends what it has begun.
Fairness ==
  /\ WF_vars(Driver)
  /\ \A d \in Devices : WF_vars(Finish(d))

Spec == Init /\ [][Next]_vars
FairSpec == Spec /\ Fairness

-----------------------------------------------------------------------------
(* Properties.                                                             *)

\* The blocks that can be told with the 28 bits there are.
InRange(block) == block < 2^28

\* When ReadBlock says that all went well the buffer holds the block asked for, from
\* the disk asked for, whatever else is attached to the channel and was read before.
ReadsTheBlockAsked ==
  pc = "idle" /\ result = 1 /\ InRange(request[2]) =>
    buffer = [from |-> request[1], block |-> request[2]]

\* Only disks are read from, and looking for them and reading from them come to an end:
\* the driver waits for no drive that is not there.
ReadsReturn ==
  (pc # "idle" /\ (pc = "poll" => InRange(request[2]))) ~>
    (pc = "idle" /\ \A d \in Devices : existe[d] => kind[d] = "ata")

=============================================================================
