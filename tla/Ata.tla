-------------------------------- MODULE Ata --------------------------------
(***************************************************************************)
(* Reading sectors: block_read (src/drivers/storage/block.c),              *)
(* ata_block_read and ata_read_sector28 (src/drivers/storage/ata.c), and   *)
(* the drive behind the ports, modelled from the way the driver uses it.   *)
(*                                                                         *)
(* The driver polls the status port a bounded number of times before the   *)
(* command and after it.  A drive that is slower than that answers after   *)
(* the driver has given up, so that its answer meets the next read: DRQ is *)
(* set, which ata_wait_ready does not look at.  ATA leaves open what       *)
(* becomes of a write to a register of a drive with DRQ set.  It may be    *)
(* ignored, as QEMU does, so that ata_wait_drq finds the old answer.       *)
(*                                                                         *)
(* err stands for every status on which the driver gives up: ERR, DF, and  *)
(* the 0 of a missing drive.  A sector's contents are named by its number  *)
(* on the disk.                                                            *)
(***************************************************************************)
EXTENDS Integers, Sequences

CONSTANTS Devices,          \* block devices: [start_lba]
          LBA28,            \* 2^28, the sectors the command can address
          ATA_POLL_LIMIT,
          MaxLba,           \* bound on the first sector of a block_read
          MaxCount,         \* bound on the sectors of one block_read
          NONE

ASSUME AtaConstants ==
  /\ LBA28 \in Nat \ {0} /\ ATA_POLL_LIMIT \in Nat
  /\ MaxLba \in Nat /\ MaxCount \in Nat
  /\ NONE \notin Nat
  /\ \A d \in Devices : d.start_lba \in Nat

VARIABLES bsy, drq, err,    \* the drive's status register
          lba_regs,         \* the drive's address registers
          serving,          \* sector of the drive's last command, or NONE
          owed,             \* history: was there an answer to an earlier read
                            \* still to come when block_read was called
          pc, polls,        \* where the driver is, and its poll counter
          dev, lba, count,  \* block_read's arguments
          buf,              \* the sectors read so far
          result            \* what block_read returned, NONE while it runs

drive == <<bsy, drq, err, lba_regs, serving>>
request == <<dev, lba, count>>
vars == <<drive, owed, pc, polls, request, buf, result>>

Absolute == dev.start_lba + lba     \* block_read: lba is relative to dev

RelativeSector == lba + Len(buf)
Sector == Absolute + Len(buf)       \* the sector of this round of the loop
Address28 == Sector % LBA28         \* what the address registers can take of it

\* The drive has a command to which the driver has not fetched the answer.
AnswerDue == drq \/ (bsy /\ serving # NONE)

\* The firmware has left nothing to fetch; the drive may be missing, or still
\* be starting up.
Init ==
  /\ bsy \in BOOLEAN /\ drq = FALSE /\ err \in BOOLEAN
  /\ lba_regs = 0 /\ serving = NONE /\ owed = FALSE
  /\ pc = "idle" /\ polls = 0
  /\ dev \in Devices /\ lba = 0 /\ count = 0
  /\ buf = <<>> /\ result = NONE

-----------------------------------------------------------------------------
(* The driver *)

block_read(d, l, n) ==
  /\ pc = "idle"
  /\ dev' = d /\ lba' = l /\ count' = n
  /\ buf' = <<>> /\ result' = NONE
  /\ pc' = IF n = 0 THEN "return" ELSE "wait_ready"
  /\ polls' = 0
  /\ owed' = AnswerDue
  /\ UNCHANGED drive

Give(r) == result' = r /\ pc' = "idle" /\ polls' = 0

\* One round of a polling loop that has to go on, or has run out.
PollAgain ==
  IF polls + 1 < ATA_POLL_LIMIT
  THEN polls' = polls + 1 /\ UNCHANGED <<pc, result>>
  ELSE Give(0)

NoWaitReady ==
  /\ pc = "wait_ready"
  /\ IF err THEN Give(0) ELSE pc' = "address" /\ polls' = 0 /\ UNCHANGED result
  /\ UNCHANGED <<drive, owed, request, buf>>

ata_wait_ready ==
  /\ pc = "wait_ready"
  /\ \/ err /\ Give(0)
     \/ ~err /\ ~bsy /\ pc' = "address" /\ polls' = 0 /\ UNCHANGED result
     \/ ~err /\ bsy /\ PollAgain
  /\ UNCHANGED <<drive, owed, request, buf>>

\* The drive and address registers.  A busy drive ignores them; one with an
\* answer to fetch may take some of them and ignore others.
Address ==
  /\ pc = "address"
  /\ \/ bsy /\ UNCHANGED lba_regs
     \/ ~bsy /\ ~drq /\ lba_regs' = Address28
     \/ ~bsy /\ drq /\ lba_regs' \in 0..(LBA28 - 1)
  /\ pc' = "command"
  /\ UNCHANGED <<bsy, drq, err, serving, owed, polls, request, buf, result>>

\* The command: within 400 ns a drive that takes it is busy and drops its old
\* answer.  A busy drive ignores it, one with an answer to fetch may.
Command ==
  /\ pc = "command"
  /\ \/ /\ ~bsy
        /\ bsy' = TRUE /\ drq' = FALSE /\ err' = FALSE
        /\ serving' = lba_regs
        /\ UNCHANGED lba_regs
     \/ (bsy \/ drq) /\ UNCHANGED drive
  /\ pc' = "wait_drq"
  /\ UNCHANGED <<owed, polls, request, buf, result>>

PollForEver ==
  /\ pc = "wait_drq"
  /\ \/ err /\ Give(0)
     \/ ~err /\ drq /\ pc' = "transfer" /\ polls' = 0 /\ UNCHANGED result
     \/ ~err /\ ~drq /\ UNCHANGED <<pc, polls, result>>
  /\ UNCHANGED <<drive, owed, request, buf>>

ata_wait_drq ==
  /\ pc = "wait_drq"
  /\ \/ err /\ Give(0)
     \/ ~err /\ drq /\ pc' = "transfer" /\ polls' = 0 /\ UNCHANGED result
     \/ ~err /\ ~drq /\ PollAgain
  /\ UNCHANGED <<drive, owed, request, buf>>

\* 256 words from the data port, then the next sector of ata_block_read.
Transfer ==
  /\ pc = "transfer"
  /\ drq' = FALSE
  /\ buf' = Append(buf, serving)
  /\ pc' = IF Len(buf') < count THEN "wait_ready" ELSE "return"
  /\ UNCHANGED <<bsy, err, lba_regs, serving, owed, polls, request, result>>

Return ==
  /\ pc = "return"
  /\ Give(1)
  /\ UNCHANGED <<drive, owed, request, buf>>

-----------------------------------------------------------------------------
(* The drive, in its own time *)

Answer ==
  /\ bsy /\ serving # NONE
  /\ bsy' = FALSE /\ drq' = TRUE
  /\ UNCHANGED <<err, lba_regs, serving, owed, pc, polls, request, buf, result>>

Fail ==
  /\ bsy /\ serving # NONE
  /\ bsy' = FALSE /\ err' = TRUE
  /\ UNCHANGED <<drq, lba_regs, serving, owed, pc, polls, request, buf, result>>

\* A drive that was still starting up gets ready, or fails to.
SpinUp ==
  /\ bsy /\ serving = NONE
  /\ bsy' = FALSE /\ err' \in BOOLEAN
  /\ UNCHANGED <<drq, lba_regs, serving, owed, pc, polls, request, buf, result>>

Step == ata_wait_ready \/ Address \/ Command \/ ata_wait_drq \/ Transfer \/ Return

\* block_read does not look whether a request lies on the device.
Next ==
  \/ \E d \in Devices, l \in 0..MaxLba, n \in 0..MaxCount : block_read(d, l, n)
  \/ ata_wait_ready \/ Address \/ Command \/ ata_wait_drq \/ Transfer \/ Return
  \/ Answer \/ Fail \/ SpinUp

Spec == Init /\ [][Next]_vars

(***************************************************************************)
(* The driver keeps executing.  The drive may be busy for ever.            *)
(***************************************************************************)
FairSpec == Spec /\ WF_vars(Step)

-----------------------------------------------------------------------------
(* Properties *)

\* The driver never holds more sectors than block_read was asked for, and
\* the drive's registers hold 28 bit addresses.
TypeOK ==
  /\ bsy \in BOOLEAN /\ drq \in BOOLEAN /\ err \in BOOLEAN /\ owed \in BOOLEAN
  /\ lba_regs \in 0..(LBA28 - 1) /\ serving \in 0..(LBA28 - 1) \cup {NONE}
  /\ pc \in {"idle", "wait_ready", "address", "command", "wait_drq", "transfer",
             "return"}
  /\ polls \in Nat
  /\ dev \in Devices /\ lba \in Nat /\ count \in 0..MaxCount
  /\ buf \in Seq(0..(LBA28 - 1)) /\ Len(buf) <= count
  /\ result \in {0, 1, NONE}

\* This round may be answered with what the drive owed to an earlier read.
MayBeOld == owed /\ buf = <<>>

(***************************************************************************)
(* block_read leaves in the buffer the sectors asked for, in order and of  *)
(* this device, as far as 28 bits name them, and reports success only with *)
(* all of them.  The late answer to a read that was given up can be taken  *)
(* for the first sector of the next read, which is then reported as a      *)
(* success, and for no other sector; and a read that succeeds leaves       *)
(* nothing behind that a later one could take.                             *)
(***************************************************************************)
RightSectors ==
  /\ \A i \in DOMAIN buf : buf[i] = (Absolute + i - 1) % LBA28 \/ (owed /\ i = 1)
  /\ result = 1 => Len(buf) = count
  /\ result = 1 /\ count > 0 => ~AnswerDue

(***************************************************************************)
(* The driver never writes to the registers of a busy drive, which would   *)
(* ignore it; nor to those of a drive with an answer to fetch, unless in   *)
(* the first round of a read that follows one that was given up.           *)
(***************************************************************************)
CommandsAreHeard ==
  /\ pc \in {"address", "command"} => ~bsy
  /\ pc \in {"wait_ready", "address", "command"} /\ AnswerDue => MayBeOld

(***************************************************************************)
(* From the address on, the drive's registers and then its command name    *)
(* the sector of this round, if the drive owed nothing, and the buffer has *)
(* room for it; what is transferred is an answer of the drive.  block_read *)
(* has no result yet, and leaves its loop with a full buffer only and with *)
(* nothing left to fetch.                                                  *)
(***************************************************************************)
RoundsKept ==
  /\ drq => ~bsy /\ serving # NONE
  /\ pc = "command" => lba_regs = Address28 \/ MayBeOld
  /\ pc \in {"wait_drq", "transfer"} => serving = Address28 \/ MayBeOld
  /\ pc = "transfer" => drq
  /\ pc \notin {"idle", "return"} => Len(buf) < count
  /\ pc = "return" => Len(buf) = count /\ (count > 0 => ~AnswerDue)
  /\ pc # "idle" => result = NONE

\* block_read returns, even from a drive that stays busy for ever.
ReadsReturn == pc # "idle" ~> pc = "idle"

(***************************************************************************)
(* The driver and the drive agree on the sector of each round, but in the  *)
(* first round of a read that follows one that was given up.               *)
(***************************************************************************)
AtaInv == TypeOK /\ CommandsAreHeard /\ RoundsKept
=============================================================================
