------------------------------- MODULE NextDisk -------------------------------
(***************************************************************************)
(* The SCSI target of the NeXT emulator, next_scsi.c: the disk state, the   *)
(* sector buffer and the direct-mapped sector cache, as operators on a      *)
(* record.  A byte is a pair <<what it comes from, its position>>: the      *)
(* sector's number, or Reply for the data of an INQUIRY and the like.       *)
(* Sense data is left out.                                                  *)
(***************************************************************************)
EXTENDS Integers

CONSTANTS
    Sectors,    \* sectors of the disk image (numbered from 0)
    SectorSize, \* bytes of a sector (512)
    Slots       \* slots of the cache (4096)

ASSUME DiskAssumption ==
    /\ Sectors \in Nat \ {0} /\ SectorSize \in Nat \ {0} /\ Slots \in Nat \ {0}

Empty == -1  \* a cache slot without a sector
Reply == -2  \* in place of a sector number: data made up for a command
Phases == {"DO", "DI", "CD", "ST", "MO", "MI"}

\* What a command descriptor block asks for.  "reply" stands for the commands
\* that answer with data of their own (inquiry, capacity, sense), "plain" for
\* those without data, "bad" for the ones that are refused.
Cdb(op, lba, count) == [op |-> op, lba |-> lba, count |-> count]

DiskInit ==
    [phase |-> "ST", status |-> "good", lba |-> 0, left |-> 0, writes |-> 0,
     size |-> 0, limit |-> 0, from |-> Reply, is_disk |-> FALSE,
     tag |-> [s \in 0..Slots - 1 |-> Empty], data |-> [s \in 0..Slots - 1 |-> Empty]]

Slot(lba) == lba % Slots

\* Wrong variant, for mutation: whatever the slot holds will do.
SlotInUse(d, lba) == d.tag[Slot(lba)] # Empty

Cached(d, lba) == d.tag[Slot(lba)] = lba

Loaded(d, content) ==
    [d EXCEPT !.from = content, !.size = SectorSize, !.limit = SectorSize,
              !.status = "good", !.lba = @ + 1, !.left = @ - 1]

Failed(d) == [d EXCEPT !.status = "check", !.phase = "ST"]

\* scsi_read_one_sector.  failing: sectors the SD card does not deliver now.
ReadSector(d, failing) ==
    IF d.left = 0 THEN [d EXCEPT !.phase = "ST"]
    ELSE IF d.lba >= Sectors THEN Failed(d)
    ELSE IF Cached(d, d.lba) THEN Loaded(d, d.data[Slot(d.lba)])
    ELSE IF d.lba \in failing THEN Failed(d)
    ELSE Loaded([d EXCEPT !.tag[Slot(d.lba)] = d.lba, !.data[Slot(d.lba)] = d.lba], d.lba)

Invalidated(d, lbas) ==
    [d EXCEPT !.tag = [s \in DOMAIN d.tag |-> IF d.tag[s] \in lbas THEN Empty ELSE d.tag[s]]]

Reads(d, cdb, failing) ==
    ReadSector([d EXCEPT !.lba = cdb.lba, !.left = cdb.count, !.is_disk = TRUE,
                         !.size = 0, !.phase = "DI"], failing)

Writes(d, cdb) ==
    [Invalidated(d, cdb.lba..cdb.lba + cdb.count - 1) EXCEPT
        !.lba = cdb.lba, !.left = cdb.count, !.writes = cdb.count * SectorSize,
        !.status = "good", !.phase = "DO"]

Replies(d, cdb) ==
    [d EXCEPT !.size = cdb.count, !.limit = cdb.count, !.from = Reply,
              !.is_disk = FALSE, !.status = "good", !.phase = "DI"]

\* next_scsi_receive_command
ReceiveCommand(d, cdb, failing) ==
    CASE cdb.op = "read"  -> Reads(d, cdb, failing)
      [] cdb.op = "write" -> Writes(d, cdb)
      [] cdb.op = "reply" -> Replies(d, cdb)
      [] cdb.op = "plain" -> [d EXCEPT !.status = "good", !.phase = "ST"]
      [] cdb.op = "bad"   -> Failed(d)

NextByte(d) == <<d.from, d.limit - d.size>>

\* One byte taken from the buffer; the last one fetches the next sector.
ConsumeByte(d, failing) ==
    IF d.size > 1 THEN [d EXCEPT !.size = @ - 1]
    ELSE IF d.is_disk THEN ReadSector([d EXCEPT !.size = 0], failing)
    ELSE [d EXCEPT !.size = 0, !.phase = "ST"]

ConsumeWriteByte(d) ==
    [d EXCEPT !.writes = @ - 1, !.phase = IF d.writes = 1 THEN "ST" ELSE @]
=============================================================================
