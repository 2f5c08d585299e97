-------------------------- MODULE NextDriverProofs --------------------------
(***************************************************************************)
(* Theorems about NextDriver, for every set of requests, buffer, chunk,    *)
(* FIFO, disk, cache, RAM and delay: the driver is one of the guests of    *)
(* NextScsi; if giving up resets the DMA channel, every interrupt belongs  *)
(* to the command it has outstanding and has a cause, and a command that   *)
(* ends well has moved all its data to its place.                          *)
(***************************************************************************)
EXTENDS NextDriver, NextScsiProofs

-----------------------------------------------------------------------------
(* The invariant                                                           *)

\* Where the driver is.
Setup == {"idle", "flush", "identify", "block", "select"}
Loading ==
    {"dma_reset", "dma_window", "dma_chain", "dma_enable", "dma_enable_both", "count", "transfer"}
Ended == {"read_message", "accept", "leaving", "done"}
Places ==
    {"boot", "boot_enable", "complete", "read_status"} \cup Setup \cup Loading \cup Ended
        \cup Waiting \cup Aborting

\* It has not moved more than its request is about.
DriverTypes ==
    /\ pc \in Places /\ request \in Requests /\ moved \in 0..Total
    /\ result \in {"none", "good", "check"}

\* Nothing is going on in the chip.
Quiet == ~esp.int /\ ~esp.inprog /\ seltimer = 0 /\ deferred.ticks = 0

\* Where the chip may have, or come to have, an interrupt: while the driver waits
\* and while it gives up, until the channel and then the chip have been reset.  A
\* countdown and a pending interrupt of the same command exclude each other.
Signals ==
    /\ esp.queue = NoCommand /\ ~esp.resrept
    /\ pc \notin Waiting \cup {"abort", "abort_chip"} => Quiet
    /\ pc = "abort_chip" => deferred.ticks = 0
    /\ pc = "selecting" => deferred.ticks = 0 /\ (seltimer > 0 => ~esp.int)
    /\ pc = "transferring" => seltimer = 0 /\ (deferred.ticks > 0 => ~esp.int)
    /\ pc \in {"completing", "leaving", "resetting"} => seltimer = 0 /\ deferred.ticks = 0
    /\ esp.int \/ seltimer > 0 => esp.intstatus # {}

\* The bytes the selection will take.
FifoHolds ==
    /\ pc = "identify" => esp.fifo = <<>>
    /\ pc = "block" => esp.fifo = <<Identify>>
    /\ pc = "select" => esp.fifo = <<Identify, request>>

\* A slot holds the sector it says it holds.
CacheOK(d) ==
    /\ DOMAIN d.tag = 0..Slots - 1 /\ DOMAIN d.data = 0..Slots - 1
    /\ \A s \in 0..Slots - 1 : d.tag[s] # Empty => d.data[s] = d.tag[s]

\* The target d serves request r, and has handed over t bytes of it: from sectors,
\* the buffer being one of them; into the drain; from a reply; or it is done with it.
Reading(d, r, t) ==
    /\ r.op = "read" /\ d.phase = "DI" /\ d.is_disk
    /\ d.size \in 1..SectorSize /\ d.limit = SectorSize /\ d.left \in Nat /\ d.lba \in Nat
    /\ d.from = d.lba - 1 /\ d.from >= r.lba
    /\ t = (d.from - r.lba) * SectorSize + (SectorSize - d.size)
    /\ t + d.size + d.left * SectorSize = Bytes(r)
Writing(d, r, t) == r.op = "write" /\ d.phase = "DO" /\ d.writes \in Nat /\ t + d.writes = Bytes(r)
Replying(d, r, t) ==
    r.op = "reply" /\ d.phase = "DI" /\ ~d.is_disk /\ d.limit = r.count /\ t + d.size = Bytes(r)
Over(d, r, t) == d.phase \notin {"DI", "DO"} /\ (d.status = "good" /\ r.op # "bad" => t = Bytes(r))

Serving(d, r, t) ==
    t \in Nat /\ (Reading(d, r, t) \/ Writing(d, r, t) \/ Replying(d, r, t) \/ Over(d, r, t))

\* The first t bytes of a read are in their places.
Copied(m, r, t) ==
    r.op = "read" => \A k \in 0..t - 1 : m[k] = <<r.lba + k \div SectorSize, k % SectorSize>>

Handed(t) == Serving(disk, request, t) /\ Copied(mem, request, t)

\* What has been handed over is what the driver counts, in every phase of a
\* command, and a transfer that is due goes on where it stopped.
Data ==
    /\ CacheOK(disk)
    /\ pc \in {"flush", "identify", "block", "select", "selecting"} => moved = 0
    /\ pc = "selecting" => "DC" \in esp.intstatus \/ Serving(disk, request, 0)
    /\ pc \in Loading => disk.phase \in {"DI", "DO"} /\ Handed(moved)
    /\ pc \in Loading \ {"dma_reset", "dma_window"} => dma.next = moved
    /\ pc = "transfer" => esp.count = Asked
    /\ deferred.ticks > 0 =>
          /\ disk.phase \in {"DI", "DO"} /\ Handed(moved) /\ dma.next = moved
          /\ deferred.in = (disk.phase = "DI")
          /\ deferred.count = IF Asked = 0 THEN MaxCount ELSE Asked
    /\ pc = "transferring" /\ deferred.ticks = 0 => Handed(moved + Progress)
    /\ pc \in {"complete", "completing", "read_status"} =>
          disk.phase \notin {"DI", "DO"} /\ Handed(moved)
    /\ pc \in Ended =>
          (result = "good" /\ request.op # "bad" => moved = Total /\ Copied(mem, request, Total))

DriverInv == DriverTypes /\ Signals /\ FifoHolds /\ Data

-----------------------------------------------------------------------------
(* Arithmetic                                                              *)

LEMMA BytesNat ==
    ASSUME NEW r \in Cdbs
    PROVE  /\ Bytes(r) \in Nat
           /\ r.op \in {"read", "write"} => Bytes(r) = r.count * SectorSize
           /\ r.op = "reply" => Bytes(r) = r.count
           /\ r.op \in {"plain", "bad"} => Bytes(r) = 0
<1>1. r.op \in {"read", "write", "reply", "plain", "bad"} /\ r.count \in Nat /\ SectorSize \in Nat
  BY ScsiAssumption, DiskAssumption
<1>2. r.count * SectorSize \in Nat
  BY <1>1
<1> QED
  BY <1>1, <1>2 DEF Bytes

\* Quotient and remainder are what they are made of.
LEMMA DivMod ==
    ASSUME NEW q \in Nat, NEW b \in Nat \ {0}, NEW r \in 0..b - 1
    PROVE  (q * b + r) \div b = q /\ (q * b + r) % b = r
<1> DEFINE n == q * b + r
           p == n \div b
           m == n % b
<1>0. n \in Nat
  OBVIOUS
<1>1. p \in Int /\ m \in 0..b - 1 /\ n = b * p + m
  BY <1>0
<1>2. b * p + m = q * b + r
  BY <1>1
<1> HIDE DEF n, p, m
<1>3. p = q
  <2>1. CASE p > q
    <3>1. b * (p - q) >= b
      BY <1>1, <2>1
    <3>2. b * (p - q) = b * p - b * q
      BY <1>1
    <3> QED
      BY <1>1, <1>2, <3>1, <3>2
  <2>2. CASE p < q
    <3>1. b * (q - p) >= b
      BY <1>1, <2>2
    <3>2. b * (q - p) = b * q - b * p
      BY <1>1
    <3> QED
      BY <1>1, <1>2, <3>1, <3>2
  <2> QED
    BY <1>1, <2>1, <2>2
<1>4. m = r
  BY <1>1, <1>2, <1>3
<1> QED
  BY <1>3, <1>4 DEF n, p, m

-----------------------------------------------------------------------------
(* The target serves a request                                             *)

\* A sector that is fetched, when t bytes have been handed over and the buffer is empty.
Fetching(d, r, t) ==
    /\ r.op = "read" /\ d.phase = "DI" /\ d.is_disk /\ d.size = 0
    /\ d.left \in Nat /\ d.lba \in Nat /\ d.lba >= r.lba
    /\ t \in Nat /\ t = (d.lba - r.lba) * SectorSize
    /\ t + d.left * SectorSize = Bytes(r)

\* What the transfer loop relies on.
Goes(d, r, t) == Serving(d, r, t) /\ CacheOK(d) /\ (d.phase = "DI" \/ d.size = 0)

LEMMA LoadedServes ==
    ASSUME NEW d, Target(d), CacheOK(d), NEW r \in Cdbs, NEW t, Fetching(d, r, t), d.left # 0
    PROVE  Goes(Loaded(d, d.lba), r, t)
<1> DEFINE e == Loaded(d, d.lba)
<1>1. /\ e.from = d.lba /\ e.size = SectorSize /\ e.limit = SectorSize /\ e.lba = d.lba + 1
      /\ e.left = d.left - 1 /\ e.phase = d.phase /\ e.is_disk = d.is_disk
      /\ e.tag = d.tag /\ e.data = d.data
  BY DEF Loaded, Target, TargetFields
<1> HIDE DEF e
<1>2. d.left \in Nat \ {0} /\ d.lba \in Nat /\ r.lba \in Nat /\ SectorSize \in Nat \ {0} /\ t \in Nat
  BY ScsiAssumption, DiskAssumption DEF Fetching
<1>3. (d.left - 1) * SectorSize = d.left * SectorSize - SectorSize
  BY <1>2
<1>4. t + e.size + e.left * SectorSize = Bytes(r)
  <2>1. d.left * SectorSize \in Nat
    BY <1>2
  <2> QED
    BY <1>1, <1>2, <1>3, <2>1 DEF Fetching
<1>5. t = (e.from - r.lba) * SectorSize + (SectorSize - e.size)
  <2>1. (d.lba - r.lba) * SectorSize \in Int
    BY <1>2
  <2> QED
    BY <1>1, <1>2, <2>1 DEF Fetching
<1>6. e.size \in 1..SectorSize /\ e.left \in Nat /\ e.lba \in Nat /\ e.from = e.lba - 1
  BY <1>1, <1>2
<1>7. Reading(e, r, t)
  BY <1>1, <1>2, <1>4, <1>5, <1>6 DEF Reading, Fetching
<1>8. CacheOK(e)
  BY <1>1 DEF CacheOK
<1>9. Goes(e, r, t)
  BY <1>1, <1>2, <1>7, <1>8 DEF Goes, Serving, Fetching
<1> QED
  BY <1>9 DEF e

LEMMA SectorServes ==
    ASSUME NEW d, Target(d), CacheOK(d), NEW r \in Cdbs, NEW t, Fetching(d, r, t), NEW failing
    PROVE  Goes(ReadSector(d, failing), r, t)
<1>1. CASE d.left = 0
  <2> DEFINE e == [d EXCEPT !.phase = "ST"]
  <2>1. ReadSector(d, failing) = e
    BY <1>1 DEF ReadSector
  <2>2. e.phase = "ST" /\ e.size = d.size /\ e.tag = d.tag /\ e.data = d.data
    BY DEF Target, TargetFields
  <2> HIDE DEF e
  <2>3. t = Bytes(r)
    BY <1>1, DiskAssumption DEF Fetching
  <2> QED
    BY <2>1, <2>2, <2>3 DEF Goes, Serving, Over, CacheOK, Fetching
<1>2. ASSUME ReadSector(d, failing) = Failed(d) PROVE Goes(ReadSector(d, failing), r, t)
  <2> DEFINE e == Failed(d)
  <2>1. e.phase = "ST" /\ e.status = "check" /\ e.size = d.size /\ e.tag = d.tag /\ e.data = d.data
    BY DEF Failed, Target, TargetFields
  <2> HIDE DEF e
  <2>2. Goes(e, r, t)
    BY <2>1 DEF Goes, Serving, Over, CacheOK, Fetching
  <2> QED
    BY <1>2, <2>2 DEF e
<1>3. Slot(d.lba) \in 0..Slots - 1 /\ d.lba # Empty
  BY DiskAssumption DEF Slot, Fetching, Empty
<1>4. CASE d.left # 0 /\ ~(d.lba >= Sectors) /\ Cached(d, d.lba)
  <2>1. ReadSector(d, failing) = Loaded(d, d.data[Slot(d.lba)])
    BY <1>4 DEF ReadSector
  <2>2. d.data[Slot(d.lba)] = d.lba
    BY <1>3, <1>4 DEF Cached, CacheOK
  <2> QED
    BY <1>4, <2>1, <2>2, LoadedServes
<1>5. CASE d.left # 0 /\ ~(d.lba >= Sectors) /\ ~Cached(d, d.lba) /\ d.lba \notin failing
  <2> DEFINE e == [d EXCEPT !.tag[Slot(d.lba)] = d.lba, !.data[Slot(d.lba)] = d.lba]
  <2>1. ReadSector(d, failing) = Loaded(e, d.lba)
    BY <1>5 DEF ReadSector
  <2>2. /\ e.lba = d.lba /\ e.left = d.left /\ e.phase = d.phase /\ e.is_disk = d.is_disk /\ e.size = d.size
        /\ e.status = d.status /\ e.limit = d.limit
        /\ e = [f \in TargetFields |-> e[f]]
        /\ e.tag = [d.tag EXCEPT ![Slot(d.lba)] = d.lba]
        /\ e.data = [d.data EXCEPT ![Slot(d.lba)] = d.lba]
    BY DEF Target, TargetFields
  <2> HIDE DEF e
  <2>3. CacheOK(e)
    BY <1>3, <2>2 DEF CacheOK
  <2>4. Target(e) /\ Fetching(e, r, t)
    BY <2>2 DEF Target, Fetching
  <2> QED
    BY <1>5, <2>1, <2>2, <2>3, <2>4, LoadedServes
<1>6. CASE d.left # 0 /\ (d.lba >= Sectors \/ (~Cached(d, d.lba) /\ d.lba \in failing))
  BY <1>2, <1>6 DEF ReadSector
<1> QED
  BY <1>1, <1>4, <1>5, <1>6

\* The target takes a request, and has handed nothing over yet.
LEMMA ReceiveServes ==
    ASSUME NEW d, Target(d), CacheOK(d), NEW r \in Cdbs, NEW failing
    PROVE  /\ Serving(ReceiveCommand(d, r, failing), r, 0)
           /\ CacheOK(ReceiveCommand(d, r, failing))
<1>1. r.op \in {"read", "write", "reply", "plain", "bad"} /\ r.count \in Nat /\ r.lba \in Nat
      /\ SectorSize \in Nat \ {0}
  BY ScsiAssumption, DiskAssumption
<1>2. CASE r.op = "read"
  <2> DEFINE e == [d EXCEPT !.lba = r.lba, !.left = r.count, !.is_disk = TRUE, !.size = 0, !.phase = "DI"]
  <2>1. /\ e = [f \in TargetFields |-> e[f]]
        /\ e.lba = r.lba /\ e.left = r.count /\ e.is_disk /\ e.size = 0 /\ e.phase = "DI"
        /\ e.status = d.status /\ e.limit = d.limit /\ e.tag = d.tag /\ e.data = d.data
    BY DEF Target, TargetFields
  <2>2. ReceiveCommand(d, r, failing) = ReadSector(e, failing)
    BY <1>2 DEF ReceiveCommand, Reads
  <2> HIDE DEF e
  <2>3. Target(e) /\ CacheOK(e)
    BY <2>1 DEF Target, CacheOK, Phases
  <2>4. (r.lba - r.lba) * SectorSize = 0
    BY <1>1
  <2>5. Fetching(e, r, 0)
    <3>1. 0 + r.count * SectorSize = Bytes(r)
      BY <1>1, <1>2, BytesNat
    <3> QED
      BY <1>1, <1>2, <2>1, <2>4, <3>1 DEF Fetching
  <2> QED
    BY <2>2, <2>3, <2>5, SectorServes DEF Goes
<1>3. CASE r.op = "write"
  <2> DEFINE lbas == r.lba..r.lba + r.count - 1
             e == Invalidated(d, lbas)
             f == [e EXCEPT !.lba = r.lba, !.left = r.count, !.writes = r.count * SectorSize,
                            !.status = "good", !.phase = "DO"]
  <2>1. ReceiveCommand(d, r, failing) = f
    BY <1>3 DEF ReceiveCommand, Writes
  <2>2. /\ e = [g \in TargetFields |-> e[g]] /\ e.data = d.data
        /\ e.tag = [s \in DOMAIN d.tag |-> IF d.tag[s] \in lbas THEN Empty ELSE d.tag[s]]
    BY DEF Invalidated, Target, TargetFields
  <2> HIDE DEF e, lbas
  <2>3. f.phase = "DO" /\ f.writes = r.count * SectorSize /\ f.tag = e.tag /\ f.data = e.data
    BY <2>2 DEF TargetFields
  <2> HIDE DEF f
  <2>4. CacheOK(f)
    BY <2>2, <2>3 DEF CacheOK
  <2>5. Writing(f, r, 0)
    <3>1. Bytes(r) = r.count * SectorSize /\ Bytes(r) \in Nat
      BY <1>3, BytesNat
    <3> QED
      BY <1>3, <2>3, <3>1 DEF Writing
  <2> QED
    BY <2>1, <2>4, <2>5 DEF Serving
<1>4. CASE r.op = "reply"
  <2> DEFINE e == Replies(d, r)
  <2>1. ReceiveCommand(d, r, failing) = e
    BY <1>4 DEF ReceiveCommand
  <2>2. /\ e.phase = "DI" /\ ~e.is_disk /\ e.limit = r.count /\ e.size = r.count
        /\ e.tag = d.tag /\ e.data = d.data
    BY DEF Replies, Target, TargetFields
  <2> HIDE DEF e
  <2>3. Bytes(r) = r.count
    BY <1>4, BytesNat
  <2> QED
    BY <1>1, <1>4, <2>1, <2>2, <2>3 DEF Serving, Replying, CacheOK
<1>5. CASE r.op \in {"plain", "bad"}
  <2>1. ReceiveCommand(d, r, failing) \in {[d EXCEPT !.status = "good", !.phase = "ST"], Failed(d)}
    BY <1>5 DEF ReceiveCommand
  <2>2. PICK e \in {[d EXCEPT !.status = "good", !.phase = "ST"], Failed(d)} :
           ReceiveCommand(d, r, failing) = e
    BY <2>1
  <2>3. e.phase = "ST" /\ e.tag = d.tag /\ e.data = d.data
    BY <2>2 DEF Failed, Target, TargetFields
  <2>4. Bytes(r) = 0
    BY <1>5, BytesNat
  <2> QED
    BY <2>2, <2>3, <2>4 DEF Serving, Over, CacheOK
<1> QED
  BY <1>1, <1>2, <1>3, <1>4, <1>5

\* One byte more, and in its place.
LEMMA ByteServes ==
    ASSUME NEW d, Target(d), NEW r \in Cdbs, NEW t, Serving(d, r, t), CacheOK(d),
           d.phase = "DI", d.size > 0, NEW failing
    PROVE  /\ Goes(ConsumeByte(d, failing), r, t + 1)
           /\ r.op = "read" => NextByte(d) = <<r.lba + t \div SectorSize, t % SectorSize>>
<1>0. t \in Nat /\ d.size \in Nat /\ SectorSize \in Nat \ {0} /\ r.lba \in Nat
  BY ScsiAssumption, DiskAssumption DEF Serving, Target
<1>1. Reading(d, r, t) \/ Replying(d, r, t)
  BY DEF Serving, Writing, Over
<1>2. CASE Reading(d, r, t)
  <2>0. /\ r.op = "read" /\ d.is_disk /\ d.size \in 1..SectorSize /\ d.limit = SectorSize
        /\ d.left \in Nat /\ d.lba \in Nat /\ d.from = d.lba - 1 /\ d.from >= r.lba
        /\ t = (d.from - r.lba) * SectorSize + (SectorSize - d.size)
        /\ t + d.size + d.left * SectorSize = Bytes(r)
    BY <1>2 DEF Reading
  <2>1. NextByte(d) = <<r.lba + t \div SectorSize, t % SectorSize>>
    <3> DEFINE q == d.from - r.lba
               k == SectorSize - d.size
    <3>1. q \in Nat /\ k \in 0..SectorSize - 1
      BY <1>0, <2>0
    <3>2. t = q * SectorSize + k
      BY <2>0
    <3> HIDE DEF q, k
    <3>3. t \div SectorSize = q /\ t % SectorSize = k
      BY <1>0, <3>1, <3>2, DivMod
    <3>4. r.lba + q = d.from /\ k = d.limit - d.size
      BY <1>0, <2>0 DEF q, k
    <3> QED
      BY <3>3, <3>4 DEF NextByte
  <2>2. CASE d.size > 1
    <3> DEFINE e == [d EXCEPT !.size = @ - 1]
    <3>1. ConsumeByte(d, failing) = e
      BY <2>2 DEF ConsumeByte
    <3>2. /\ e.size = d.size - 1 /\ e.phase = d.phase /\ e.is_disk = d.is_disk /\ e.limit = d.limit
          /\ e.left = d.left /\ e.lba = d.lba /\ e.from = d.from /\ e.tag = d.tag /\ e.data = d.data
      BY DEF Target, TargetFields
    <3> HIDE DEF e
    <3>3. e.size \in 1..SectorSize
      BY <1>0, <2>0, <2>2, <3>2
    <3>4. t + 1 = (e.from - r.lba) * SectorSize + (SectorSize - e.size)
      <4>1. (d.from - r.lba) * SectorSize \in Int
        BY <1>0, <2>0
      <4> QED
        BY <1>0, <2>0, <3>2, <4>1
    <3>5. (t + 1) + e.size + e.left * SectorSize = Bytes(r)
      <4>1. d.left * SectorSize \in Int
        BY <1>0, <2>0
      <4> QED
        BY <1>0, <2>0, <3>2, <4>1
    <3>6. Reading(e, r, t + 1)
      BY <2>0, <3>2, <3>3, <3>4, <3>5 DEF Reading
    <3> QED
      BY <1>0, <2>1, <3>1, <3>2, <3>6 DEF Goes, Serving, CacheOK
  <2>3. CASE ~(d.size > 1)
    <3> DEFINE e == [d EXCEPT !.size = 0]
    <3>1. ConsumeByte(d, failing) = ReadSector(e, failing)
      BY <2>0, <2>3 DEF ConsumeByte
    <3>2. /\ e = [f \in TargetFields |-> e[f]]
          /\ e.size = 0 /\ e.phase = d.phase /\ e.is_disk = d.is_disk /\ e.limit = d.limit
          /\ e.left = d.left /\ e.lba = d.lba /\ e.status = d.status /\ e.tag = d.tag /\ e.data = d.data
      BY DEF Target, TargetFields
    <3> HIDE DEF e
    <3>3. Target(e) /\ CacheOK(e)
      BY <3>2 DEF Target, CacheOK
    <3>4. d.size = 1
      BY <2>0, <2>3
    <3>5. t + 1 = (d.lba - r.lba) * SectorSize
      <4>1. d.lba - r.lba = (d.from - r.lba) + 1
        BY <1>0, <2>0
      <4>2. ((d.from - r.lba) + 1) * SectorSize = (d.from - r.lba) * SectorSize + SectorSize
        BY <1>0, <2>0
      <4>3. (d.from - r.lba) * SectorSize \in Int
        BY <1>0, <2>0
      <4> QED
        BY <1>0, <2>0, <3>4, <4>1, <4>2, <4>3
    <3>6. Fetching(e, r, t + 1)
      <4>1. d.lba >= r.lba /\ t + 1 \in Nat
        BY <1>0, <2>0
      <4>2. (t + 1) + e.left * SectorSize = Bytes(r)
        <5>1. d.left * SectorSize \in Int
          BY <1>0, <2>0
        <5> QED
          BY <1>0, <2>0, <3>2, <3>4, <5>1
      <4> QED
        BY <2>0, <3>2, <3>5, <4>1, <4>2 DEF Fetching
    <3> QED
      BY <2>1, <3>1, <3>3, <3>6, SectorServes
  <2> QED
    BY <2>2, <2>3
<1>3. CASE Replying(d, r, t)
  <2>0. r.op = "reply" /\ ~d.is_disk /\ d.limit = r.count /\ t + d.size = Bytes(r)
    BY <1>3 DEF Replying
  <2>1. CASE d.size > 1
    <3> DEFINE e == [d EXCEPT !.size = @ - 1]
    <3>1. ConsumeByte(d, failing) = e
      BY <2>1 DEF ConsumeByte
    <3>2. /\ e.size = d.size - 1 /\ e.phase = d.phase /\ e.is_disk = d.is_disk /\ e.limit = d.limit
          /\ e.tag = d.tag /\ e.data = d.data
      BY DEF Target, TargetFields
    <3> HIDE DEF e
    <3>3. (t + 1) + e.size = Bytes(r)
      BY <1>0, <2>0, <3>2
    <3> QED
      BY <1>0, <2>0, <3>1, <3>2, <3>3 DEF Goes, Serving, Replying, CacheOK
  <2>2. CASE ~(d.size > 1)
    <3> DEFINE e == [d EXCEPT !.size = 0, !.phase = "ST"]
    <3>1. ConsumeByte(d, failing) = e
      BY <2>0, <2>2 DEF ConsumeByte
    <3>2. e.size = 0 /\ e.phase = "ST" /\ e.tag = d.tag /\ e.data = d.data
      BY DEF Target, TargetFields
    <3> HIDE DEF e
    <3>3. t + 1 = Bytes(r)
      BY <1>0, <2>0, <2>2
    <3> QED
      BY <1>0, <2>0, <3>1, <3>2, <3>3 DEF Goes, Serving, Over, CacheOK
  <2> QED
    BY <2>0, <2>1, <2>2
<1> QED
  BY <1>1, <1>2, <1>3

LEMMA WriteServes ==
    ASSUME NEW d, Target(d), NEW r \in Cdbs, NEW t, Serving(d, r, t), CacheOK(d),
           d.phase = "DO", d.writes > 0
    PROVE  /\ Serving(ConsumeWriteByte(d), r, t + 1) /\ CacheOK(ConsumeWriteByte(d))
           /\ ConsumeWriteByte(d).writes > 0 => ConsumeWriteByte(d).phase = "DO"
<1> DEFINE e == ConsumeWriteByte(d)
<1>1. /\ e.writes = d.writes - 1 /\ e.phase = IF d.writes = 1 THEN "ST" ELSE d.phase
      /\ e.tag = d.tag /\ e.data = d.data
  BY DEF ConsumeWriteByte, Target, TargetFields
<1>2. Writing(d, r, t) /\ t \in Nat
  BY DEF Serving, Reading, Replying, Over
<1> HIDE DEF e
<1>3. Serving(e, r, t + 1) /\ CacheOK(e) /\ (e.writes > 0 => e.phase = "DO")
  <2>1. CacheOK(e)
    BY <1>1 DEF CacheOK
  <2>2. d.writes \in Nat \ {0} /\ t + d.writes = Bytes(r) /\ r.op = "write"
    BY <1>2 DEF Writing
  <2>3. CASE d.writes = 1
    BY <1>1, <1>2, <2>1, <2>2, <2>3 DEF Serving, Over
  <2>4. CASE d.writes # 1
    BY <1>1, <1>2, <2>1, <2>2, <2>4 DEF Serving, Writing
  <2> QED
    BY <2>3, <2>4
<1> QED
  BY <1>3 DEF e

-----------------------------------------------------------------------------
(* The transfer of a driver                                                *)

\* What has been moved is never more than was asked for.
LEMMA ServingWithin ==
    ASSUME NEW d, Target(d), NEW r \in Cdbs, NEW t, Serving(d, r, t),
           \/ d.phase = "DI" /\ d.size > 0
           \/ d.phase = "DO" /\ d.writes > 0
    PROVE  t + 1 \in 0..Bytes(r)
<1>1. t \in Nat /\ d.size \in Nat /\ Bytes(r) \in Nat /\ SectorSize \in Nat
  BY BytesNat, DiskAssumption DEF Serving, Target
<1>2. CASE Reading(d, r, t)
  <2>1. d.size \in 1..SectorSize /\ d.left \in Nat /\ t + d.size + d.left * SectorSize = Bytes(r)
        /\ d.phase = "DI"
    BY <1>2 DEF Reading
  <2>2. d.left * SectorSize \in Nat
    BY <1>1, <2>1
  <2> QED
    BY <1>1, <2>1, <2>2
<1>3. CASE Writing(d, r, t)
  BY <1>1, <1>3 DEF Writing
<1>4. CASE Replying(d, r, t)
  BY <1>1, <1>4 DEF Replying
<1>5. CASE Over(d, r, t)
  BY <1>5 DEF Over
<1> QED
  BY <1>2, <1>3, <1>4, <1>5 DEF Serving

\* The data between the rounds of the transfer loop: what the target has handed
\* over lies where the pointer has passed.
Handing(r, in) ==
    /\ CacheOK(r.disk) /\ Serving(r.disk, request, r.dma.next) /\ Copied(r.mem, request, r.dma.next)
    /\ r.dma.next <= Total
    /\ IF in THEN r.disk.phase = "DI" \/ r.disk.size = 0
       ELSE r.disk.phase = "DO" \/ ~(r.disk.writes > 0)

LEMMA HandingStep ==
    ASSUME NEW in, NEW count \in Nat, NEW failing, NEW r, Round(r, in, count), CanMove(r, in),
           dma \in Channels, Memory, request \in Cdbs, Handing(r, in)
    PROVE  Handing(Moved(r, in, failing), in)
<1> DEFINE at == r.dma.next
           s == Moved(r, in, failing)
           c == [r.dma EXCEPT !.next = @ + 1]
<1>1. /\ r.left > 0 /\ at < r.dma.limit /\ Available(r.disk, in) > 0
      /\ r.dma \in Channels /\ r.left \in 0..count /\ Target(r.disk) /\ DOMAIN r.mem = DOMAIN mem
      /\ r = [dma |-> r.dma, disk |-> r.disk, mem |-> r.mem, left |-> r.left]
  BY DEF Round, CanMove
<1>2. c.next = at + 1 /\ at \in Nat
  BY <1>1 DEF Channels
<1>3. CacheOK(r.disk) /\ Serving(r.disk, request, at) /\ Copied(r.mem, request, at) /\ at <= Total
  BY DEF Handing
<1>4. CASE ~in
  <2>1. s = [dma |-> c, disk |-> ConsumeWriteByte(r.disk), mem |-> r.mem, left |-> r.left - 1]
    BY <1>1, <1>4 DEF Moved
  <2> HIDE DEF s, c
  <2>2. s.dma.next = at + 1 /\ s.mem = r.mem /\ s.disk = ConsumeWriteByte(r.disk)
    BY <1>2, <2>1
  <2>3. r.disk.phase = "DO" /\ r.disk.writes > 0
    BY <1>1, <1>4 DEF Handing, Available
  <2> HIDE DEF at
  <2>4. /\ Serving(s.disk, request, at + 1) /\ CacheOK(s.disk)
        /\ s.disk.writes > 0 => s.disk.phase = "DO"
    BY <1>1, <1>3, <2>2, <2>3, WriteServes
  <2>5. at + 1 <= Total
    <3>1. at + 1 \in 0..Bytes(request)
      BY <1>1, <1>3, <2>3, ServingWithin
    <3> QED
      BY <1>2, <3>1, BytesNat DEF Total
  <2>6. Copied(s.mem, request, at + 1)
    <3>1. request.op # "read"
      BY <1>3, <2>3 DEF Serving, Reading, Writing, Replying, Over
    <3> QED
      BY <3>1 DEF Copied
  <2>7. Handing(s, in)
    BY <1>4, <2>2, <2>4, <2>5, <2>6 DEF Handing
  <2> QED
    BY <2>7 DEF s
<1>5. CASE in /\ at >= RamTop
  <2>1. s = [dma |-> [r.dma EXCEPT !.busexc = TRUE], disk |-> r.disk, mem |-> r.mem, left |-> r.left]
    BY <1>1, <1>5 DEF Moved
  <2>2. [r.dma EXCEPT !.busexc = TRUE].next = r.dma.next
    BY <1>1 DEF Channels
  <2> HIDE DEF s
  <2>3. s.dma.next = r.dma.next /\ s.mem = r.mem /\ s.disk = r.disk
    BY <2>1, <2>2
  <2>4. Handing(s, in)
    BY <2>3 DEF Handing
  <2> QED
    BY <2>4 DEF s
<1>6. CASE in /\ ~(at >= RamTop)
  <2> DEFINE m == [r.mem EXCEPT ![at] = NextByte(r.disk)]
  <2>1. s = [dma |-> c, disk |-> ConsumeByte(r.disk, failing), mem |-> m, left |-> r.left - 1]
    BY <1>1, <1>6 DEF Moved
  <2>2. at \in DOMAIN r.mem
    BY <1>1, <1>2, <1>6, ScsiAssumption DEF Memory
  <2>3. m[at] = NextByte(r.disk) /\ \A a \in 0..at - 1 : m[a] = r.mem[a]
    <3>1. 0..at - 1 \subseteq DOMAIN r.mem /\ at \notin 0..at - 1
      BY <1>1, <1>2, <1>6, ScsiAssumption DEF Memory
    <3> HIDE DEF at
    <3> QED
      BY <2>2, <3>1
  <2> HIDE DEF s, c, m
  <2>4. s.dma.next = at + 1 /\ s.mem = m /\ s.disk = ConsumeByte(r.disk, failing)
    BY <1>2, <2>1
  <2>5. r.disk.phase = "DI" /\ r.disk.size > 0
    BY <1>1, <1>6 DEF Handing, Available, Target
  <2> HIDE DEF at
  <2>6. /\ Goes(s.disk, request, at + 1)
        /\ request.op = "read" =>
              NextByte(r.disk) = <<request.lba + at \div SectorSize, at % SectorSize>>
    BY <1>1, <1>3, <2>4, <2>5, ByteServes
  <2>7. at + 1 <= Total
    <3>1. at + 1 \in 0..Bytes(request)
      BY <1>1, <1>3, <2>5, ServingWithin
    <3> QED
      BY <1>2, <3>1, BytesNat DEF Total
  <2>8. Copied(s.mem, request, at + 1)
    <3> SUFFICES ASSUME request.op = "read", NEW k \in 0..(at + 1) - 1
                 PROVE  s.mem[k] = <<request.lba + k \div SectorSize, k % SectorSize>>
      BY DEF Copied
    <3>1. CASE k = at
      BY <2>3, <2>4, <2>6, <3>1
    <3>2. CASE k # at
      <4>1. k \in 0..at - 1
        BY <1>2, <3>2
      <4> QED
        BY <1>3, <2>3, <2>4, <4>1 DEF Copied
    <3> QED
      BY <3>1, <3>2
  <2>9. Handing(s, in)
    BY <1>6, <2>4, <2>6, <2>7, <2>8 DEF Handing, Goes
  <2> QED
    BY <2>9 DEF s
<1> QED
  BY <1>4, <1>5, <1>6

LEMMA TransferHands ==
    ASSUME NEW in, NEW count \in Nat, NEW failing, dma \in Channels, Target(disk), Memory,
           request \in Cdbs, CacheOK(disk), disk.phase \in {"DI", "DO"}, in = (disk.phase = "DI"),
           Handed(dma.next), dma.next <= Total
    PROVE  \E r : /\ Round(r, in, count) /\ Handing(r, in)
                  /\ Transfer(in, count, failing) = Concluded(r, count)
<1>1. PICK run : /\ Rounds(run, count, in, count, failing)
                 /\ Transfer(in, count, failing) = Concluded(run[count], count)
  BY TransferIsLoop
<1> DEFINE P == {n \in 0..count : Round(run[n], in, count) /\ Handing(run[n], in)}
<1>2. 0 \in P
  <2> DEFINE r == [dma |-> [dma EXCEPT !.busexc = FALSE], disk |-> disk, mem |-> mem, left |-> count]
  <2>1. run[0] = r
    BY <1>1 DEF Rounds
  <2>2. /\ r.dma \in Channels /\ r.dma.next = dma.next /\ r.dma.limit = dma.limit
        /\ r.dma.complete = dma.complete
    BY DEF Channels
  <2>3. dma.next \in Nat
    BY DEF Channels
  <2>4. Round(r, in, count)
    BY <2>2, <2>3 DEF Round
  <2>5. r.disk = disk /\ r.mem = mem
    OBVIOUS
  <2> HIDE DEF r
  <2>6. Handing(r, in)
    BY <2>2, <2>5 DEF Handing, Handed
  <2> QED
    BY <2>1, <2>4, <2>6
<1>3. ASSUME NEW n \in 1..count, n - 1 \in P PROVE n \in P
  <2>1. n \in 0..count /\ n # 0 /\ Round(run[n - 1], in, count) /\ Handing(run[n - 1], in)
    BY <1>3
  <2>2. run[n] = IF CanMove(run[n - 1], in) THEN Moved(run[n - 1], in, failing) ELSE run[n - 1]
    BY <1>1, <2>1 DEF Rounds
  <2> QED
    BY <2>1, <2>2, RoundStep, HandingStep
<1>4. count \in P
  <2> HIDE DEF P
  <2> QED
    BY <1>2, <1>3, Induct
<1> QED
  BY <1>1, <1>4

\* What a transfer has left over, as the driver counts it.
Advance(left) == IF left <= Asked THEN Asked - left ELSE 0

LEMMA AskedBounds ==
    ASSUME request \in Cdbs, moved \in 0..Total
    PROVE  /\ Total \in Nat /\ moved \in Nat
           /\ Asked \in 0..MaxCount /\ moved + Asked <= Total
           /\ Asked = 0 => moved = Total
           /\ \A left \in Nat : Advance(left) \in 0..Asked
<1>1. Total \in Nat
  BY BytesNat DEF Total
<1>2. moved \in Nat /\ Total - moved \in Nat /\ Chunk \in 1..MaxCount /\ MaxCount \in Nat
  BY <1>1, ScsiAssumption, DriverAssumption
<1> HIDE DEF Total
<1>3. Asked \in 0..MaxCount /\ moved + Asked <= Total /\ (Asked = 0 => moved = Total)
  BY <1>1, <1>2 DEF Asked
<1> HIDE DEF Asked
<1>4. \A left \in Nat : Advance(left) \in 0..Asked
  BY <1>2, <1>3 DEF Advance
<1> QED
  BY <1>1, <1>2, <1>3, <1>4

\* A deferred transfer hands over as much as the chip's counter says.
LEMMA DeferredHands ==
    ASSUME FreeInv, DriverTypes, Data, deferred.ticks = 1, NEW failing, request \in Cdbs,
           NEW t, t = Transfer(deferred.in, deferred.count, failing)
    PROVE  /\ CacheOK(t.disk) /\ t.left \in Nat
           /\ Serving(t.disk, request, moved + Advance(t.left))
           /\ Copied(t.mem, request, moved + Advance(t.left))
<1>1. /\ CacheOK(disk) /\ disk.phase \in {"DI", "DO"} /\ Handed(moved) /\ dma.next = moved
      /\ deferred.in = (disk.phase = "DI")
      /\ deferred.count = IF Asked = 0 THEN MaxCount ELSE Asked
  BY DEF Data
<1>2. moved \in 0..Total
  BY DEF DriverTypes
<1>3. /\ Total \in Nat /\ moved \in Nat /\ Asked \in 0..MaxCount /\ moved + Asked <= Total
      /\ Asked = 0 => moved = Total
  BY <1>2, AskedBounds
<1>4. deferred.count \in Nat /\ MaxCount \in Nat \ {0} /\ deferred.count # 0
  BY <1>1, <1>3, ScsiAssumption
<1>5. dma \in Channels /\ Target(disk) /\ Memory
  BY DEF FreeInv, Parts
<1>6. CASE ~dma.enable
  <2>1. t = NotMoved(deferred.count)
    BY <1>6 DEF Transfer
  <2>2. t.disk = disk /\ t.mem = mem /\ t.left = deferred.count
    BY <2>1 DEF NotMoved
  <2>3. Advance(t.left) = 0
    BY <1>1, <1>3, <1>4, <2>2 DEF Advance
  <2>4. moved + Advance(t.left) = moved
    BY <1>3, <2>3
  <2> QED
    BY <1>1, <1>4, <2>2, <2>4 DEF Handed
<1>7. CASE dma.enable
  <2>1. PICK r : /\ Round(r, deferred.in, deferred.count) /\ Handing(r, deferred.in)
                 /\ t = Concluded(r, deferred.count)
    BY <1>1, <1>3, <1>4, <1>5, TransferHands
  <2>2. t.disk = r.disk /\ t.mem = r.mem /\ t.left = r.left
    BY <1>7, <2>1 DEF Concluded
  <2>3. /\ CacheOK(r.disk) /\ Serving(r.disk, request, r.dma.next)
        /\ Copied(r.mem, request, r.dma.next) /\ r.dma.next <= Total
    BY <2>1 DEF Handing
  <2>4. r.left \in 0..deferred.count /\ r.dma.next = moved + (deferred.count - r.left)
    BY <1>1, <2>1 DEF Round
  <2>5. r.dma.next = moved + Advance(r.left)
    <3>1. CASE Asked = 0
      BY <1>1, <1>3, <1>4, <2>3, <2>4, <3>1 DEF Advance
    <3>2. CASE Asked # 0
      BY <1>1, <1>3, <1>4, <2>4, <3>2 DEF Advance
    <3> QED
      BY <3>1, <3>2
  <2> QED
    BY <1>4, <2>2, <2>3, <2>4, <2>5
<1> QED
  BY <1>6, <1>7

-----------------------------------------------------------------------------
(* The driver's accesses, one by one                                       *)

\* What neither an interrupt nor a command in progress depends on.
SameSignals(e, f) ==
    /\ f.queue = e.queue /\ f.resrept = e.resrept /\ f.int = e.int /\ f.inprog = e.inprog
    /\ f.intstatus = e.intstatus

\* A chip on which a command has been started, as the command finds it.
Started(c, e) ==
    /\ e \in Chips /\ e.queue = NoCommand /\ e.int = esp.int /\ e.intstatus = esp.intstatus
    /\ e.fifo = esp.fifo /\ e.resrept = esp.resrept /\ e.busid = esp.busid /\ e.count = esp.count
    /\ c.dma => e.counter = IF esp.count = 0 THEN MaxCount ELSE esp.count

LEMMA CommandEffect ==
    ASSUME FreeInv, NEW c, WriteCommand(c), esp.queue = NoCommand,
           c.op \in {"reset", "busreset"} \/ ~esp.inprog
    PROVE  \E e : /\ Started(c, e)
                  /\ \/ c.op = "flush" /\ Flush(e, intr)
                     \/ c.op = "reset" /\ ChipReset(e, intr)
                     \/ c.op = "busreset" /\ BusReset(e, intr)
                     \/ c.op = "sel" /\ (SelectTimesOut(e, intr) \/ SelectTakesCommand(e, intr))
                     \/ c.op = "ti" /\ c.dma /\ TransferDma(e, intr)
                     \/ c.op = "iccs" /\ CommandComplete(e, intr)
                     \/ c.op = "msgacc" /\ MessageAccepted(e, intr)
                     \/ c \notin {[op |-> o, dma |-> FALSE] :
                                     o \in {"flush", "sel", "iccs", "msgacc", "reset", "busreset"}}
                                     \cup {[op |-> "ti", dma |-> TRUE]}
                  /\ UNCHANGED <<dma, mem>>
<1> DEFINE waiting == esp.queue # NoCommand
           e0 == [esp EXCEPT !.ge = @ \/ waiting]
           e == [e0 EXCEPT !.inprog = TRUE, !.tc = @ /\ ~c.dma,
                           !.counter = IF ~c.dma THEN @
                                       ELSE IF e0.count = 0 THEN MaxCount ELSE e0.count]
<1>1. esp \in Chips /\ MaxCount \in 0..MaxCount
  BY ScsiAssumption DEF FreeInv, Parts, Well
<1>2. /\ e0 \in Chips /\ e0.queue = NoCommand /\ e0.int = esp.int /\ e0.intstatus = esp.intstatus
      /\ e0.fifo = esp.fifo /\ e0.resrept = esp.resrept /\ e0.busid = esp.busid
      /\ e0.count = esp.count /\ e0.inprog = esp.inprog
  BY <1>1 DEF Chips
<1>3. Start(c, e0, intr)
  BY DEF WriteCommand
<1> HIDE DEF e0
<1>4. Started(c, e)
  <2> DEFINE n == IF ~c.dma THEN e0.counter ELSE IF e0.count = 0 THEN MaxCount ELSE e0.count
             k == e0.tc /\ ~c.dma
  <2>1. n \in 0..MaxCount /\ k \in BOOLEAN
    BY <1>1, <1>2 DEF Chips
  <2>2. e = [e0 EXCEPT !.inprog = TRUE, !.tc = k, !.counter = n]
    OBVIOUS
  <2>3. c.dma => n = IF esp.count = 0 THEN MaxCount ELSE esp.count
    BY <1>2
  <2> HIDE DEF n, k, e
  <2>4. e \in Chips
    BY <1>2, <2>1, <2>2 DEF Chips
  <2>5. /\ e.queue = e0.queue /\ e.int = e0.int /\ e.intstatus = e0.intstatus /\ e.fifo = e0.fifo
        /\ e.resrept = e0.resrept /\ e.busid = e0.busid /\ e.count = e0.count /\ e.counter = n
    BY <1>2, <2>2 DEF Chips
  <2> QED
    BY <1>2, <2>3, <2>4, <2>5 DEF Started
<1>5. /\ \/ c.op = "nop" /\ Nop(e, intr)
         \/ c.op = "flush" /\ Flush(e, intr)
         \/ c.op = "reset" /\ ChipReset(e, intr)
         \/ c.op = "busreset" /\ BusReset(e, intr)
         \/ c.op = "sel" /\ (SelectTimesOut(e, intr) \/ SelectTakesCommand(e, intr))
         \/ c.op = "ti" /\ c.dma /\ TransferDma(e, intr)
         \/ c.op = "ti" /\ ~c.dma /\ TransferByte(e, intr)
         \/ c.op = "iccs" /\ CommandComplete(e, intr)
         \/ c.op = "msgacc" /\ MessageAccepted(e, intr)
         \/ c.op = "pad" /\ TransferPad(e, intr)
         \/ c.op = "illegal" /\ Refuse(e, intr)
      /\ UNCHANGED <<dma, mem>>
  BY <1>3 DEF Start
<1> HIDE DEF e
<1>6. c.op \in {"nop", "pad", "illegal"} \/ (c.op = "ti" /\ ~c.dma) =>
         c \notin {[op |-> o, dma |-> FALSE] :
                      o \in {"flush", "sel", "iccs", "msgacc", "reset", "busreset"}}
                      \cup {[op |-> "ti", dma |-> TRUE]}
  OBVIOUS
<1> QED
  BY <1>4, <1>5, <1>6

\* An interrupt whose cause can be read.
Interrupts == esp'.int /\ esp'.intstatus # {}

\* Nothing waits behind what is in progress.
Alone == esp'.queue = NoCommand /\ esp'.resrept = esp.resrept

LEMMA RaiseEffect ==
    ASSUME NEW e \in Chips, NEW causes, causes # {}, NEW i, Raise(Cause(e, causes), i),
           e.queue = NoCommand, e.resrept = esp.resrept
    PROVE  Interrupts /\ Alone
<1>1. esp' = Raised(Cause(e, causes))
  BY DEF Raise
<1>2. Cause(e, causes) = [e EXCEPT !.intstatus = causes]
  BY DEF Cause
<1>3. /\ esp'.int = TRUE /\ esp'.intstatus = causes
      /\ esp'.queue = e.queue /\ esp'.resrept = e.resrept
  BY <1>1, <1>2 DEF Raised, Chips
<1> QED
  BY <1>3 DEF Interrupts, Alone

LEMMA PushFields ==
    ASSUME NEW e \in Chips, Len(e.fifo) <= FifoSize, NEW item \in Items
    PROVE  /\ Pushed(e, item).queue = e.queue /\ Pushed(e, item).resrept = e.resrept
           /\ Pushed(e, item).intstatus = e.intstatus /\ Pushed(e, item).inprog = e.inprog
           /\ ~Full(e) => /\ Pushed(e, item).int = e.int
                          /\ Pushed(e, item).fifo = Append(e.fifo, item)
<1>1. CASE Full(e)
  <2> DEFINE q == [e.fifo EXCEPT ![FifoSize] = item]
             f == [e EXCEPT !.fifo = q, !.ge = TRUE]
  <2>1. Pushed(e, item) = Raised(f)
    BY <1>1 DEF Pushed
  <2> HIDE DEF q
  <2>2. Raised(f).queue = e.queue /\ Raised(f).resrept = e.resrept /\ Raised(f).intstatus = e.intstatus
        /\ Raised(f).inprog = e.inprog
    BY DEF Raised, Chips
  <2> QED
    BY <1>1, <2>1, <2>2
<1>2. CASE ~Full(e)
  <2> DEFINE q == Append(e.fifo, item)
  <2>1. Pushed(e, item) = [e EXCEPT !.fifo = q]
    BY <1>2 DEF Pushed
  <2> HIDE DEF q
  <2>2. /\ Pushed(e, item).queue = e.queue /\ Pushed(e, item).resrept = e.resrept
        /\ Pushed(e, item).intstatus = e.intstatus /\ Pushed(e, item).int = e.int
        /\ Pushed(e, item).fifo = q /\ Pushed(e, item).inprog = e.inprog
    BY <2>1 DEF Chips
  <2> QED
    BY <2>2 DEF q
<1> QED
  BY <1>1, <1>2

Plain(op) == [op |-> op, dma |-> FALSE]

\* A command of the driver, other than a transfer.
LEMMA PlainEffect ==
    ASSUME FreeInv, NEW op \in {"flush", "sel", "iccs", "msgacc", "reset", "busreset"},
           WriteCommand(Plain(op)), esp.queue = NoCommand,
           op \in {"reset", "busreset"} \/ ~esp.inprog
    PROVE  \E e : /\ Started(Plain(op), e)
                  /\ \/ op = "flush" /\ Flush(e, intr)
                     \/ op = "reset" /\ ChipReset(e, intr)
                     \/ op = "busreset" /\ BusReset(e, intr)
                     \/ op = "sel" /\ (SelectTimesOut(e, intr) \/ SelectTakesCommand(e, intr))
                     \/ op = "iccs" /\ CommandComplete(e, intr)
                     \/ op = "msgacc" /\ MessageAccepted(e, intr)
                  /\ UNCHANGED <<dma, mem>>
<1> DEFINE c == Plain(op)
<1>1. c.op = op /\ ~c.dma /\ c = [op |-> op, dma |-> FALSE]
  BY DEF Plain
<1>2. c \in {[op |-> o, dma |-> FALSE] : o \in {"flush", "sel", "iccs", "msgacc", "reset", "busreset"}}
  BY <1>1
<1> HIDE DEF c
<1>3. WriteCommand(c)
  BY DEF c
<1>4. PICK e : /\ Started(c, e)
               /\ \/ c.op = "flush" /\ Flush(e, intr)
                  \/ c.op = "reset" /\ ChipReset(e, intr)
                  \/ c.op = "busreset" /\ BusReset(e, intr)
                  \/ c.op = "sel" /\ (SelectTimesOut(e, intr) \/ SelectTakesCommand(e, intr))
                  \/ c.op = "ti" /\ c.dma /\ TransferDma(e, intr)
                  \/ c.op = "iccs" /\ CommandComplete(e, intr)
                  \/ c.op = "msgacc" /\ MessageAccepted(e, intr)
                  \/ c \notin {[op |-> o, dma |-> FALSE] :
                                  o \in {"flush", "sel", "iccs", "msgacc", "reset", "busreset"}}
                                  \cup {[op |-> "ti", dma |-> TRUE]}
               /\ UNCHANGED <<dma, mem>>
  BY <1>1, <1>3, CommandEffect
<1>5. /\ Started(c, e)
      /\ \/ op = "flush" /\ Flush(e, intr)
         \/ op = "reset" /\ ChipReset(e, intr)
         \/ op = "busreset" /\ BusReset(e, intr)
         \/ op = "sel" /\ (SelectTimesOut(e, intr) \/ SelectTakesCommand(e, intr))
         \/ op = "iccs" /\ CommandComplete(e, intr)
         \/ op = "msgacc" /\ MessageAccepted(e, intr)
      /\ UNCHANGED <<dma, mem>>
  BY <1>1, <1>2, <1>4
<1> QED
  BY <1>5 DEF c

LEMMA FlushEffect ==
    ASSUME FreeInv, WriteCommand(Plain("flush")), esp.queue = NoCommand, ~esp.inprog
    PROVE  /\ Alone /\ esp'.int = esp.int /\ ~esp'.inprog /\ esp'.fifo = <<>>
           /\ UNCHANGED <<seltimer, dma, deferred, disk, mem>>
<1>1. PICK e : Started(Plain("flush"), e) /\ Flush(e, intr) /\ UNCHANGED <<dma, mem>>
  BY PlainEffect
<1>2. e \in Chips /\ e.queue = NoCommand /\ e.resrept = esp.resrept /\ e.int = esp.int
  BY <1>1 DEF Started
<1>3. esp' = [e EXCEPT !.inprog = FALSE, !.fifo = <<>>] /\ UNCHANGED <<seltimer, deferred, disk>>
  BY <1>1 DEF Flush
<1>4. /\ esp'.queue = e.queue /\ esp'.resrept = e.resrept /\ esp'.int = e.int
      /\ ~esp'.inprog /\ esp'.fifo = <<>>
  BY <1>2, <1>3 DEF Chips
<1> QED
  BY <1>1, <1>2, <1>3, <1>4 DEF Alone

\* A selection is answered, or times out after a while.
LEMMA SelectEffect ==
    ASSUME FreeInv, WriteCommand(Plain("sel")), esp.queue = NoCommand, ~esp.inprog, ~esp.int,
           esp.fifo = <<Identify, request>>, request \in Cdbs, CacheOK(disk)
    PROVE  /\ Alone /\ UNCHANGED <<dma, deferred, mem>> /\ esp'.intstatus # {}
           /\ seltimer' > 0 => ~esp'.int
           /\ CacheOK(disk') /\ ("DC" \in esp'.intstatus \/ Serving(disk', request, 0))
<1>1. PICK e : /\ Started(Plain("sel"), e) /\ UNCHANGED <<dma, mem>>
               /\ SelectTimesOut(e, intr) \/ SelectTakesCommand(e, intr)
  BY PlainEffect
<1>2. /\ e \in Chips /\ e.queue = NoCommand /\ e.resrept = esp.resrept /\ e.int = esp.int
      /\ e.fifo = <<Identify, request>>
  BY <1>1 DEF Started
<1>3. Target(disk)
  BY DEF FreeInv, Parts
<1>4. CASE SelectTimesOut(e, intr)
  <2>1. /\ esp' = CommandCleared(Cause(e, {"DC"})) /\ disk' = [disk EXCEPT !.phase = "ST"]
        /\ UNCHANGED deferred
    BY <1>4 DEF SelectTimesOut
  <2>2. /\ esp'.queue = NoCommand /\ esp'.resrept = e.resrept /\ esp'.int = e.int
        /\ esp'.intstatus = {"DC"}
    BY <1>2, <2>1 DEF CommandCleared, Cause, Chips
  <2>3. CacheOK(disk')
    <3>1. disk'.tag = disk.tag /\ disk'.data = disk.data
      BY <1>3, <2>1 DEF Target, TargetFields
    <3> QED
      BY <3>1 DEF CacheOK
  <2> QED
    BY <1>1, <1>2, <2>1, <2>2, <2>3 DEF Alone
<1>5. CASE SelectTakesCommand(e, intr)
  <2>1. seltimer' = 0 /\ UNCHANGED deferred
    BY <1>5 DEF SelectTakesCommand
  <2>2. BlockIn(e.fifo) = {request}
    BY <1>2 DEF BlockIn
  <2>3. PICK failing : disk' = ReceiveCommand(disk, request, failing)
    BY <1>5, <2>2 DEF SelectTakesCommand
  <2>4. Serving(disk', request, 0) /\ CacheOK(disk')
    BY <1>3, <2>3, ReceiveServes
  <2>5. PICK taken \in 0..Len(e.fifo) :
           Raise(Cause(CommandCleared([e EXCEPT !.fifo = SubSeq(@, taken + 1, Len(@))]),
                       {"BS", "FC"}), intr)
    BY <1>5 DEF SelectTakesCommand
  <2> DEFINE rest == SubSeq(e.fifo, taken + 1, Len(e.fifo))
             f == CommandCleared([e EXCEPT !.fifo = rest])
  <2>6. rest \in Seq(Items)
    <3>1. e.fifo \in Seq(Items)
      BY <1>2 DEF Chips
    <3>2. Len(e.fifo) \in Nat /\ taken \in 0..Len(e.fifo)
      BY <3>1
    <3>3. taken + 1 \in 1..Len(e.fifo) + 1
      BY <3>2
    <3> QED
      BY <3>1, <3>3
  <2>7. Raise(Cause(f, {"BS", "FC"}), intr)
    BY <2>5
  <2> HIDE DEF rest
  <2>8. f \in Chips /\ f.queue = NoCommand /\ f.resrept = e.resrept
    BY <1>2, <2>6 DEF CommandCleared, Chips
  <2> HIDE DEF f
  <2>9. Interrupts /\ Alone
    BY <1>2, <2>7, <2>8, RaiseEffect
  <2> QED
    BY <1>1, <2>1, <2>4, <2>9 DEF Interrupts
<1> QED
  BY <1>1, <1>4, <1>5

\* A transfer is put off, for as many bytes as were asked for.
LEMMA TransferEffect ==
    ASSUME FreeInv, WriteCommand([op |-> "ti", dma |-> TRUE]), esp.queue = NoCommand, ~esp.inprog,
           deferred.ticks = 0
    PROVE  /\ Alone /\ esp'.int = esp.int /\ esp'.intstatus = esp.intstatus
           /\ UNCHANGED <<seltimer, dma, disk, mem>>
           /\ deferred' = [ticks |-> DmaDelay, in |-> disk.phase = "DI",
                           count |-> IF esp.count = 0 THEN MaxCount ELSE esp.count]
<1> DEFINE c == [op |-> "ti", dma |-> TRUE]
<1>1. PICK e : /\ Started(c, e) /\ TransferDma(e, intr) /\ UNCHANGED <<dma, mem>>
  <2>1. c.op = "ti" /\ c.dma /\ c \in {[op |-> "ti", dma |-> TRUE]}
    OBVIOUS
  <2>2. WriteCommand(c)
    OBVIOUS
  <2> HIDE DEF c
  <2> QED
    BY <2>1, <2>2, CommandEffect
<1>2. /\ e \in Chips /\ e.queue = NoCommand /\ e.resrept = esp.resrept /\ e.int = esp.int
      /\ e.intstatus = esp.intstatus /\ e.counter = IF esp.count = 0 THEN MaxCount ELSE esp.count
  BY <1>1 DEF Started
<1>3. /\ esp' = e /\ UNCHANGED <<seltimer, disk>>
      /\ deferred' = [ticks |-> DmaDelay, in |-> disk.phase = "DI", count |-> e.counter]
  BY <1>1 DEF TransferDma
<1> QED
  BY <1>1, <1>2, <1>3 DEF Alone

\* Status and message are fetched, and the target lets go.
LEMMA CompleteEffect ==
    ASSUME FreeInv, WriteCommand(Plain("iccs")), esp.queue = NoCommand, ~esp.inprog
    PROVE  /\ Alone /\ Interrupts /\ UNCHANGED <<seltimer, dma, deferred, mem>>
           /\ disk' = [disk EXCEPT !.phase = "MI"]
<1>1. PICK e : Started(Plain("iccs"), e) /\ CommandComplete(e, intr) /\ UNCHANGED <<dma, mem>>
  BY PlainEffect
<1>2. e \in Chips /\ e.queue = NoCommand /\ e.resrept = esp.resrept /\ e.fifo = esp.fifo
  BY <1>1 DEF Started
<1>3. disk' = [disk EXCEPT !.phase = "MI"] /\ UNCHANGED <<seltimer, deferred>>
  BY <1>1 DEF CommandComplete
<1>4. Well(e)
  BY <1>2, QueueEmpty DEF FreeInv, Parts, Well, Queued
<1>5. StatusByte \in Items /\ MessageByte \in Items
  BY DEF Items
<1> DEFINE f == Pushed(e, StatusByte)
           g == Pushed(f, MessageByte)
           i1 == PushedLine(e, intr)
           j == PushedLine(f, i1)
<1>6. Raise(Cause(g, {"FC"}), j)
  BY <1>1 DEF CommandComplete
<1>7. Well(f) /\ f.queue = NoCommand /\ f.resrept = esp.resrept
  BY <1>2, <1>4, <1>5, PushWell, PushFields DEF Well
<1> HIDE DEF f
<1>8. Well(g) /\ g.queue = NoCommand /\ g.resrept = esp.resrept
  BY <1>5, <1>7, PushWell, PushFields DEF Well
<1> HIDE DEF g, j
<1>9. Interrupts /\ Alone
  BY <1>6, <1>8, RaiseEffect DEF Well
<1> QED
  BY <1>1, <1>3, <1>9

LEMMA AcceptEffect ==
    ASSUME FreeInv, WriteCommand(Plain("msgacc")), esp.queue = NoCommand, ~esp.inprog
    PROVE  /\ Alone /\ Interrupts /\ UNCHANGED <<seltimer, dma, deferred, mem>>
           /\ disk' = [disk EXCEPT !.phase = "ST"]
<1>1. PICK e : Started(Plain("msgacc"), e) /\ MessageAccepted(e, intr) /\ UNCHANGED <<dma, mem>>
  BY PlainEffect
<1>2. e \in Chips /\ e.queue = NoCommand /\ e.resrept = esp.resrept
  BY <1>1 DEF Started
<1>3. Raise(Cause(e, {"BS"}), intr) /\ disk' = [disk EXCEPT !.phase = "ST"]
      /\ UNCHANGED <<seltimer, deferred>>
  BY <1>1 DEF MessageAccepted
<1>4. Interrupts /\ Alone
  BY <1>2, <1>3, RaiseEffect
<1> QED
  BY <1>1, <1>3, <1>4

LEMMA ResetFields ==
    ASSUME NEW e \in Chips
    PROVE  /\ SoftReset(e).queue = NoCommand /\ SoftReset(e).resrept = e.resrept
           /\ HardReset(e).queue = NoCommand /\ ~HardReset(e).resrept
           /\ ~HardReset(e).int /\ ~HardReset(e).inprog
<1> DEFINE f == SoftReset(e)
<1>1. f \in [ChipFields -> UNION {{f[x]} : x \in ChipFields}]
      /\ f.queue = NoCommand /\ f.resrept = e.resrept /\ ~f.inprog
  BY DEF SoftReset, Chips, ChipFields
<1> HIDE DEF f
<1>2. [f EXCEPT !.fifo = <<>>, !.int = FALSE, !.ge = FALSE, !.resrept = FALSE].queue = NoCommand
      /\ ~[f EXCEPT !.fifo = <<>>, !.int = FALSE, !.ge = FALSE, !.resrept = FALSE].resrept
      /\ ~[f EXCEPT !.fifo = <<>>, !.int = FALSE, !.ge = FALSE, !.resrept = FALSE].int
      /\ ~[f EXCEPT !.fifo = <<>>, !.int = FALSE, !.ge = FALSE, !.resrept = FALSE].inprog
  BY <1>1 DEF ChipFields
<1> QED
  BY <1>1, <1>2 DEF HardReset, f

LEMMA ChipResetEffect ==
    ASSUME FreeInv, WriteCommand(Plain("reset")), esp.queue = NoCommand
    PROVE  /\ esp'.queue = NoCommand /\ ~esp'.resrept /\ ~esp'.int /\ ~esp'.inprog
           /\ seltimer' = 0 /\ UNCHANGED <<dma, deferred, disk, mem>>
<1>1. PICK e : Started(Plain("reset"), e) /\ ChipReset(e, intr) /\ UNCHANGED <<dma, mem>>
  BY PlainEffect
<1>2. e \in Chips
  BY <1>1 DEF Started
<1>3. esp' = HardReset(e) /\ seltimer' = 0 /\ UNCHANGED <<deferred, disk>>
  BY <1>1 DEF ChipReset
<1> QED
  BY <1>1, <1>2, <1>3, ResetFields

LEMMA BusResetEffect ==
    ASSUME FreeInv, WriteCommand(Plain("busreset")), esp.queue = NoCommand, ~esp.resrept
    PROVE  /\ Alone /\ Interrupts /\ seltimer' = 0 /\ UNCHANGED <<dma, deferred, mem>>
           /\ disk' = [disk EXCEPT !.phase = "MI"]
<1>1. PICK e : Started(Plain("busreset"), e) /\ BusReset(e, intr) /\ UNCHANGED <<dma, mem>>
  BY PlainEffect
<1>2. e \in Chips /\ e.resrept = esp.resrept /\ e.fifo = esp.fifo
  BY <1>1 DEF Started
<1>3. /\ Raise(Cause(SoftReset(e), {"RST"}), intr) /\ disk' = [disk EXCEPT !.phase = "MI"]
      /\ seltimer' = 0 /\ UNCHANGED deferred
  BY <1>1, <1>2 DEF BusReset
<1>4. SoftReset(e) \in Chips
  BY <1>2, ResetWell DEF FreeInv, Parts, Well
<1>5. Interrupts /\ Alone
  BY <1>2, <1>3, <1>4, ResetFields, RaiseEffect
<1> QED
  BY <1>1, <1>3, <1>5

LEMMA SetupEffect ==
    ASSUME FreeInv, NEW count, NEW busid, WriteSetup(count, busid, esp.resrept)
    PROVE  /\ SameSignals(esp, esp') /\ esp'.count = count /\ esp'.fifo = esp.fifo
           /\ UNCHANGED <<seltimer, dma, deferred, disk, mem>>
BY DEF WriteSetup, FreeInv, Parts, Well, Chips, SameSignals

LEMMA EnableEffect ==
    ASSUME FreeInv, WriteDmaControl(TRUE, FALSE)
    PROVE  SameSignals(esp, esp') /\ UNCHANGED <<seltimer, dma, deferred, disk, mem>>
BY DEF WriteDmaControl, FreeInv, Parts, Well, Chips, SameSignals

LEMMA FifoEffect ==
    ASSUME FreeInv, NEW item \in Items, WriteFifo(item), Len(esp.fifo) < FifoSize
    PROVE  /\ SameSignals(esp, esp') /\ esp'.fifo = Append(esp.fifo, item)
           /\ UNCHANGED <<seltimer, dma, deferred, disk, mem>>
<1>1. esp \in Chips /\ Len(esp.fifo) <= FifoSize /\ Len(esp.fifo) \in Nat /\ FifoSize \in Nat
  BY ScsiAssumption DEF FreeInv, Parts, Well, Chips
<1>2. ~Full(esp)
  BY <1>1 DEF Full
<1>3. esp' = Pushed(esp, item) /\ UNCHANGED <<seltimer, dma, deferred, disk, mem>>
  BY DEF WriteFifo
<1> QED
  BY <1>1, <1>2, <1>3, PushFields DEF SameSignals

LEMMA TakeEffect ==
    ASSUME FreeInv, ReadFifo
    PROVE  SameSignals(esp, esp') /\ UNCHANGED <<seltimer, dma, deferred, disk, mem>>
<1>1. esp \in Chips
  BY DEF FreeInv, Parts, Well
<1>2. esp' = [esp EXCEPT !.fifo = Tail(@)] /\ UNCHANGED <<seltimer, dma, deferred, disk, mem>>
  BY DEF ReadFifo
<1> QED
  BY <1>1, <1>2 DEF SameSignals, Chips

LEMMA IntStatusEffect ==
    ASSUME FreeInv, ReadIntStatus, esp.queue = NoCommand
    PROVE  /\ esp.int /\ ~esp'.int /\ ~esp'.inprog /\ Alone
           /\ UNCHANGED <<seltimer, dma, deferred, disk, mem>>
<1>1. esp \in Chips
  BY DEF FreeInv, Parts, Well
<1>2. /\ esp.int /\ UNCHANGED <<seltimer, dma, deferred, disk, mem>>
      /\ esp' = [esp EXCEPT !.intstatus = {}, !.ge = FALSE, !.int = FALSE,
                            !.inprog = FALSE, !.queue = NoCommand]
  BY DEF ReadIntStatus
<1> QED
  BY <1>1, <1>2 DEF Alone, Chips

LEMMA CsrEffect ==
    ASSUME FreeInv, NEW flags, WriteCsr(flags)
    PROVE  /\ dma'.next = dma.next
           /\ IF "reset" \in flags THEN deferred'.ticks = 0 ELSE UNCHANGED deferred
           /\ UNCHANGED <<esp, seltimer, disk, mem>>
<1>1. dma \in Channels /\ deferred \in Deferrals
  BY DEF FreeInv, Parts
<1>2. /\ deferred' = IF "reset" \in flags THEN [deferred EXCEPT !.ticks = 0] ELSE deferred
      /\ UNCHANGED <<esp, seltimer, disk, mem>>
  BY DEF WriteCsr
<1>3. dma'.next = dma.next
  BY <1>1 DEF WriteCsr, Channels
<1>4. "reset" \in flags => deferred'.ticks = 0
  BY <1>1, <1>2 DEF Deferrals
<1> QED
  BY <1>2, <1>3, <1>4

LEMMA WindowEffect ==
    ASSUME FreeInv, NEW window, NEW chained, WriteDmaWindow(window, chained)
    PROVE  /\ dma'.next = IF chained THEN dma.next ELSE window[1]
           /\ UNCHANGED <<esp, seltimer, deferred, disk, mem>>
BY DEF WriteDmaWindow, FreeInv, Channels

\* A countdown that ends raises the interrupt and leaves the rest of the chip.
LEMMA TickEffect ==
    ASSUME NEW e \in Chips, NEW i, SelectionTick(e, i), seltimer \in Nat
    PROVE  /\ esp'.queue = e.queue /\ esp'.resrept = e.resrept /\ esp'.inprog = e.inprog
           /\ esp'.intstatus = e.intstatus /\ esp'.counter = e.counter /\ esp'.count = e.count
           /\ esp'.fifo = e.fifo /\ esp'.int = (e.int \/ seltimer = 1)
           /\ seltimer' = IF seltimer = 0 THEN 0 ELSE seltimer - 1
<1>1. seltimer' = IF seltimer = 0 THEN 0 ELSE seltimer - 1
  BY DEF SelectionTick
<1>2. CASE seltimer = 1
  <2>1. esp' = [e EXCEPT !.int = TRUE]
    BY <1>2 DEF SelectionTick, Raise, Raised
  <2> QED
    BY <1>1, <1>2, <2>1 DEF Chips
<1>3. CASE seltimer # 1
  <2>1. esp' = e /\ e.int \in BOOLEAN
    BY <1>3 DEF SelectionTick, Chips
  <2> QED
    BY <1>1, <1>3, <2>1
<1> QED
  BY <1>2, <1>3

LEMMA EndedFields ==
    ASSUME NEW e \in Chips, e.queue = NoCommand, NEW left \in 0..MaxCount
    PROVE  /\ Raised(TransferEnded(e, left)) \in Chips
           /\ Raised(TransferEnded(e, left)).queue = NoCommand
           /\ Raised(TransferEnded(e, left)).resrept = e.resrept
           /\ Raised(TransferEnded(e, left)).int
           /\ Raised(TransferEnded(e, left)).intstatus # {}
           /\ Raised(TransferEnded(e, left)).counter = left
           /\ Raised(TransferEnded(e, left)).count = e.count
           /\ Raised(TransferEnded(e, left)).fifo = e.fifo
<1>1. 0 \in 0..MaxCount /\ {"FC"} \in SUBSET Causes /\ {"BS"} \in SUBSET Causes
  BY ScsiAssumption DEF Causes
<1> DEFINE f == TransferEnded(e, left)
<1>2. /\ f \in Chips /\ f.queue = NoCommand /\ f.resrept = e.resrept /\ f.intstatus # {}
      /\ f.counter = left /\ f.count = e.count /\ f.fifo = e.fifo
  <2>1. CASE left = 0
    <3>1. f = [e EXCEPT !.counter = 0, !.tc = TRUE, !.intstatus = {"FC"}]
      BY <2>1 DEF TransferEnded, Cause, Chips
    <3> HIDE DEF f
    <3>2. f \in Chips
      BY <1>1, <3>1 DEF Chips
    <3> QED
      BY <2>1, <3>1, <3>2 DEF Chips
  <2>2. CASE left # 0
    <3>1. f = [e EXCEPT !.counter = left, !.queue = NoCommand, !.intstatus = {"BS"}]
      BY <2>2 DEF TransferEnded, Cause, CommandCleared, Chips
    <3> HIDE DEF f
    <3>2. f \in Chips
      BY <1>1, <3>1 DEF Chips
    <3> QED
      BY <3>1, <3>2 DEF Chips
  <2> QED
    BY <2>1, <2>2
<1> HIDE DEF f
<1>3. Raised(f) = [f EXCEPT !.int = TRUE]
  BY DEF Raised
<1>4. /\ Raised(f) \in Chips /\ Raised(f).queue = NoCommand /\ Raised(f).resrept = e.resrept
      /\ Raised(f).int /\ Raised(f).intstatus # {} /\ Raised(f).counter = left
      /\ Raised(f).count = e.count /\ Raised(f).fifo = e.fifo
  BY <1>2, <1>3 DEF Chips
<1> QED
  BY <1>4 DEF f

LEMMA RunsEffect ==
    ASSUME FreeInv, DriverTypes, Data, DmaRuns, esp.queue = NoCommand, request \in Cdbs
    PROVE  /\ Alone /\ Interrupts /\ deferred'.ticks = 0 /\ esp'.count = esp.count
           /\ seltimer' = IF seltimer = 0 THEN 0 ELSE seltimer - 1
           /\ esp'.fifo = esp.fifo /\ CacheOK(disk')
           /\ Serving(disk', request, moved + Advance(esp'.counter))
           /\ Copied(mem', request, moved + Advance(esp'.counter))
<1>1. PICK failing :
         LET t == Transfer(deferred.in, deferred.count, failing)
             i1 == IF t.done THEN IntrSet(IntrTick(intr), "scsi_dma") ELSE IntrTick(intr)
             e1 == TransferEnded(esp, t.left)
         IN  /\ dma' = t.dma /\ disk' = t.disk /\ mem' = t.mem
             /\ SelectionTick(Raised(e1), RaisedLine(e1, i1))
  BY DEF DmaRuns
<1> DEFINE t == Transfer(deferred.in, deferred.count, failing)
           i1 == IF t.done THEN IntrSet(IntrTick(intr), "scsi_dma") ELSE IntrTick(intr)
           e1 == TransferEnded(esp, t.left)
           i2 == RaisedLine(e1, i1)
<1>2. dma' = t.dma /\ disk' = t.disk /\ mem' = t.mem /\ SelectionTick(Raised(e1), i2)
  BY <1>1
<1>3. deferred.ticks = 1 /\ deferred' = [deferred EXCEPT !.ticks = 0]
  BY DEF DmaRuns
<1>4. deferred \in Deferrals /\ esp \in Chips /\ seltimer \in Nat /\ dma \in Channels /\ Target(disk)
      /\ MaxCount \in Nat
  BY ScsiAssumption DEF FreeInv, Parts, Well
<1>5. t.left \in 0..MaxCount
  <2>1. deferred.count \in Nat /\ deferred.count <= MaxCount
    BY <1>4 DEF Deferrals
  <2>2. Delivery(t, deferred.in, deferred.count)
    BY <1>4, <2>1, TransferResult
  <2> HIDE DEF t
  <2> QED
    BY <1>4, <2>1, <2>2 DEF Delivery
<1>6. /\ CacheOK(t.disk)
      /\ Serving(t.disk, request, moved + Advance(t.left))
      /\ Copied(t.mem, request, moved + Advance(t.left))
  BY <1>3, DeferredHands
<1> HIDE DEF t, i2
<1>7. /\ Raised(e1) \in Chips /\ Raised(e1).queue = NoCommand /\ Raised(e1).resrept = esp.resrept
      /\ Raised(e1).int /\ Raised(e1).intstatus # {} /\ Raised(e1).counter = t.left
      /\ Raised(e1).count = esp.count /\ Raised(e1).fifo = esp.fifo
  BY <1>4, <1>5, EndedFields
<1> HIDE DEF e1
<1>8. /\ esp'.queue = NoCommand /\ esp'.resrept = esp.resrept /\ esp'.int /\ esp'.intstatus # {}
      /\ esp'.counter = t.left /\ esp'.count = esp.count /\ esp'.fifo = esp.fifo
      /\ seltimer' = IF seltimer = 0 THEN 0 ELSE seltimer - 1
  BY <1>2, <1>4, <1>7, TickEffect
<1>9. deferred'.ticks = 0
  BY <1>3, <1>4 DEF Deferrals
<1> QED
  BY <1>2, <1>6, <1>8, <1>9 DEF Alone, Interrupts

LEMMA WaitsEffect ==
    ASSUME FreeInv, DmaWaits, esp.queue = NoCommand
    PROVE  /\ Alone /\ esp'.inprog = esp.inprog /\ esp'.intstatus = esp.intstatus
           /\ esp'.counter = esp.counter /\ esp'.count = esp.count /\ esp'.fifo = esp.fifo
           /\ esp'.int = (esp.int \/ seltimer = 1)
           /\ seltimer' = IF seltimer = 0 THEN 0 ELSE seltimer - 1
           /\ (deferred'.ticks > 0) = (deferred.ticks > 0)
           /\ deferred'.in = deferred.in /\ deferred'.count = deferred.count
           /\ deferred.ticks = 0 => deferred'.ticks = 0
           /\ UNCHANGED <<dma, disk, mem>>
<1>1. esp \in Chips /\ seltimer \in Nat /\ deferred \in Deferrals
  BY ScsiAssumption DEF FreeInv, Parts, Well
<1>2. /\ deferred.ticks # 1 /\ SelectionTick(esp, IntrTick(intr)) /\ UNCHANGED <<dma, disk, mem>>
      /\ deferred' = [deferred EXCEPT !.ticks = IF @ = 0 THEN 0 ELSE @ - 1]
  BY DEF DmaWaits
<1>3. /\ deferred'.in = deferred.in /\ deferred'.count = deferred.count
      /\ deferred'.ticks = IF deferred.ticks = 0 THEN 0 ELSE deferred.ticks - 1
      /\ deferred.ticks \in Nat
  BY <1>1, <1>2, ScsiAssumption DEF Deferrals
<1>4. (deferred'.ticks > 0) = (deferred.ticks > 0)
  BY <1>2, <1>3
<1>5. /\ esp'.queue = esp.queue /\ esp'.resrept = esp.resrept /\ esp'.inprog = esp.inprog
      /\ esp'.intstatus = esp.intstatus /\ esp'.counter = esp.counter /\ esp'.count = esp.count
      /\ esp'.fifo = esp.fifo /\ esp'.int = (esp.int \/ seltimer = 1)
      /\ seltimer' = IF seltimer = 0 THEN 0 ELSE seltimer - 1
  BY <1>1, <1>2, TickEffect
<1> QED
  BY <1>2, <1>3, <1>4, <1>5 DEF Alone

-----------------------------------------------------------------------------
(* The driver is one of the guests                                         *)

LEMMA DriverIsGuest ==
    ASSUME FreeInv, DriverTypes, [DriverNext]_driverVars
    PROVE  [GuestNext]_scsiVars
<1>1. request \in Cdbs /\ moved \in 0..Total
  BY DriverAssumption DEF DriverTypes
<1>2. Total \in Nat /\ moved \in Nat /\ Asked \in 0..MaxCount
  BY <1>1, AskedBounds
<1>3. ASSUME NEW op \in {"flush", "sel", "iccs", "msgacc", "reset", "busreset"},
             WriteCommand([op |-> op, dma |-> FALSE])
      PROVE  Guest
  <2>1. [op |-> op, dma |-> FALSE] \in Commands
    BY DriverAssumption
  <2> QED
    BY <1>3, <2>1 DEF Guest
<1>4. WriteCommand([op |-> "ti", dma |-> TRUE]) => Guest
  <2>1. [op |-> "ti", dma |-> TRUE] \in Commands
    BY DriverAssumption
  <2> QED
    BY <2>1 DEF Guest
<1>5. ASSUME NEW a \in Nat, NEW b \in Nat, NEW chained \in BOOLEAN,
             WriteDmaWindow(<<a, b>>, chained)
      PROVE  Guest
  <2>1. <<a, b>> \in Nat \X Nat
    OBVIOUS
  <2> QED
    BY <1>5, <2>1 DEF Guest
<1>6. ASSUME NEW count \in 0..MaxCount, NEW busid \in BOOLEAN, WriteSetup(count, busid, esp.resrept)
      PROVE  Guest
  <2>1. esp.resrept \in BOOLEAN
    BY DEF FreeInv, Parts, Well, Chips
  <2> QED
    BY <1>6, <2>1 DEF Guest
<1>7. moved + Asked \div 2 \in Nat
  <2>1. Asked \in Nat
    BY <1>2, ScsiAssumption
  <2>2. Asked \div 2 \in Nat
    BY <2>1
  <2> QED
    BY <1>2, <2>2
<1>8. CASE Boot
  <2>1. CASE WriteMask(Lines)
    BY <2>1 DEF Guest, GuestNext
  <2>2. CASE WriteDmaControl(TRUE, FALSE)
    BY <2>2 DEF Guest, GuestNext
  <2> QED
    BY <1>8, <2>1, <2>2 DEF Boot
<1>9. CASE Begin
  <2>1. PICK present \in BOOLEAN : WriteSetup(0, present, esp.resrept)
    BY <1>9 DEF Begin
  <2> QED
    BY <1>6, <2>1, ScsiAssumption DEF GuestNext
<1>10. CASE Selecting
  <2>1. CASE WriteFifo(Identify) \/ WriteFifo(request)
    BY <1>1, <2>1 DEF Guest, GuestNext
  <2> QED
    BY <1>3, <1>10, <2>1 DEF Selecting, GuestNext
<1>11. CASE Transferring
  <2>1. CASE \E flags : WriteCsr(flags)
    BY <2>1 DEF Guest, GuestNext
  <2>2. CASE WriteSetup(Asked, esp.busid, esp.resrept)
    <3>1. esp.busid \in BOOLEAN
      BY DEF FreeInv, Parts, Well, Chips
    <3> QED
      BY <1>2, <1>6, <2>2, <3>1 DEF GuestNext
  <2>3. CASE \/ WriteDmaWindow(<<moved, Total>>, FALSE)
             \/ WriteDmaWindow(<<moved, moved + Asked \div 2>>, FALSE)
             \/ WriteDmaWindow(<<moved + Asked \div 2, Total>>, TRUE)
    BY <1>2, <1>5, <1>7, <2>3 DEF GuestNext
  <2> QED
    BY <1>4, <1>11, <2>1, <2>2, <2>3 DEF Transferring, GuestNext
<1>12. CASE Completing
  <2>1. CASE ReadFifo
    BY <2>1 DEF Guest, GuestNext
  <2> QED
    BY <1>3, <1>12, <2>1 DEF Completing, GuestNext
<1>13. CASE ScsiInterrupt \/ DmaInterrupt
  BY <1>13 DEF ScsiInterrupt, DmaInterrupt, Guest, GuestNext
<1>14. CASE Abort
  <2>1. CASE \E flags : WriteCsr(flags)
    BY <2>1 DEF Guest, GuestNext
  <2> QED
    BY <1>3, <1>14, <2>1 DEF Abort, GuestNext
<1>15. CASE GiveUp \/ Background \/ UNCHANGED driverVars
  BY <1>15 DEF GiveUp, Background, driverVars, GuestNext
<1> QED
  BY <1>8, <1>9, <1>10, <1>11, <1>12, <1>13, <1>14, <1>15 DEF DriverNext, Proceeds

-----------------------------------------------------------------------------
(* What all its steps have in common                                       *)

\* Where an interrupt may be due.
Noisy == Waiting \cup {"abort", "abort_chip"}

LEMMA QuietMove ==
    ASSUME Signals, pc \notin Noisy, pc' \notin Noisy, SameSignals(esp, esp'),
           UNCHANGED seltimer, deferred'.ticks = 0 \/ UNCHANGED deferred
    PROVE  Signals' /\ deferred'.ticks = 0
<1>1. Quiet
  BY DEF Signals, Noisy
<1>2. Quiet' /\ deferred'.ticks = 0
  BY <1>1 DEF Quiet, SameSignals
<1>3. esp'.queue = NoCommand /\ ~esp'.resrept
  BY DEF Signals, SameSignals
<1>4. ~esp'.int /\ seltimer' = 0
  BY <1>2 DEF Quiet
<1> QED
  BY <1>2, <1>3, <1>4 DEF Signals, Noisy, Waiting

LEMMA SameDemand ==
    ASSUME UNCHANGED <<request, moved>>
    PROVE  Total' = Total /\ Asked' = Asked
BY DEF Total, Asked

LEMMA TypesMove ==
    ASSUME DriverTypes, UNCHANGED <<request, moved, result>>, pc' \in Places
    PROVE  DriverTypes'
BY SameDemand DEF DriverTypes

\* A target that is done stays so in whatever phase but those of data.
LEMMA OverKept ==
    ASSUME NEW d, Target(d), NEW r, NEW t, Serving(d, r, t), d.phase \notin {"DI", "DO"},
           NEW p, p \notin {"DI", "DO"}
    PROVE  Serving([d EXCEPT !.phase = p], r, t) /\ Over(d, r, t)
<1>1. Over(d, r, t) /\ t \in Nat
  BY DEF Serving, Reading, Writing, Replying
<1> DEFINE e == [d EXCEPT !.phase = p]
<1>2. e.phase = p /\ e.status = d.status
  BY DEF Target, TargetFields
<1> HIDE DEF e
<1>3. Serving(e, r, t)
  BY <1>1, <1>2 DEF Serving, Over
<1> QED
  BY <1>1, <1>3 DEF e

LEMMA PhaseCache ==
    ASSUME NEW d, Target(d), CacheOK(d), NEW p
    PROVE  CacheOK([d EXCEPT !.phase = p]) /\ [d EXCEPT !.phase = p].phase = p
<1> DEFINE e == [d EXCEPT !.phase = p]
<1>1. e.tag = d.tag /\ e.data = d.data /\ e.phase = p
  BY DEF Target, TargetFields
<1> HIDE DEF e
<1>2. CacheOK(e) /\ e.phase = p
  BY <1>1 DEF CacheOK
<1> QED
  BY <1>2 DEF e

-----------------------------------------------------------------------------
(* Each action of the driver keeps DriverInv                               *)

Ready == FreeInv /\ DriverInv /\ request \in Cdbs /\ esp.queue = NoCommand /\ ~esp.resrept

\* Between commands and between accesses nothing is in progress.
LEMMA QuietChip ==
    ASSUME Ready, pc \notin Noisy
    PROVE  ~esp.int /\ ~esp.inprog /\ seltimer = 0 /\ deferred.ticks = 0
BY DEF Ready, DriverInv, Signals, Noisy, Quiet

LEMMA BootKeeps ==
    ASSUME Ready, Boot
    PROVE  DriverInv'
<1>1. /\ pc \in {"boot", "boot_enable"} /\ pc' \in {"boot_enable", "idle"}
      /\ UNCHANGED <<request, moved, result>>
  BY DEF Boot, GoTo
<1>2. SameSignals(esp, esp') /\ UNCHANGED <<seltimer, dma, deferred, disk, mem>>
  BY EnableEffect DEF Boot, WriteMask, SameSignals, Ready
<1>3. pc \notin Noisy /\ pc' \notin Noisy /\ pc' \in Places
  BY <1>1 DEF Noisy, Waiting, Places, Setup
<1>4. Signals' /\ deferred'.ticks = 0
  BY <1>2, <1>3, QuietMove DEF Ready, DriverInv
<1>5. DriverTypes'
  BY <1>1, <1>3, TypesMove DEF Ready, DriverInv
<1>6. FifoHolds'
  BY <1>1 DEF FifoHolds
<1>7. CacheOK(disk')
  BY <1>2 DEF Ready, DriverInv, Data
<1>8. Data'
  BY <1>1, <1>4, <1>7 DEF Data, Loading, Ended
<1> QED
  BY <1>4, <1>5, <1>6, <1>8 DEF DriverInv

LEMMA BeginKeeps ==
    ASSUME Ready, Begin
    PROVE  DriverInv'
<1>1. pc = "idle" /\ pc' = "flush" /\ request' \in Requests /\ moved' = 0 /\ result' = "none"
  BY DEF Begin
<1>2. SameSignals(esp, esp') /\ UNCHANGED <<seltimer, dma, deferred, disk, mem>>
  BY SetupEffect DEF Begin, Ready
<1>3. pc \notin Noisy /\ pc' \notin Noisy /\ pc' \in Places
  BY <1>1 DEF Noisy, Waiting, Places, Setup
<1>4. Signals' /\ deferred'.ticks = 0
  BY <1>2, <1>3, QuietMove DEF Ready, DriverInv
<1>5. DriverTypes'
  <2>1. Bytes(request') \in Nat
    BY <1>1, BytesNat, DriverAssumption
  <2> QED
    BY <1>1, <1>3, <2>1 DEF DriverTypes, Total
<1>6. FifoHolds'
  BY <1>1 DEF FifoHolds
<1>7. CacheOK(disk')
  BY <1>2 DEF Ready, DriverInv, Data
<1>8. Data'
  BY <1>1, <1>4, <1>7 DEF Data, Loading, Ended
<1> QED
  BY <1>4, <1>5, <1>6, <1>8 DEF DriverInv

\* The FIFO is emptied and loaded, and then holds the request.
LEMMA LoadingFifo ==
    ASSUME Ready, pc \in {"flush", "identify", "block"}, Selecting
    PROVE  DriverInv'
<1>0. ~esp.int /\ ~esp.inprog /\ seltimer = 0 /\ deferred.ticks = 0 /\ pc \notin Noisy
  BY QuietChip DEF Noisy, Waiting
<1>1. CASE pc = "flush"
  <2>1. WriteCommand(Plain("flush")) /\ GoTo("identify")
    BY <1>1 DEF Selecting, Plain
  <2>2. /\ esp'.queue = NoCommand /\ esp'.resrept = esp.resrept /\ esp'.int = esp.int /\ ~esp'.inprog
        /\ esp'.fifo = <<>> /\ UNCHANGED <<seltimer, dma, deferred, disk, mem>>
    BY <1>0, <2>1, FlushEffect DEF Ready, Alone
  <2>3. pc' = "identify" /\ UNCHANGED <<request, moved, result>>
    BY <2>1 DEF GoTo
  <2>4. Signals'
    BY <1>0, <2>2, <2>3 DEF Ready, Signals, Quiet, Waiting
  <2>5. DriverTypes'
    BY <2>3, TypesMove DEF Ready, DriverInv, Places, Setup
  <2>6. FifoHolds'
    BY <2>2, <2>3 DEF FifoHolds
  <2>7. CacheOK(disk') /\ moved' = 0
    BY <1>1, <2>2, <2>3 DEF Ready, DriverInv, Data
  <2>8. Data'
    BY <1>0, <2>2, <2>3, <2>7 DEF Data, Loading, Ended
  <2> QED
    BY <2>4, <2>5, <2>6, <2>8 DEF DriverInv
<1>2. CASE pc \in {"identify", "block"}
  <2>1. PICK item \in Items : /\ WriteFifo(item)
                              /\ \/ pc = "identify" /\ item = Identify /\ GoTo("block")
                                 \/ pc = "block" /\ item = request /\ GoTo("select")
    <3>1. Identify \in Items /\ request \in Items
      BY DEF Ready, Items
    <3> QED
      BY <1>2, <3>1 DEF Selecting
  <2>2. esp.fifo = IF pc = "identify" THEN <<>> ELSE <<Identify>>
    BY <1>2 DEF Ready, DriverInv, FifoHolds
  <2>3. Len(esp.fifo) < FifoSize
    BY <2>2, DriverAssumption, ScsiAssumption
  <2>4. /\ SameSignals(esp, esp') /\ esp'.fifo = Append(esp.fifo, item)
        /\ UNCHANGED <<seltimer, dma, deferred, disk, mem>>
    BY <2>1, <2>3, FifoEffect DEF Ready
  <2>5. UNCHANGED <<request, moved, result>> /\ pc' = IF pc = "identify" THEN "block" ELSE "select"
    BY <2>1 DEF GoTo
  <2>6. pc' \notin Noisy /\ pc' \in Places
    BY <2>5 DEF Noisy, Waiting, Places, Setup
  <2>7. Signals' /\ deferred'.ticks = 0
    BY <1>0, <2>4, <2>6, QuietMove DEF Ready, DriverInv
  <2>8. DriverTypes'
    BY <2>5, <2>6, TypesMove DEF Ready, DriverInv
  <2>9. FifoHolds'
    <3>1. CASE pc = "identify"
      <4>1. esp'.fifo = <<Identify>>
        BY <2>1, <2>2, <2>4, <3>1 DEF GoTo
      <4> QED
        BY <2>5, <3>1, <4>1 DEF FifoHolds
    <3>2. CASE pc = "block"
      <4>1. Append(<<Identify>>, request) = <<Identify, request>>
        <5> DEFINE s == <<Identify>>
                   q == <<Identify, request>>
        <5>1. s \in Seq(Items) /\ request \in Items /\ q \in Seq(Items)
          BY DEF Ready, Items
        <5>2. Len(s) = 1 /\ s[1] = Identify /\ Len(q) = 2 /\ q[1] = Identify /\ q[2] = request
          OBVIOUS
        <5> HIDE DEF s, q
        <5>3. /\ Append(s, request) \in Seq(Items) /\ Len(Append(s, request)) = 2
              /\ Append(s, request)[1] = Identify /\ Append(s, request)[2] = request
          <6>1. /\ Append(s, request) \in Seq(Items) /\ Len(Append(s, request)) = Len(s) + 1
                /\ \A i \in 1..Len(s) : Append(s, request)[i] = s[i]
                /\ Append(s, request)[Len(s) + 1] = request
            BY <5>1, AppendProperties
          <6> QED
            BY <5>2, <6>1
        <5>4. Append(s, request) = q
          BY <5>1, <5>2, <5>3, SeqEqual
        <5> QED
          BY <5>4 DEF s, q
      <4>2. esp'.fifo = Append(<<Identify>>, request)
        BY <2>1, <2>2, <2>4, <3>2
      <4> QED
        BY <2>5, <3>2, <4>1, <4>2 DEF FifoHolds
    <3> QED
      BY <1>2, <3>1, <3>2
  <2>10. CacheOK(disk') /\ moved' = 0
    BY <1>2, <2>4, <2>5 DEF Ready, DriverInv, Data
  <2>11. Data'
    BY <2>5, <2>7, <2>10 DEF Data, Loading, Ended
  <2> QED
    BY <2>7, <2>8, <2>9, <2>11 DEF DriverInv
<1> QED
  BY <1>1, <1>2

LEMMA SelectKeeps ==
    ASSUME Ready, pc = "select", Selecting
    PROVE  DriverInv'
<1>0. ~esp.int /\ ~esp.inprog /\ seltimer = 0 /\ deferred.ticks = 0
  BY QuietChip DEF Noisy, Waiting
<1>1. WriteCommand(Plain("sel")) /\ GoTo("selecting")
  BY DEF Selecting, Plain
<1>2. esp.fifo = <<Identify, request>> /\ CacheOK(disk) /\ moved = 0
  BY DEF Ready, DriverInv, FifoHolds, Data
<1>3. /\ esp'.queue = NoCommand /\ esp'.resrept = esp.resrept /\ UNCHANGED <<dma, deferred, mem>>
      /\ esp'.intstatus # {} /\ (seltimer' > 0 => ~esp'.int)
      /\ CacheOK(disk') /\ ("DC" \in esp'.intstatus \/ Serving(disk', request, 0))
  BY <1>0, <1>1, <1>2, SelectEffect DEF Ready, Alone
<1>4. pc' = "selecting" /\ UNCHANGED <<request, moved, result>>
  BY <1>1 DEF GoTo
<1>5. Signals'
  BY <1>0, <1>3, <1>4 DEF Ready, Signals, Waiting
<1>6. DriverTypes'
  BY <1>4, TypesMove DEF Ready, DriverInv, Places, Waiting
<1>7. FifoHolds'
  BY <1>4 DEF FifoHolds
<1>8. Data'
  BY <1>0, <1>2, <1>3, <1>4 DEF Data, Loading, Ended
<1> QED
  BY <1>5, <1>6, <1>7, <1>8 DEF DriverInv

LEMMA SelectingKeeps ==
    ASSUME Ready, Selecting
    PROVE  DriverInv'
<1>1. pc \in {"flush", "identify", "block", "select"}
  BY DEF Selecting
<1> QED
  BY <1>1, LoadingFifo, SelectKeeps

\* The channel is set up for what is left of the buffer.
LEMMA ChannelKeeps ==
    ASSUME Ready, Transferring, pc # "transfer"
    PROVE  DriverInv'
<1>0. /\ pc \in Loading \ {"transfer"} /\ pc' \in Loading
      /\ UNCHANGED <<request, moved, result>>
  BY DEF Transferring, GoTo, Loading
<1>1. pc \notin Noisy /\ pc' \notin Noisy /\ pc' \in Places
  BY <1>0 DEF Loading, Noisy, Waiting, Places
<1>2. ~esp.int /\ ~esp.inprog /\ seltimer = 0 /\ deferred.ticks = 0
  BY <1>1, QuietChip
<1>3. CacheOK(disk) /\ disk.phase \in {"DI", "DO"} /\ Handed(moved)
      /\ (pc \notin {"dma_reset", "dma_window"} => dma.next = moved)
  BY <1>0 DEF Ready, DriverInv, Data
<1>4. /\ SameSignals(esp, esp') /\ UNCHANGED <<seltimer, disk, mem>>
      /\ deferred'.ticks = 0 \/ UNCHANGED deferred
      /\ pc' # "dma_window" => dma'.next = moved
      /\ pc' = "transfer" => esp'.count = Asked
  <2>1. CASE \E flags : WriteCsr(flags) /\ pc' \in {"dma_window", "count"}
    <3>1. PICK flags : WriteCsr(flags)
      BY <2>1
    <3>2. pc' = "count" => pc \in {"dma_enable", "dma_enable_both"}
      BY DEF Transferring, GoTo
    <3>3. /\ dma'.next = dma.next /\ (deferred'.ticks = 0 \/ UNCHANGED deferred)
          /\ UNCHANGED <<esp, seltimer, disk, mem>>
      BY <3>1, CsrEffect DEF Ready
    <3> QED
      BY <1>3, <2>1, <3>2, <3>3 DEF SameSignals
  <2>2. CASE \E b : WriteDmaWindow(<<moved, b>>, FALSE) /\ pc' \in {"dma_enable", "dma_chain"}
    <3>1. PICK b : WriteDmaWindow(<<moved, b>>, FALSE)
      BY <2>2
    <3>2. /\ dma'.next = (IF FALSE THEN dma.next ELSE <<moved, b>>[1])
          /\ UNCHANGED <<esp, seltimer, deferred, disk, mem>>
      BY <3>1, WindowEffect DEF Ready
    <3> QED
      BY <2>2, <3>2 DEF SameSignals
  <2>3. CASE \E a, b : /\ pc = "dma_chain" /\ WriteDmaWindow(<<a, b>>, TRUE)
                       /\ pc' = "dma_enable_both"
    <3>1. PICK a, b : WriteDmaWindow(<<a, b>>, TRUE)
      BY <2>3
    <3>2. dma'.next = dma.next /\ UNCHANGED <<esp, seltimer, deferred, disk, mem>>
      BY <3>1, WindowEffect DEF Ready
    <3> QED
      BY <1>3, <2>3, <3>2 DEF SameSignals
  <2>4. CASE pc = "count" /\ WriteSetup(Asked, esp.busid, esp.resrept) /\ pc' = "transfer"
    <3>1. /\ SameSignals(esp, esp') /\ esp'.count = Asked
          /\ UNCHANGED <<seltimer, dma, deferred, disk, mem>>
      BY <2>4, SetupEffect DEF Ready
    <3> QED
      BY <1>3, <2>4, <3>1
  <2> QED
    BY <1>0, <2>1, <2>2, <2>3, <2>4 DEF Transferring, GoTo
<1>5. Signals' /\ deferred'.ticks = 0
  BY <1>1, <1>4, QuietMove DEF Ready, DriverInv
<1>6. DriverTypes'
  BY <1>0, <1>1, TypesMove DEF Ready, DriverInv
<1>7. FifoHolds'
  BY <1>0 DEF FifoHolds, Loading
<1>8. pc' = "dma_reset" => FALSE
  BY DEF Transferring, GoTo
<1>9. Data'
  <2>1. CacheOK(disk') /\ disk'.phase \in {"DI", "DO"} /\ Handed(moved)'
    BY <1>0, <1>3, <1>4 DEF Handed
  <2>2. pc' \in Loading \ {"dma_reset", "dma_window"} => dma'.next = moved'
    BY <1>0, <1>4
  <2>3. pc' = "transfer" => esp'.count = Asked'
    BY <1>0, <1>4, SameDemand
  <2>4. pc' \notin {"flush", "identify", "block", "select", "selecting", "transferring",
                    "complete", "completing", "read_status"} \cup Ended
    BY <1>0 DEF Loading, Ended
  <2> QED
    BY <1>5, <2>1, <2>2, <2>3, <2>4 DEF Data
<1> QED
  BY <1>5, <1>6, <1>7, <1>9 DEF DriverInv

LEMMA TransferKeepsData ==
    ASSUME Ready, Transferring, pc = "transfer"
    PROVE  DriverInv'
<1>1. WriteCommand([op |-> "ti", dma |-> TRUE]) /\ GoTo("transferring")
  BY DEF Transferring
<1>2. ~esp.int /\ ~esp.inprog /\ seltimer = 0 /\ deferred.ticks = 0
  BY QuietChip DEF Noisy, Waiting
<1>3. /\ esp'.queue = NoCommand /\ esp'.resrept = esp.resrept /\ esp'.int = esp.int
      /\ UNCHANGED <<seltimer, dma, disk, mem>>
      /\ deferred' = [ticks |-> DmaDelay, in |-> disk.phase = "DI",
                      count |-> IF esp.count = 0 THEN MaxCount ELSE esp.count]
  BY <1>1, <1>2, TransferEffect DEF Ready, Alone
<1>4. pc' = "transferring" /\ UNCHANGED <<request, moved, result>>
  BY <1>1 DEF GoTo
<1>5. /\ CacheOK(disk) /\ disk.phase \in {"DI", "DO"} /\ Handed(moved) /\ dma.next = moved
      /\ esp.count = Asked
  BY DEF Ready, DriverInv, Data, Loading
<1>6. DmaDelay \in Nat \ {0} /\ deferred'.ticks = DmaDelay /\ deferred'.in = (disk.phase = "DI")
      /\ deferred'.count = IF esp.count = 0 THEN MaxCount ELSE esp.count
  BY <1>3, ScsiAssumption
<1>7. Signals'
  BY <1>2, <1>3, <1>4 DEF Ready, Signals, Waiting
<1>8. DriverTypes'
  BY <1>4, TypesMove DEF Ready, DriverInv, Places, Waiting
<1>9. FifoHolds'
  BY <1>4 DEF FifoHolds
<1>10. Data'
  <2>1. Handed(moved)' /\ Asked' = Asked
    BY <1>3, <1>4, <1>5, SameDemand DEF Handed
  <2>2. deferred'.ticks # 0
    BY <1>6
  <2>3. CacheOK(disk') /\ disk'.phase \in {"DI", "DO"} /\ dma'.next = moved'
        /\ deferred'.in = (disk'.phase = "DI")
        /\ deferred'.count = IF Asked' = 0 THEN MaxCount ELSE Asked'
    BY <1>3, <1>4, <1>5, <1>6, <2>1
  <2> QED
    BY <1>4, <2>1, <2>2, <2>3 DEF Data, Loading, Ended
<1> QED
  BY <1>7, <1>8, <1>9, <1>10 DEF DriverInv

\* Status and message are fetched once all data is.
LEMMA CompletingKeeps ==
    ASSUME Ready, Completing
    PROVE  DriverInv'
<1>0. ~esp.int /\ ~esp.inprog /\ seltimer = 0 /\ deferred.ticks = 0 /\ pc \notin Noisy /\ Target(disk)
      /\ CacheOK(disk)
  BY QuietChip DEF Completing, Noisy, Waiting, Ready, FreeInv, Parts, DriverInv, Data
<1>1. CASE pc = "complete"
  <2>1. WriteCommand(Plain("iccs")) /\ GoTo("completing")
    BY <1>1 DEF Completing, Plain
  <2>2. /\ esp'.queue = NoCommand /\ esp'.resrept = esp.resrept /\ esp'.intstatus # {}
        /\ UNCHANGED <<seltimer, dma, deferred, mem>> /\ disk' = [disk EXCEPT !.phase = "MI"]
    BY <1>0, <2>1, CompleteEffect DEF Ready, Alone, Interrupts
  <2>3. pc' = "completing" /\ UNCHANGED <<request, moved, result>>
    BY <2>1 DEF GoTo
  <2>4. Signals'
    BY <1>0, <2>2, <2>3 DEF Ready, Signals, Waiting
  <2>5. DriverTypes'
    BY <2>3, TypesMove DEF Ready, DriverInv, Places, Waiting
  <2>6. FifoHolds'
    BY <2>3 DEF FifoHolds
  <2>7. CacheOK(disk') /\ disk'.phase = "MI"
    BY <1>0, <2>2, PhaseCache
  <2>8. Handed(moved)'
    <3>1. Serving(disk, request, moved) /\ Copied(mem, request, moved) /\ disk.phase \notin {"DI", "DO"}
      BY <1>1 DEF Ready, DriverInv, Data, Handed
    <3>2. Serving(disk', request, moved)
      BY <1>0, <2>2, <3>1, OverKept
    <3> QED
      BY <2>2, <2>3, <3>1, <3>2 DEF Handed
  <2>9. Data'
    BY <1>0, <2>2, <2>3, <2>7, <2>8 DEF Data, Loading, Ended
  <2> QED
    BY <2>4, <2>5, <2>6, <2>9 DEF DriverInv
<1>2. CASE pc \in {"read_status", "read_message", "done"}
  <2>1. SameSignals(esp, esp') /\ UNCHANGED <<seltimer, dma, deferred, disk, mem>>
    BY <1>2, TakeEffect DEF Completing, Ready, SameSignals, scsiVars
  <2>2. /\ UNCHANGED <<request, moved>>
        /\ pc' = IF pc = "read_status" THEN "read_message" ELSE IF pc = "done" THEN "idle" ELSE "accept"
        /\ result' = IF pc = "read_status" THEN disk.status ELSE result
    BY <1>2 DEF Completing, GoTo
  <2>3. pc' \notin Noisy /\ pc' \in Places
    BY <1>2, <2>2 DEF Noisy, Waiting, Places, Setup, Ended
  <2>4. Signals' /\ deferred'.ticks = 0
    BY <1>0, <2>1, <2>3, QuietMove DEF Ready, DriverInv
  <2>5. DriverTypes'
    <3>1. result' \in {"none", "good", "check"}
      BY <1>0, <2>2 DEF Ready, DriverInv, DriverTypes, Target
    <3> QED
      BY <2>2, <2>3, <3>1, SameDemand DEF Ready, DriverInv, DriverTypes
  <2>6. FifoHolds'
    BY <1>2, <2>2 DEF FifoHolds
  <2>7. result' = "good" /\ request.op # "bad" => moved = Total /\ Copied(mem, request, Total)
    <3>1. CASE pc = "read_status"
      <4>1. Serving(disk, request, moved) /\ Copied(mem, request, moved) /\ disk.phase \notin {"DI", "DO"}
        BY <3>1 DEF Ready, DriverInv, Data, Handed
      <4>2. Over(disk, request, moved)
        BY <1>0, <4>1, OverKept
      <4> QED
        BY <2>2, <3>1, <4>1, <4>2 DEF Over, Total
    <3>2. CASE pc # "read_status"
      BY <1>2, <2>2, <3>2 DEF Ready, DriverInv, Data, Ended
    <3> QED
      BY <3>1, <3>2
  <2>8. Data'
    <3>1. (result = "good" /\ request.op # "bad" => moved = Total /\ Copied(mem, request, Total))'
      BY <2>1, <2>2, <2>7, SameDemand
    <3>2. pc' \in {"read_message", "accept", "idle"}
      BY <1>2, <2>2
    <3> QED
      BY <1>0, <2>1, <2>4, <3>1, <3>2 DEF Data, Loading, Ended
  <2> QED
    BY <2>4, <2>5, <2>6, <2>8 DEF DriverInv
<1>3. CASE pc = "accept"
  <2>1. WriteCommand(Plain("msgacc")) /\ GoTo("leaving")
    BY <1>3 DEF Completing, Plain
  <2>2. /\ esp'.queue = NoCommand /\ esp'.resrept = esp.resrept /\ esp'.intstatus # {}
        /\ UNCHANGED <<seltimer, dma, deferred, mem>> /\ disk' = [disk EXCEPT !.phase = "ST"]
    BY <1>0, <2>1, AcceptEffect DEF Ready, Alone, Interrupts
  <2>3. pc' = "leaving" /\ UNCHANGED <<request, moved, result>>
    BY <2>1 DEF GoTo
  <2>4. Signals'
    BY <1>0, <2>2, <2>3 DEF Ready, Signals, Waiting
  <2>5. DriverTypes'
    BY <2>3, TypesMove DEF Ready, DriverInv, Places, Waiting
  <2>6. FifoHolds'
    BY <2>3 DEF FifoHolds
  <2>7. CacheOK(disk')
    BY <1>0, <2>2, PhaseCache
  <2>8. (result = "good" /\ request.op # "bad" => moved = Total /\ Copied(mem, request, Total))'
    BY <1>3, <2>2, <2>3, SameDemand DEF Ready, DriverInv, Data, Ended
  <2>9. Data'
    BY <1>0, <2>2, <2>3, <2>7, <2>8 DEF Data, Loading, Ended
  <2> QED
    BY <2>4, <2>5, <2>6, <2>9 DEF DriverInv
<1> QED
  BY <1>1, <1>2, <1>3 DEF Completing

\* Reading an interrupt's cause ends it, and nothing is left behind.
LEMMA ScsiInterruptKeeps ==
    ASSUME Ready, ScsiInterrupt
    PROVE  DriverInv'
<1>1. /\ pc \in Waiting /\ ReadIntStatus /\ pc' = After(esp.intstatus)
      /\ moved' = IF pc = "transferring" THEN moved + Progress ELSE moved
      /\ UNCHANGED <<request, result>>
  BY DEF ScsiInterrupt
<1>2. /\ esp.int /\ ~esp'.int /\ ~esp'.inprog /\ esp'.queue = NoCommand /\ esp'.resrept = esp.resrept
      /\ UNCHANGED <<seltimer, dma, deferred, disk, mem>>
  BY <1>1, IntStatusEffect DEF Ready, Alone
<1>3. seltimer = 0 /\ deferred.ticks = 0
  <2>1. seltimer \in Nat /\ deferred.ticks \in Nat
    BY DEF Ready, FreeInv, ScsiInv, Timers
  <2>2. Signals
    BY DEF Ready, DriverInv
  <2>3. CASE pc \in {"selecting", "transferring"}
    BY <1>2, <2>1, <2>2, <2>3 DEF Signals
  <2>4. CASE pc \in {"completing", "leaving", "resetting"}
    BY <2>2, <2>4 DEF Signals
  <2> QED
    BY <1>1, <2>3, <2>4 DEF Waiting
<1>4. Quiet' /\ Signals'
  BY <1>2, <1>3 DEF Ready, Signals, Quiet
<1>5. pc' \in {"idle", "abort", "done", "read_status", "dma_reset", "complete"}
  BY <1>1 DEF After
<1>6. /\ moved \in 0..Total /\ request \in Cdbs /\ moved \in Nat /\ Total \in Nat
      /\ moved + Progress \in 0..Total /\ Progress = Advance(esp.counter)
  <2>1. moved \in 0..Total /\ request \in Cdbs
    BY DEF Ready, DriverInv, DriverTypes
  <2>2. Progress = Advance(esp.counter)
    BY DEF Progress, Advance
  <2>3. esp.counter \in Nat
    BY ScsiAssumption DEF Ready, FreeInv, Parts, Well, Chips
  <2>4. Advance(esp.counter) \in 0..Asked /\ moved + Asked <= Total /\ Total \in Nat
        /\ Asked \in Nat /\ moved \in Nat
    BY <2>1, <2>3, AskedBounds, ScsiAssumption
  <2> QED
    BY <2>1, <2>2, <2>4
<1>7. DriverTypes'
  <2>1. moved' \in 0..Total /\ Total' = Total
    BY <1>1, <1>6 DEF Total
  <2> QED
    BY <1>1, <1>5, <2>1 DEF Ready, DriverInv, DriverTypes, Places, Setup, Loading, Ended, Aborting
<1>8. FifoHolds'
  BY <1>5 DEF FifoHolds
<1>9. CacheOK(disk') /\ deferred'.ticks = 0
  BY <1>2, <1>3 DEF Ready, DriverInv, Data
<1>10. ASSUME pc' \in {"dma_reset", "complete"}
       PROVE  Handed(moved)' /\ (pc' = "dma_reset" <=> disk'.phase \in {"DI", "DO"})
  <2>1. pc \in {"selecting", "transferring"} /\ "DC" \notin esp.intstatus
        /\ (pc' = "dma_reset" <=> disk.phase \in {"DI", "DO"})
    BY <1>1, <1>10 DEF After, Waiting
  <2>2. Serving(disk, request, moved') /\ Copied(mem, request, moved')
    <3>1. CASE pc = "selecting"
      <4>1. moved = 0 /\ Serving(disk, request, 0) /\ moved' = moved
        BY <1>1, <2>1, <3>1 DEF Ready, DriverInv, Data
      <4>2. Copied(mem, request, 0)
        BY DEF Copied
      <4> QED
        BY <4>1, <4>2
    <3>2. CASE pc = "transferring"
      BY <1>1, <1>3, <3>2 DEF Ready, DriverInv, Data, Handed
    <3> QED
      BY <2>1, <3>1, <3>2
  <2> QED
    BY <1>1, <1>2, <2>1, <2>2 DEF Handed
<1>11. ASSUME pc' = "read_status"
       PROVE  disk'.phase \notin {"DI", "DO"} /\ Handed(moved)'
  <2>1. pc = "completing"
    BY <1>1, <1>11 DEF After
  <2>2. disk.phase \notin {"DI", "DO"} /\ Handed(moved) /\ moved' = moved
    BY <1>1, <2>1 DEF Ready, DriverInv, Data
  <2> QED
    BY <1>1, <1>2, <2>2 DEF Handed
<1>12. ASSUME pc' = "done"
       PROVE  (result = "good" /\ request.op # "bad" => moved = Total /\ Copied(mem, request, Total))'
  <2>1. pc = "leaving"
    BY <1>1, <1>12 DEF After
  <2>2. result = "good" /\ request.op # "bad" => moved = Total /\ Copied(mem, request, Total)
    BY <2>1 DEF Ready, DriverInv, Data, Ended
  <2>3. moved' = moved /\ Total' = Total
    BY <1>1, <2>1 DEF Total
  <2> QED
    BY <1>1, <1>2, <2>2, <2>3
<1>13. Data'
  <2>1. CASE pc' \in {"idle", "abort"}
    BY <1>9, <2>1 DEF Data, Loading, Ended
  <2>2. CASE pc' = "dma_reset"
    BY <1>9, <1>10, <2>2 DEF Data, Loading, Ended
  <2>3. CASE pc' = "complete"
    BY <1>9, <1>10, <2>3 DEF Data, Loading, Ended
  <2>4. CASE pc' = "read_status"
    BY <1>9, <1>11, <2>4 DEF Data, Loading, Ended
  <2>5. CASE pc' = "done"
    BY <1>9, <1>12, <2>5 DEF Data, Loading, Ended
  <2> QED
    BY <1>5, <2>1, <2>2, <2>3, <2>4, <2>5
<1> QED
  BY <1>4, <1>7, <1>8, <1>13 DEF DriverInv

\* Nothing the driver relies on changes.
LEMMA StillKeeps ==
    ASSUME Ready, UNCHANGED <<esp.queue, esp.resrept, esp.int, esp.inprog, esp.intstatus, esp.counter,
                              esp.count, esp.fifo, seltimer, deferred, disk, mem, dma.next>>,
           UNCHANGED <<pc, request, moved, result>>
    PROVE  DriverInv'
<1>1. Total' = Total /\ Asked' = Asked /\ Progress' = Progress
  BY DEF Total, Asked, Progress
<1>2. DriverTypes'
  BY <1>1 DEF Ready, DriverInv, DriverTypes
<1>3. Signals'
  BY DEF Ready, DriverInv, Signals, Quiet
<1>4. FifoHolds'
  BY DEF Ready, DriverInv, FifoHolds
<1>5. Data'
  BY <1>1 DEF Ready, DriverInv, Data, Handed
<1> QED
  BY <1>2, <1>3, <1>4, <1>5 DEF DriverInv

LEMMA DmaInterruptKeeps ==
    ASSUME Ready, DmaInterrupt
    PROVE  DriverInv'
<1>1. WriteCsr({"clrcomplete"}) /\ UNCHANGED <<pc, request, moved, result>>
  BY DEF DmaInterrupt, GoTo
<1>2. dma'.next = dma.next /\ UNCHANGED <<deferred, esp, seltimer, disk, mem>>
  BY <1>1, CsrEffect DEF Ready
<1> QED
  BY <1>1, <1>2, StillKeeps

\* Giving up may leave a transfer behind, which the reset of the channel forgets.
LEMMA AbortKeeps ==
    ASSUME Ready, GiveUp \/ Abort, CancelsDma
    PROVE  DriverInv'
<1>0. CacheOK(disk) /\ Target(disk)
  BY DEF Ready, DriverInv, Data, FreeInv, Parts
<1>1. UNCHANGED <<request, moved, result>>
  BY DEF GiveUp, Abort, GoTo
<1>2. pc' \in {"abort", "abort_chip", "abort_bus", "resetting"}
  BY DEF GiveUp, Abort, GoTo
<1>3. DriverTypes'
  BY <1>1, <1>2, TypesMove DEF Ready, DriverInv, Places, Waiting, Aborting
<1>4. FifoHolds'
  BY <1>2 DEF FifoHolds
<1>5. CASE GiveUp
  <2>1. pc' = "abort" /\ UNCHANGED <<esp, seltimer, dma, deferred, disk, mem>>
    BY <1>5 DEF GiveUp, GoTo, scsiVars
  <2>2. Signals'
    BY <2>1 DEF Ready, DriverInv, Signals, Waiting
  <2>3. Data'
    BY <1>1, <2>1, SameDemand DEF Ready, DriverInv, Data, Handed, Loading, Ended
  <2> QED
    BY <1>3, <1>4, <2>2, <2>3 DEF DriverInv
<1>6. ASSUME esp'.queue = NoCommand, ~esp'.resrept, deferred'.ticks = 0, pc' # "abort",
             esp'.int \/ seltimer' > 0 => esp'.intstatus # {},
             pc' = "abort_bus" => ~esp'.int /\ ~esp'.inprog,
             pc' \in {"abort_bus", "resetting"} => seltimer' = 0,
             CacheOK(disk')
      PROVE  DriverInv'
  <2>1. Signals'
    BY <1>2, <1>6 DEF Signals, Quiet, Waiting
  <2>2. Data'
    BY <1>2, <1>6 DEF Data, Loading, Ended
  <2> QED
    BY <1>3, <1>4, <2>1, <2>2 DEF DriverInv
<1>7. CASE pc = "abort" /\ Abort
  <2>1. WriteCsr({"reset"}) /\ pc' = "abort_chip"
    BY <1>7 DEF Abort, GoTo
  <2>2. deferred'.ticks = 0 /\ UNCHANGED <<esp, seltimer, disk, mem>>
    BY <2>1, CsrEffect DEF Ready
  <2> QED
    BY <1>0, <1>6, <2>1, <2>2 DEF Ready, DriverInv, Signals
<1>8. CASE pc = "abort_chip" /\ Abort
  <2>1. WriteCommand(Plain("reset")) /\ pc' = "abort_bus"
    BY <1>8 DEF Abort, GoTo, Plain
  <2>2. /\ esp'.queue = NoCommand /\ ~esp'.resrept /\ ~esp'.int /\ ~esp'.inprog
        /\ seltimer' = 0 /\ UNCHANGED <<dma, deferred, disk, mem>>
    BY <2>1, ChipResetEffect DEF Ready
  <2>3. deferred.ticks = 0
    BY <1>8 DEF Ready, DriverInv, Signals
  <2> QED
    BY <1>0, <1>6, <2>1, <2>2, <2>3
<1>9. CASE pc = "abort_bus" /\ Abort
  <2>1. WriteCommand(Plain("busreset")) /\ pc' = "resetting"
    BY <1>9 DEF Abort, GoTo, Plain
  <2>2. /\ esp'.queue = NoCommand /\ esp'.resrept = esp.resrept /\ esp'.intstatus # {}
        /\ seltimer' = 0 /\ UNCHANGED <<dma, deferred, mem>>
        /\ disk' = [disk EXCEPT !.phase = "MI"]
    BY <2>1, BusResetEffect DEF Ready, Alone, Interrupts
  <2>3. deferred.ticks = 0
    BY <1>9, QuietChip DEF Noisy, Waiting
  <2>4. CacheOK(disk')
    BY <1>0, <2>2, PhaseCache
  <2> QED
    BY <1>6, <2>1, <2>2, <2>3, <2>4 DEF Ready
<1> QED
  BY <1>5, <1>7, <1>8, <1>9 DEF Abort

\* The countdowns: a transfer is due only for a driver that waits for it or has
\* given it up.
LEMMA BackgroundKeeps ==
    ASSUME Ready, Background
    PROVE  DriverInv'
<1>0. UNCHANGED <<pc, request, moved, result>>
  BY DEF Background
<1>1. DriverTypes'
  BY <1>0, SameDemand DEF Ready, DriverInv, DriverTypes
<1>2. seltimer \in Nat /\ deferred.ticks \in Nat /\ request \in Cdbs /\ esp.int \in BOOLEAN
  BY DEF Ready, FreeInv, ScsiInv, Timers, Agree, Chip
<1>3. Total' = Total /\ Asked' = Asked
  BY <1>0, SameDemand
<1>4. CASE EndOfSlice
  BY <1>0, <1>4, StillKeeps DEF EndOfSlice
<1>5. CASE DmaRuns
  <2>1. /\ esp'.queue = NoCommand /\ esp'.resrept = esp.resrept /\ esp'.intstatus # {}
        /\ deferred'.ticks = 0 /\ seltimer' = IF seltimer = 0 THEN 0 ELSE seltimer - 1
        /\ esp'.fifo = esp.fifo /\ CacheOK(disk')
        /\ Serving(disk', request, moved + Advance(esp'.counter))
        /\ Copied(mem', request, moved + Advance(esp'.counter))
    BY <1>5, RunsEffect DEF Ready, DriverInv, Alone, Interrupts
  <2>2. deferred.ticks = 1
    BY <1>5 DEF DmaRuns
  <2>3. pc \in {"transferring", "abort"}
    BY <2>2 DEF Ready, DriverInv, Signals, Quiet, Waiting
  <2>4. Signals'
    BY <1>0, <2>1, <2>3 DEF Ready, DriverInv, Signals, Waiting
  <2>5. FifoHolds'
    BY <1>0, <2>3 DEF FifoHolds
  <2>6. Progress' = Advance(esp'.counter)
    BY <1>3 DEF Progress, Advance
  <2>7. Data'
    <3>1. pc' = "transferring" => Handed(moved + Progress)'
      BY <1>0, <2>1, <2>6 DEF Handed
    <3> QED
      BY <1>0, <2>1, <2>3, <3>1 DEF Data, Loading, Ended
  <2> QED
    BY <1>1, <2>4, <2>5, <2>7 DEF DriverInv
<1>6. CASE DmaWaits
  <2>1. /\ esp'.queue = NoCommand /\ esp'.resrept = esp.resrept
        /\ esp'.inprog = esp.inprog /\ esp'.intstatus = esp.intstatus
        /\ esp'.counter = esp.counter /\ esp'.count = esp.count /\ esp'.fifo = esp.fifo
        /\ esp'.int = (esp.int \/ seltimer = 1)
        /\ seltimer' = IF seltimer = 0 THEN 0 ELSE seltimer - 1
        /\ (deferred'.ticks > 0) = (deferred.ticks > 0)
        /\ deferred'.in = deferred.in /\ deferred'.count = deferred.count
        /\ deferred.ticks = 0 => deferred'.ticks = 0
        /\ UNCHANGED <<dma, disk, mem>>
    BY <1>6, WaitsEffect DEF Ready, Alone
  <2>2. Progress' = Progress
    BY <1>3, <2>1 DEF Progress
  <2>3. Signals'
    <3>1. /\ esp.queue = NoCommand /\ ~esp.resrept
          /\ pc \notin Waiting \cup {"abort", "abort_chip"} => Quiet
          /\ pc = "abort_chip" => deferred.ticks = 0
          /\ pc = "selecting" => deferred.ticks = 0 /\ (seltimer > 0 => ~esp.int)
          /\ pc = "transferring" => seltimer = 0 /\ (deferred.ticks > 0 => ~esp.int)
          /\ pc \in {"completing", "leaving", "resetting"} => seltimer = 0 /\ deferred.ticks = 0
          /\ esp.int \/ seltimer > 0 => esp.intstatus # {}
      BY DEF Ready, DriverInv, Signals
    <3>0. /\ ~esp.int /\ seltimer # 1 => ~esp'.int
          /\ deferred'.ticks > 0 => deferred.ticks > 0
      BY <2>1
    <3>2. pc \notin Waiting \cup {"abort", "abort_chip"} => Quiet'
      BY <2>1, <3>0, <3>1 DEF Quiet
    <3>3. pc = "selecting" => deferred'.ticks = 0 /\ (seltimer' > 0 => ~esp'.int)
      BY <1>2, <2>1, <3>1
    <3>4. pc = "transferring" => seltimer' = 0 /\ (deferred'.ticks > 0 => ~esp'.int)
      BY <2>1, <3>0, <3>1
    <3>5. esp'.int \/ seltimer' > 0 => esp'.intstatus # {}
      BY <1>2, <2>1, <3>1
    <3> QED
      BY <1>0, <2>1, <3>1, <3>2, <3>3, <3>4, <3>5 DEF Signals
  <2>4. FifoHolds'
    BY <1>0, <2>1 DEF Ready, DriverInv, FifoHolds
  <2>5. deferred'.ticks = 0 => deferred.ticks = 0
    BY <1>2, <2>1
  <2>6. Data'
    BY <1>0, <1>3, <2>1, <2>2, <2>5 DEF Ready, DriverInv, Data, Handed
  <2> QED
    BY <1>1, <2>3, <2>4, <2>6 DEF DriverInv
<1> QED
  BY <1>4, <1>5, <1>6 DEF Background, InstructionHook

-----------------------------------------------------------------------------
(* The invariant holds                                                     *)

LEMMA DriverStarts == DriverInit => FreeInv /\ DriverInv
<1> SUFFICES ASSUME DriverInit PROVE FreeInv /\ DriverInv
  OBVIOUS
<1>1. pc = "boot" /\ request \in Requests /\ moved = 0 /\ result = "none" /\ ScsiInit
  BY DEF DriverInit
<1>2. FreeInv
  BY <1>1, FreeStart
<1>3. DriverTypes
  <2>1. Total \in Nat
    BY <1>1, BytesNat, DriverAssumption DEF Total
  <2> QED
    BY <1>1, <2>1 DEF DriverTypes, Places
<1>4. Signals
  BY <1>1 DEF Signals, ScsiInit, Quiet, Waiting
<1>5. FifoHolds
  BY <1>1 DEF FifoHolds
<1>6. CacheOK(disk)
  BY <1>1 DEF ScsiInit, DiskInit, CacheOK, Empty
<1>7. Data
  <2>1. deferred.ticks = 0
    BY <1>1 DEF ScsiInit
  <2> QED
    BY <1>1, <1>6, <2>1 DEF Data, Loading, Ended
<1> QED
  BY <1>2, <1>3, <1>4, <1>5, <1>7 DEF DriverInv

LEMMA DriverStep ==
    ASSUME CancelsDma, FreeInv, DriverInv, [DriverNext]_driverVars
    PROVE  FreeInv' /\ DriverInv'
<1>1. FreeInv'
  BY DriverIsGuest, FreeStep DEF DriverInv
<1>2. Ready
  BY DriverAssumption DEF Ready, DriverInv, DriverTypes, Signals
<1>3. CASE UNCHANGED driverVars
  <2>1. UNCHANGED <<esp, seltimer, dma, deferred, disk, mem, pc, request, moved, result>>
    BY <1>3 DEF driverVars, scsiVars
  <2> QED
    BY <1>1, <1>2, <2>1, StillKeeps
<1>4. CASE Transferring
  BY <1>1, <1>2, <1>4, ChannelKeeps, TransferKeepsData
<1> QED
  BY <1>1, <1>2, <1>3, <1>4, BootKeeps, BeginKeeps, SelectingKeeps, CompletingKeeps,
     ScsiInterruptKeeps, DmaInterruptKeeps, AbortKeeps, BackgroundKeeps DEF DriverNext, Proceeds

LEMMA DriverInvariant ==
    ASSUME CancelsDma
    PROVE  DriverSpec => []DriverInv
<1>1. DriverInit => FreeInv /\ DriverInv
  BY DriverStarts
<1>2. FreeInv /\ DriverInv /\ [DriverNext]_driverVars => FreeInv' /\ DriverInv'
  BY DriverStep
<1> QED
  BY <1>1, <1>2, PTL DEF DriverSpec

-----------------------------------------------------------------------------
(* The theorems                                                            *)

\* The chip interrupts only for the command the driver has outstanding: never
\* between commands, and never for one that was given up, if giving up resets
\* the channel before the chip and the bus.
THEOREM InterruptsAreDue ==
    ASSUME CancelsDma
    PROVE  DriverSpec => []NoPhantomInterrupt
<1>1. DriverInv => NoPhantomInterrupt
  BY DEF DriverInv, Signals, Quiet, NoPhantomInterrupt, Waiting
<1> QED
  BY <1>1, DriverInvariant, PTL

\* An interrupt has a cause, whatever order commands, time-outs, transfers and
\* resets come in.
THEOREM CausesAreThere ==
    ASSUME CancelsDma
    PROVE  DriverSpec => []InterruptHasCause
<1>1. DriverInv => InterruptHasCause
  BY DEF DriverInv, Signals, InterruptHasCause
<1> QED
  BY <1>1, DriverInvariant, PTL

\* A command that ends well has moved all its data, each byte of a read to its
\* place, for every request, buffer, chunk, window, cache and failing sector.
THEOREM GoodIsComplete ==
    ASSUME CancelsDma
    PROVE  DriverSpec => []GoodMeansMoved
<1>1. DriverInv => GoodMeansMoved
  BY DEF DriverInv, Data, Ended, Copied, GoodMeansMoved
<1> QED
  BY <1>1, DriverInvariant, PTL

\* What holds for any guest holds for the driver, although its counts and
\* windows are its own: the interrupt lines follow the devices, and no
\* interrupt is lost on its way to the processor.
THEOREM LinesAreHonest ==
    ASSUME CancelsDma
    PROVE  DriverSpec => [](LineFollowsChip /\ InterruptsArrive /\ DmaLineMeansComplete)
<1>1. DriverInit => FreeInv /\ DriverInv
  BY DriverStarts
<1>2. FreeInv /\ DriverInv /\ [DriverNext]_driverVars => FreeInv' /\ DriverInv'
  BY DriverStep
<1>3. FreeInv => LineFollowsChip /\ InterruptsArrive /\ DmaLineMeansComplete
  BY DEF FreeInv, ScsiInv, Agree, Sound, LineFollowsChip, InterruptsArrive
<1> QED
  BY <1>1, <1>2, <1>3, PTL DEF DriverSpec

=============================================================================
