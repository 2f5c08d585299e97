# Verification of the MC68881/2 FPGA core

TLA+ models of the control logic of this repository, TLC configurations that
check them on small instances, and TLAPS proofs that hold for every instance.
Paths below are relative to the repository's root; line numbers are the ones
`PROJECT.json` gives for each definition.

The core is a floating-point coprocessor in VHDL. Its arithmetic is tested by
golden vectors; what tests reach badly is its control: two clock domains behind
the SoC wrappers, bus channels that move independently, some two dozen dialog
states that overlap with an ALU that finishes when it likes, flags set on one
clock and cleared on another, one-clock pulses, a pending instruction, state
frames saved and restored in between. That is what is modelled here; and, of the
C programs that surround the core, two parts of the NeXT emulator: its handler of
F-line instructions, which drives the core through its registers, and its SCSI
subsystem, where register accesses of a guest race countdowns, DMA and a second
interrupt.

## 1. Inventory

| Part | Source | State it keeps | Operations | Status |
|---|---|---|---|---|
| Bus bridge | `wrappers/mc68881_bus_bridge.vhd` | request and acknowledge toggles, synchronizers, two state machines, two timers, latched request | request, acknowledge, both timeouts, reset | modelled: `BusBridge` |
| FPU bus port, DSACK | `src/mc68881_top.vhd` 1781, 1971, 3499 | strobes, DSACK state, plain registers | register read and write, DSACK | modelled: `FpuPort` |
| CIR register file and dialog | `src/mc68881_top.vhd` 3600-4382 | written flags, operation word type, command, staging words, dialog state, pending slot, frame indices | the 24 dialog states, the response primitive | modelled: `CirDialog` |
| Issue and write-back | `src/mc68881_top.vhd` `alu_control_proc`, `bus_frame_proc` | register file, operands, launch destination, deferred move, response register, exception and initialized flags | launch, write-back, deferred FMOVE, exception classification | partly: `CirDialog` (CIR path) |
| ALU dispatch | `src/mc68881_alu.vhd` | busy, valid, result, one request per shared unit | start, wait, done | partly: `CirDialog` (handshake) |
| Host protocol driver | `validation/*/src/cir_periph.c` | none (polling loops) | the three kinds of cpGEN dialog | partly: `CirHost` |
| AXI4-Lite wrapper | `wrappers/mc68881_axilite_wrapper.vhd` | channel latches, channel timeout, response, state | write and read transactions, channel timeout, reset | modelled: `AxiLite` |
| Wishbone wrapper | `wrappers/mc68881_wishbone_wrapper.vhd` | state, stall, latched answer | one transfer, abort, reset | modelled: `Wishbone` |
| NeXT SCSI controller (ESP) | `validation/NeXT-68040/src/next_esp.c` | command and queue, FIFO, counter, interrupt status, DMA control, selection timeout | ten commands, FIFO, status and set-up registers, interrupt line | modelled: `NextScsi` |
| NeXT SCSI DMA channel | `next_scsi_dma.c` there | window, chained window, CSR flags, the deferred transfer | CSR and window writes, transfer, chaining, bus error | modelled: `NextScsi` |
| NeXT SCSI disk and sector cache | `next_scsi.c` there | phase, status, sector buffer, position, cache | command descriptor blocks, consuming and writing bytes, card failures | modelled: `NextDisk` |
| NeXT interrupt controller | `next_devs.c`, `main.c` there | status, mask, level shown to the CPU, countdown | set, clear, mask, countdown, end of a slice | partly: `NextIntr` (the SCSI lines) |
| NeXT guest driver | the guest's ROM and kernel, not in the repository | command in progress, bytes moved | select, transfer, complete, give up | partly: `NextDriver` |
| NeXT timers, SCR2, keyboard, clock chip, DSP, memory, video | `validation/NeXT-68040/src/` | register files | byte-level device protocols | not modelled: a model would repeat each switch statement |
| Peripheral-mode registers | `src/mc68881_top.vhd` 1816-2325, 2592-3245 | OPSEL, operand and control registers, micro-cycle counter, result, STATUS, FPSR | register writes, OPSEL issue, completion, classification; the dialog's save and restore beside them | partly: `Peripheral` (without FRAME_CMD, OPSEL conditionals, MOVE_CFG moves) |
| NeXT F-line handler and register driver | `fline_handler.c`, `fpu_periph.c`, `fp_regfile.c` there | FPCR shadow, result of a call, position in a frame | exec, FMOVECR, tests, FPCR, FSAVE, FRESTORE, giving up, page fault | partly: `FlineHandler` (the accesses to the FPU) |
| Multiply, add/subtract, divide, remainder, single-precision, packed, transcendental units | `src/mc68881_*_unit.vhd` | one state machine each, snapshot registers | start, iterate, done; borrow of the shared multiplier and adder | planned (control only) |
| Numeric package | `src/mc68881_pkg.vhd` | none | rounding, conversions on 80-bit words | planned in part (rounding at a small width) |
| Testbenches | `tb/` | - | - | read, not modelled |
| Atari host emulator, Musashi, FatFs, toolchain, scripts | `validation/`, `src/vitis/`, `toolchain/`, `scripts/` | - | - | not modelled: see "Not modelled" in section 6 |
| Verilog copies | `verilog/` | - | - | not modelled: generated from the VHDL |

How the parts interact: a wrapper turns a bus transaction into a one-clock
`bridge_req` pulse; the bridge carries it into the FPU clock domain and performs
one M68K bus cycle (CS/AS, DS, DSACK) on the FPU port; the port's strobes set
registers of `cir_write_proc` and `bus_frame_proc`; `cir_dialog_proc` looks at
those registers a clock later, launches the ALU through `alu_control_proc`, and
presents a response primitive the host polls. Everything inside the FPU is one
clock domain: processes see each other's registers as they were before the edge.

An emulator can do without the dialog: it writes 0 to the mode register, loads
operands and OPSEL as plain registers, and polls STATUS. Both register sets share
addresses, and an operand write is dropped as long as the mode bit is set or the
dialog is not idle. FSAVE and FRESTORE exist as dialogs only, so the handler
switches the mode bit on and off around them.

In the NeXT emulator a register access of the guest is a C call that runs to its
end. Between guest instructions `emu_instr_hook` counts down: the deferred DMA
transfer (then the disk, the channel, the chip and the RAM all change), the
deferred selection timeout, and the delay before a SCSI interrupt is shown to
the CPU; the main loop shows the pending level after each slice as well. The
chip drives the interrupt controller's SCSI line, the channel its DMA line.

What makes each part correct:

- *bridge*: a transfer the host is told was done was done once, on the register
  and with the data the host gave; errors are reported for the transfer they
  belong to; every request is answered, even when the FPU clock stops; a reset
  leaves both domains agreeing.
- *port*: no bus cycle is ended by the DSACK of the one before.
- *dialog and issue*: the registers end up as program order says, whatever the
  timing of bus and ALU; an operation's result goes to its own destination; the
  ALU is never started while busy; an answer is about the instruction it is
  given for; no dialog is left polling; a state frame carries everything that
  is pending.
- *wrappers*: the bridge is asked only when it listens; the two halves of a write
  stay together; an answer belongs to the transaction that gets it and tells the
  truth about the register; an aborted, failed or timed-out transaction holds
  nobody up.
- *F-line handler*: a call that returns without an error returns the result of its
  own operation, on its own operands, under the guest's rounding mode; every call
  returns; no save or restore leaves the dialog open.
- *SCSI subsystem*: the interrupt lines follow the chip and the channel, no
  interrupt is lost or left standing; a command in progress always has something
  that will end it; RAM changes only by a transfer the guest set up, with the
  bytes of the right sectors; what the driver is told has happened.
- *ALU dispatch* (planned): at most one unit starts the shared multiplier or
  adder on a clock (`mc68881_alu.vhd:332`), each start gets its own `done`.

The hazards this code is exposed to are listed, each at its line and with the
properties about it, in `PROJECT.json`. A case the code does not guard against has
no property there but a note with the configuration that shows it (section 5).

## 2. Modules

| Module | Content |
|---|---|
| `FpuPort` | the FPU's bus port: strobe decoding, register write, DSACK machine |
| `BusBridge` | extends `FpuPort`: both clock domains of the bridge, the clocks, the reset |
| `BusBridgeInv` | extends `BusBridge`: its inductive invariant, in named parts, and the refinement mapping to `AtomicPort` |
| `BusBridgeProofs` | types, the port under the bridge, the two clock domains agree about every request, a transfer that is done was done, which transfers fail, and the refinement |
| `AtomicPort` | abstract specification: a register bank with one atomic access per request |
| `CirDialog` | the FPU clock domain behind the port: `cir_write_proc`, `cir_dialog_proc`, issue, write-back, ALU handshake, read path |
| `CirHost` | extends `CirDialog`: the main processor, composed clock by clock |
| `CirPipelineProofs` | 68881 and 68882: what is launched is finished, in order, in its own register; what a state frame carries |
| `CirSerialProofs` | extends it: the dialog of a 68881 with its host keeps program order |
| `Peripheral` | the FPU clock domain in peripheral mode: registers, OPSEL issue, completion, STATUS, the dialog states of a save or restore |
| `FlineHandler` | extends `Peripheral`: the NeXT F-line handler and its driver, composed clock by clock |
| `FlineProofs` | a call returns its own result and leaves the FPU out of its dialog |
| `AxiLite` | extends `AtomicPort`: the AXI4-Lite wrapper and its master |
| `Wishbone` | extends `AtomicPort`: the Wishbone wrapper and its master |
| `AxiLiteProofs` | the safety properties of the AXI4-Lite wrapper |
| `WishboneProofs` | each access is asked once and gets its own answer |
| `NextIntr` | the interrupt controller's SCSI lines, as operators |
| `NextDisk` | the SCSI target and the sector cache, as operators |
| `NextScsi` | extends both: chip, channel, disk and controller under a free guest |
| `NextScsiProofs` | the interrupt line, its countdown, no stranded command, the transfer loop and what it may write |
| `NextDriver` | extends `NextScsi`: the driver, composed access by access |
| `NextDriverProofs` | what the driver is told has happened: interrupts, causes, data moved |
| `MCNextStray` | the driver's accesses mixed with a few arbitrary ones |
| `MCBusBridge`, `MCCirHost`, `MCNextDriver` | values of constants for TLC |

### FpuPort and BusBridge

One step is one edge of one of the two clocks (`BusEdge`, `FpuEdge`), or the
reset input changing. All registers of a domain are computed from the values
every register had before the edge, as in the VHDL processes: `BusSynchronizers`
and one of `BusReset`, `BusIdle`, `BusAcknowledged`, `BusTimedOut`, `BusWaiting`
make up an edge of `p_bus_clk`; `FpuSynchronizers` and one of `FpuReset`,
`FpuIdle`, ..., `FpuAck` one of `p_fpu_clk`. Strobes are TRUE when asserted
(active low in the code); `rw` is TRUE for a read.

- `lag` counts bus edges since the last FPU edge. `MaxLag` bounds it (nothing
  bounds the number of FPU edges between two bus edges), unless `FpuClkMayStop`.
- `held` counts bus edges since the reset was asserted; it is released after
  `ResetLength` of them.
- `dsack_timeout_g` is the generic of that name: it gets a value of
  `DsackTimeouts` in the initial state and never changes.
- `HostEdge` is what the wrappers promise: a one-clock request, made while the
  bridge is idle.
- The FPU port is a bank of plain registers. Registers with side effects are
  `CirDialog`'s.
- Left out: the irq synchronizer (it forwards a level), the DSACK1/DSACK0
  port-size encoding (combinational), `fpu_a_in`/`fpu_d_in` being cleared by a
  reset (the strobes are off, nothing looks at them). Metastability beyond the
  synchronizers' two stages is not modelled.

### AtomicPort and the refinement

`AtomicPort` is what the wrappers may rely on: `Ask`, then one step that carries
the request out (`Serve`) or gives up (`Fail`), then `Answer`. A failed write may
or may not have reached its register, as in the code: the DSACK timeout ends a
cycle whose strobes the port has already seen. A reset drops what is under way,
and until the FPU side has seen it too the registers may still change.

`BusBridgeInv` maps `BusBridge` to it. The port is idle while the bus side
is; the atomic step is the FPU edge that loads the register written, latches the
data read, or gives up on DSACK, and `CarriedOut` recognises every state after
it. `ImplementsAtomicPort` is checked by TLC on the instance of the run
`BusBridge` and proved in `BusBridgeProofs`.

### AxiLite and Wishbone

A step is one edge of the bus clock, on which wrapper, bridge and master act on
the values before the edge, or the bridge carrying a request out in between
(the FPU clock), or the reset. Each state of `p_axi` and `p_wb` is an action.

- The AXI master moves its channels independently: address and data of a write
  in any order and any number of clocks apart, `ready` coming and going, one read
  outstanding, a write channel at most one beat ahead of the responses. Writes
  are numbered: a write's number is its data and decides its address (`AddrOf`),
  so that a register shows whether address and data belong together.
- `channel_timeout_g` is the generic, chosen in the initial state. After a
  timeout (`timed_out`) a data beat that comes late is paired with the next
  write's address. Nothing in the code guards against that, so the data
  properties are stated up to the first timeout.
- The Wishbone master is pipelined (its strobe lasts until it is not stalled),
  as the wrapper expects, or classic like the testbench's (`Pipelined = FALSE`);
  a master that aborts waits for the stall to drop (`WaitsOutAbort`), as TEST 4
  of `tb_mc68881_wishbone.vhd` does. With either constant changed, `AskedOnce` or
  `AnswerIsOwn` fails: `Wishbone_classic.cfg` and `Wishbone_abort.cfg`.
- Left out: byte strobes and selects, protection bits (the code ignores them).
  Registers a reset leaves alone but nothing reads before they are loaded again
  are cleared in `AxiReset` and `WbReset`, which makes equivalent states equal.

### CirDialog and CirHost

One step is one FPU clock edge. `FpuClock` is the conjunction of the processes,
each an action on its own registers, and `Next` adds what the bus does on that
edge. `cir_dialog_proc` has one action per state.

- An instruction is a record of what the control looks at (shape, move or not,
  register fields, number of operand words) and, for the properties, its number
  and the operands program order gives it (`want`).
- A value is where it comes from: a register's initial value, the number of the
  instruction that produced it, or `Garbage`, the result of anything computed
  from other operands than the ones wanted. So "right value" can be decided
  without arithmetic.
- An operand word is a pair of the value it belongs to and its position;
  `Converted` yields the value only when all the words are its own, in order.
- A state frame is `FrameWords` words: a first one for header and operands and a
  last one for the pending instruction of the 68882. The ALU snapshot of a busy
  frame is left out: restoring it loads shadow registers nothing reads.
- Left out as data: exception vectors, formats beyond their word counts, FPIAR
  and FPSR contents, the CIR mode bit (always on), micro-cycle counts, packed
  operands, FMOVEM and control-register moves.
- The ALU takes any number of clocks (`AluWork` or `AluDone` on each).

The host starts a bus cycle when none is running, holds its strobes for
`WriteClocks` or `ReadClocks` clocks, leaves at least `Gap + 1` clocks without,
and may always wait longer. Its reactions follow `cir_periph.c` (command, then
operation word, poll, operand words, poll) and the testbenches (operation word
first; conditionals; exceptions acknowledged through CONTROL; save and restore).
It serves the primitive it is given, saves between dialogs (`SavePhases`
`"free"`) or when told BUSY (`"busy"`), and restores at any later time, offering
an invalid format word first when `BadFrames`.

### Peripheral and FlineHandler

One step is one FPU clock edge, as in `CirDialog`, with the processes of
peripheral mode written out: `bus_frame_proc`, `alu_control_proc` (with
`status_proc` and the response register), the ALU handshake, `cir_write_proc` and
the dialog states a save or restore passes. `CirDialog` has the mode bit on and
the operation's cycle count 0; here the mode bit changes, and an operation is over
when its count has run out and its result is there, whichever is later.

- An operation carries the number of its call, and so do operands, results and
  FPCR: a result is its call's number if the ALU found that call's operands and
  rounding mode when it started, and 0 otherwise. RES, OPA_H/E and OPB_L/H stand
  for the registers whose writes are treated alike.
- `FlineHandler` plays one instruction after the other. `CallWrites` is what a
  call writes, in order; then it polls STATUS (`fpu_wait_done`), reads RES, and
  after FTST and FCMP the FPSR. `MayGiveUp`: the 200000 polls may run out, after
  any of them. `MayFault`: reading a word of a frame from the guest's memory may
  page-fault, which leaves the handler by `longjmp`.
- FRESTORE of a 68040 frame becomes a NULL frame; one of the 68881's own formats is
  passed on (`Formats`); anything else, too, as a format the FPU does not know.
- Left out: decoding, effective addresses, conversion of operands, the eight data
  registers, FMOVEM, stores and branches, which never touch the FPU; FPIAR; FPSR
  exception bits beyond whose they are. FSINCOS is two calls. Of the core: the
  legacy FRAME_CMD frames, conditionals by OPSEL, the hardware register file and
  packed moves, which no C program of the repository uses; the 68882's pending
  slot, which needs a dialog.

### NextIntr, NextDisk, NextScsi, NextDriver

A step is one register access, whose handler runs to its end, or one
`emu_instr_hook` (`InstructionHook`), or the end of a slice (`EndOfSlice`). In the
code a hook precedes every instruction; here any number of accesses may fall
between two hooks, so that the properties do not rest on instruction timing.

- `esp_start_command` is `Start`, one action per command. A descriptor block is
  one FIFO entry, so `FifoSize` 2 is an identify byte and a block. When the FIFO
  does not hold these two the code takes whatever bytes are there (or an
  uninitialized array): `BlockIn` allows any block.
- `Transfer` is `next_scsi_dma_transfer` with its loop as a recursive function:
  byte by byte while count, window, target and RAM allow, switching to the
  chained window, leaving `busexc` when the RAM ends.
- A byte of RAM or of the sector buffer is where it comes from: a sector (or a
  command's own reply) and a position. The image is opened for reading and writes are
  discarded (`next_scsi.c:434`), so what a sector holds never changes.
- `WriteSetup` is the plain registers (count, bus id, configuration) written
  together.
- Left out: SEL without ATN (a SEL without the identify byte), sequence step,
  `esp.state`, the channel's saved registers and direction bit, sense data and
  the contents of replies, tracing. The cache slot is `lba % Slots`; the code's
  4096 slots have the same form. The test for a reset at the head of the command
  queue (`next_esp.c:308`) cannot succeed: a reset is never queued, which is part
  of `TypeOK`.
- `NextDriver` is the environment: the accesses the comments of `next_esp.c`,
  `next_scsi_dma.c` and `main.c` tell of the NeXT ROM and kernel. It flushes the
  FIFO, selects, and then does what interrupt cause and bus phase ask for. Giving
  up resets channel, chip and bus. `MCNextStray` mixes `MaxStray` arbitrary
  accesses into a driver's command, which gets a free guest far into the state
  space that random accesses would hardly reach.

## 3. Runs

| Run | Result | Shows |
|---|---|---|
| `BusBridge` | holds | `RequestStable`, `DoneMeansServed`, `ErrorIsTimely`, `NoStaleDsack`, `NoBusTimeout` and the refinement `ImplementsAtomicPort`, with clocks drifting freely, resets at any moment and DSACK timeouts 0 to 3 |
| `BusBridge_live` | holds | `RequestAnswered` and the type invariant when the FPU clock may stop for ever |
| `CirHost_68881` | holds | `TypeOK`, `InOrderResults`, `StoreDelivers`, `NullMeansDone` for the 68881 |
| `CirHost_68881_live` | holds | `HostReturns` for the 68881 |
| `CirHost_68882` | holds | `WriteBackToOwnRegister`, `NoReordering`, `NoStartWhileBusy` with a pending instruction |
| `CirHost_68882_save` | holds | `FrameCarriesPending`: three instructions, saves between dialogs and of an operation under way, refused frames |
| `CirHost_68882_drop` | violated | finding 1 |
| `AxiLite` | holds | `TypeOK`, `AsksOnlyIdlePort`, `WrittenWhereSent`, `OkayMeansWritten`, `ReadsSeeWrites`, `ReadAnswered`: channels in any order, port failures, channel timeout on and off, resets |
| `Wishbone` | holds | `TypeOK`, `AskedOnce`, `AnswerIsOwn`, `StallEnds`, `StrobeAnswered`: aborts at any moment, port failures, resets |
| `Fline` | holds | `ResultsAreOwn`, `CallsReturn`: three F-line instructions of any kind, operations shorter and longer than their cycle counts, polls running out, frames of known formats |
| `NextScsi` | holds | `TypeOK`, `LineFollowsChip`, `InterruptsArrive`, `DmaLineMeansComplete`, `OnlyCancellingStrands`, `MemoryByTransferOnly`: a read command with two arbitrary register accesses anywhere |
| `NextDriver` | holds | `NoPhantomInterrupt`, `InterruptHasCause`, `GoodMeansMoved`, `CommandsEnd`: whole commands, absent target, failing card, giving up at any moment |

`InOrderResults` and `StoreDelivers` are the promises of the whole dialog;
the 68882 breaks both (section 5), so its passing runs state the parts that do
hold: whatever completes goes to its own register, in order, and the ALU is never
started while busy. The type invariants are there for the counters several
states share, and in `Wishbone` and `NextScsi` for a relation each (one answer;
a command waits only behind another).

### Bounds

- Bridge: two registers and two data values distinguish "the wrong register"
  and "the wrong data". `MaxLag = 2` bus edges per FPU edge is the board's ratio
  (100 MHz bus, 50 MHz FPU, in `README.md`); FPU edges are not bounded, so any
  slower bus clock is included too. A transfer takes at most 11 FPU edges and two
  bus edges, so `BusTimeout = 25` is the shortest for which `Timely` (section 4)
  holds at this ratio; 8192 in the code leaves room for an FPU clock 744 times
  slower than the bus. The shorter ones of the configurations in
  which the timer is meant to fire are short for the model's sake. `ResetLength = 8` bus edges, again the
  least `Timely` allows, let the FPU side see the reset and the cleared toggle
  come back; shorter resets are what `BusBridge_shortreset.cfg` is about. Transfers repeat without bound:
  these state spaces are complete.
- Wrappers: `MaxWrites` 2 (AXI) and 3 (Wishbone) writes to two registers, reads
  without bound. Two writes are enough for the halves of one to meet the other's;
  the third lets an aborted write lie between two acknowledged ones.
  `ChannelTimeouts = {0, 3}`: off, and long enough for the second half to come
  before, on and after the clock it fires on.
- SCSI: `IrqDelay`, `DmaDelay`, `SelDelay` 1, 2, 3 stand for 10, 20, 500: only
  their order matters, for any number of accesses fits between two hooks. Three
  sectors of two bytes, transfers of three bytes (so that they end in the middle
  of a sector), a cache of one slot (every second sector evicts), a RAM of 3 or 4
  bytes (the end of a window is the end of the RAM or one beyond). `NextDriver`
  repeats its commands without bound; `NextScsi` stops after `MaxStray = 2`
  arbitrary accesses.
- F-line: three calls, so that one can be given up, the second be lost on the busy
  FPU or save it, and the third meet what they leave. `CycleCounts = {0, 5}`: a count
  that is over before the ALU, and one the ALU may be ahead of. `Fline_long.cfg`
  checks `TypeOK`, `ResultsAreOwn` and `DialogOver` with four calls, and the
  invariant of the proofs (module `FlineProofs`, 700,000 states). Frames of one word (idle) and two (busy): a first, a last, and one that
  is both.
- Dialog: `MaxInstr` 2 (68881) or 3 (68882: one executing, one pending, one more
  to be overtaken) instructions, two registers (so that source, destination and
  bystander differ), two operand words (first and last), frames of two words,
  and every timing of host and ALU. Conditionals, saves and restores repeat
  without bound. `CirHost_68882_save` has arithmetic, moves and loads, so that a save
  finds the unit in IDLE and in EXECUTE, with the pending slot empty, full without
  and full with operand words; a save that meets a pending store may be lost
  altogether (`CirHost_68882_lostsave.cfg`, section 5).
- `WriteClocks = 3`, `ReadClocks = 4` are the clocks the bridge shows its
  strobes for. `Gap = 0` is the testbenches' shortest pause; the bridge cannot
  do better than the 6 of the 68882 runs, where the longer gap keeps the state
  space small and the findings possible on hardware.
- `CommandLeads = FALSE`: after a conditional the host writes the operation word
  first. `CirHost_68881_stale.cfg` sets it to TRUE (section 5).

### Fairness

- `FairSpec` of `BusBridge` says both clocks run; `BusClockSpec`, used by
  `BusBridge_live`, only that the bus clock does: a stopped FPU clock is exactly
  what the bus-side timeout is for.
- `FairSpec` of `CirHost`: the clock runs, an operation ends some time (each
  unit's iteration count is bounded in the code), and a host in the middle of a
  dialog goes on with it. Nothing makes it begin one.
- `FairSpec` of `FlineHandler`: the same; giving up and page faults are never
  forced, so a call returns because VALID comes, and a save or restore because the
  response stops being BUSY, not because the loop of 100 polls ends.
- `FairAxiSpec` and `FairWbSpec`: the bus clock runs, the bridge carries out and
  answers what it was asked (`BusBridge_live` shows that it does), the reset ends.
  The clock edge that fairness asks for is `PatientEdge`, one on which the master
  begins, sends or aborts nothing: fairness never makes a master act, least of
  all send the missing half of a write.
- `DriverSpec`: the CPU keeps executing instructions, and a driver in the middle
  of a command goes on with it. Beginning a command and giving one up are never
  forced.

## 4. Proofs

All the safety properties the runs check of `BusBridge`, its refinement of
`AtomicPort` included, are proved for every set
of registers and values, every DSACK timeout, drift bound, bus timeout and reset
length. The assumptions on the constants are `PortAssumption` and
`BridgeAssumption` (the reset value is a value; numbers are naturals, the bus
timeout and the drift bound not 0). All but the first two theorems about it also
assume `Timely`:
the FPU clock runs, the bus timeout is more than `11 * MaxLag + 2` bus edges and
a reset lasts `3 * MaxLag + 2` of them. Without it they are false: `BusBridge_stopped.cfg`
is `RequestStable` with a stopped FPU clock, `BusBridge_shortreset.cfg` the same
with a short reset.

| Module | Theorem | Statement |
|---|---|---|
| `BusBridgeProofs` | `TypeCorrect` | `Spec => []TypeOK` |
| `BusBridgeProofs` | `DsackNeverStale` | `Spec => []NoStaleDsack` |
| `BusBridgeProofs` | `RequestIsStable` | `Timely`: `Spec => []RequestStable` |
| `BusBridgeProofs` | `BusNeverTimesOut` | `Timely`: `Spec => NoBusTimeout` |
| `BusBridgeProofs` | `DoneIsServed` | `Timely`: `Spec => []DoneMeansServed` |
| `BusBridgeProofs` | `ErrorsAreTimely` | `Timely`: `Spec => []ErrorIsTimely` |
| `BusBridgeProofs` | `BridgeIsAtomic` | `Timely`: `Spec => ImplementsAtomicPort` |
| `CirPipelineProofs` | `StartsAreTaken` | `Unsaved`: `Spec => []NoStartWhileBusy` |
| `CirPipelineProofs` | `ResultsReachOwnRegister` | `Unsaved`: `Spec => []WriteBackToOwnRegister` |
| `CirPipelineProofs` | `CompletesInOrder` | `Unsaved`, `Untrapped`: `Spec => []NoReordering` |
| `CirPipelineProofs` | `FramesCarryTheSlot` | `Bridged`: `Spec => []FrameCarriesPending` |
| `CirSerialProofs` | `SerialInvariant` | `Serial`: `Spec => [](SerialInv /\ Framed)` |
| `CirSerialProofs` | `ProgramOrderResults` | `Serial`: `Spec => []InOrderResults` |
| `CirSerialProofs` | `StoresDeliverTheirValue` | `Serial`: `Spec => []StoreDelivers` |
| `CirSerialProofs` | `HostGoesOnWhenDone` | `Serial`: `Spec => []NullMeansDone` |
| `CirSerialProofs` | `RegistersInRange` | `Serial`: `Spec => []TypeOK` |
| `FlineProofs` | `ResultsAreOwned` | `Served`: `Spec => []ResultsAreOwn` |
| `FlineProofs` | `DialogsAreOver` | `Served`: `Spec => []DialogOver` |
| `AxiLiteProofs` | `TypeCorrect` | `AxiSpec => []TypeOK` |
| `AxiLiteProofs` | `NeverAsksBusyPort` | `AxiSpec => []AsksOnlyIdlePort` |
| `AxiLiteProofs` | `HalvesStayTogether` | `AxiSpec => []WrittenWhereSent` |
| `AxiLiteProofs` | `OkayIsTrue` | `AxiSpec => []OkayMeansWritten` |
| `AxiLiteProofs` | `ReadsAreFresh` | `AxiSpec => []ReadsSeeWrites` |
| `WishboneProofs` | `TypeCorrect` | `WbSpec => []TypeOK` |
| `WishboneProofs` | `EachAskedOnce` | `GoodMaster`: `WbSpec => []AskedOnce` |
| `WishboneProofs` | `AnswersAreOwn` | `GoodMaster`: `WbSpec => []AnswerIsOwn` |
| `NextScsiProofs` | `LineIsLevel` | `ScsiSpec => []LineFollowsChip` |
| `NextScsiProofs` | `NothingIsLost` | `ScsiSpec => []InterruptsArrive` |
| `NextScsiProofs` | `CommandsAreEnded` | `ScsiSpec => OnlyCancellingStrands` |
| `NextScsiProofs` | `TypeCorrect` | `ScsiSpec => []TypeOK` |
| `NextScsiProofs` | `DmaLineIsHonest` | `ScsiSpec => []DmaLineMeansComplete` |
| `NextScsiProofs` | `MemoryIsGuarded` | `ScsiSpec => MemoryByTransferOnly` |
| `NextDriverProofs` | `InterruptsAreDue` | `CancelsDma`: `DriverSpec => []NoPhantomInterrupt` |
| `NextDriverProofs` | `CausesAreThere` | `CancelsDma`: `DriverSpec => []InterruptHasCause` |
| `NextDriverProofs` | `GoodIsComplete` | `CancelsDma`: `DriverSpec => []GoodMeansMoved` |
| `NextDriverProofs` | `LinesAreHonest` | `CancelsDma`: `DriverSpec => [](LineFollowsChip /\ InterruptsArrive /\ DmaLineMeansComplete)` |

The argument for the bridge, along `BusBridgeInv`:

- *Types* are inductive as they stand, because both timers are compared before
  they are advanced: one lemma for an edge of each clock, flags, words and
  timers apart.
- *The port* (`PortInv`). `NoStaleDsack` does not say why DSACK stays away.
  `DsackQuiet` does: chip select is off from `FPU_ACK` on, so the DSACK machine
  sees one edge without it before the FPU side is idle again. `DsackAdvances`
  says the strobes stay during a cycle, so DSACK makes a step on every clock.
- *The handshake* (`Running`). A flip of `req_toggle` travels round the four
  synchronizer stages and the acknowledge, and each stage has it only if the one
  before has (`Ring`). The bus side is idle only when the flip is back, and the
  FPU side busy only while it holds the flip (`Turns`): `RequestStable` is that
  with one look at the ring. This would break if the bus side ever gave up a
  request, so `TimerKeepsUp` counts: at every stage `bus_timeout_cnt` is within
  what the FPU edges so far allow, at most `MaxLag` bus edges each. It stays
  below the limit, which is `NoBusTimeout`.
- *Reset* (`Resetting`, `ReleaseLeads`). Each register of the ring is cleared one
  clock after the one before it. Whatever is not cleared yet bounds how long the
  reset has lasted; when it is released, everything is. The release then travels
  ahead of the first request.
- *Data* (`DataInv`). The port is addressed with what was latched, hence with
  the request; the register is written before the capture; a second write in
  the capture state changes nothing; from then on no register changes until the
  host has its answer, and the error flag arrives no later than the acknowledge
  it belongs to.
- *Errors* (`ErrorInv`). The DSACK timer counts the steps of the DSACK machine, so
  it expires before DSACK exactly when the generic is 1, or 2 on a read.

- *Refinement* (`EffectInv`). Every step of the bridge is a step of `AtomicPort` or
  a stutter: the bus edges are `Ask`, `Answer` or `Pause`, the FPU edges stutter
  except the one that carries the request out. That the later edges of a bus
  cycle write the same value again, and so change nothing, is `WriteTakesEffect`;
  that the registers are reset when a reset is released, `ResetClears`. The
  invariants above say which request and which error an answer carries.

`BusBridge_inv.cfg` has TLC check the whole invariant on the instance of the run
`BusBridge`.

The theorems about AXI4-Lite hold for every set of registers, number of writes,
channel timeout and choice of addresses, with resets at any moment
(`AtomicAssumption`, `AxiAssumption`). `AxiInv` has these parts. `Turns`: a request,
its execution and its answer are found only while the wrapper waits for them.
`Channels`: a ready is up only for a beat that is there and latched. `Pairing`:
each write channel is level with the responses, or one beat ahead with that beat
latched; this is why two channels with no tags meet in the right pairs.
`WriteUnderway` and `ReadUnderway` follow the access to the port and back.
`Truthful`: registers hold only what was sent to them, nothing older than what the
master was told. A channel timeout leaves half a write behind, so all parts but
the first two are claimed up to the first one, as the properties are.

The theorems about Wishbone hold for every set of registers, number of writes
and resets at any moment (`AtomicAssumption`, `WishboneAssumption`). Two of them
are about a master that is pipelined and waits out the stall of an access it has
aborted (`GoodMaster`): for others they are false, as `Wishbone_classic.cfg` and
`Wishbone_abort.cfg` show. They are theorems of `WbSpec`, which the `FairWbSpec` of
the run implies. The properties only look at the moment of a request or an
answer; `WbInv` follows the access in between. `Turns` says who may be busy: a
request comes only from `WB_WAIT` and finds the port idle, an answer is shown when
everything is over, a strobe begins when everything is, and an aborted access
keeps the stall up until it is. `Underway` says that the access the master waits
for is the one that is on its way: its fields are the wrapper's, then the
bridge's, then the port's, and what comes back is what its register has.

The theorems about the dialog hold for every set of registers, every program of
any length, every operand size, frame size and pause of the host, and every time
the ALU takes (`DialogAssumption`, `HostAssumption`). They come in three groups.

`CirPipelineProofs` is about what is launched, on a 68881 and a 68882 alike, by
programs that mix arithmetic, moves, conditionals and operation words of no known
type, written in every order. Its hypothesis `Unsaved` leaves out saves, with which
the theorems are false on a 68882: a save does not stop the ALU, the restore ends
in IDLE, and the next command starts the ALU while it still works.
`PipelineInv` has these parts. `CommandTiming`: a command is in its register one
clock after its write begins and is decoded on the last clock of that write, so
the host cannot have changed it in between; or it waited in IDLE under another
instruction's word, and is decoded because of the word being written.
`ConditionTiming` is the same for a condition: on the clock that launches it the
register still holds a conditional's word, so the command in the command register
is not started in its place. `Pipeline`: outside
EXECUTE and the states that take a second instruction nothing is started,
computing or waiting for its write-back; inside them exactly one of start, busy
and valid is up, `op_sel` or `alu_job` says for which instruction, and
`launch_dst` is its destination. So a start finds the ALU idle, and a result its
own register, whatever the command register holds by then. `Order` adds what may
be newer than what: the slot is newer than the operation, the command newer than
the slot. It needs `Untrapped`: on a 68882 an exception leaves the slot behind,
and its instruction runs after a newer one (`CirHost_68882_trap.cfg`).

The last section of `CirPipelineProofs` is about state frames, on a 68881 and a
68882, with any program, exceptions, saves in either phase and refused frames. A
host that works through the bridge (`Bridged`) writes for three clocks, reads for
four and pauses for two or more: a save whose format is read sooner would not have been
seen yet. `FrameCarriesPending` speaks of the two moments after a save and after a
restore, and only of a frame a saving unit gave (`ReadOut`); between them the host
passes ten phases and the unit six states. `FrameInv` follows both. `CycleOK`,
`PrevOK`, `FrameWrites`, `FrameCounts`: which bus cycles each phase makes and how far
the host's count of words is. `Opened`: an operation word that IDLE or EXECUTE acts
on has just been written, so the host is at its first word. `Saving` and `Restoring`:
host and unit are at the same word, down to the clock of the bus cycle. `LastRead`:
from the clock on which the slot is latched for the host until the unit is back in
IDLE the slot does not change. `Held`: while the host holds such a frame nothing is
left over for the unit to take, neither command nor operation word, except the
cpRESTORE; so the slot is as it was saved, until the restore replaces it. The ALU
may still work and write its result back meanwhile: that touches no slot. TLC has
checked `FrameInv` on 68881 and 68882 instances with stores, conditionals,
exceptions and refused frames (up to 1.4 million states).

`CirSerialProofs` is about what the host sees, on a 68881 (`Serial`): moves, loads
and stores, conditionals, operation words of no known type, exceptions, saves and
restores between dialogs, refused frames. On a 68882 stores and results are wrong
(section 5), after a save of an executing instruction the host goes on before it
is done, and with `CommandLeads` an instruction is lost: `Serial` is what is left.
None of the four properties says where the host is when the dialog is in a given
state, and all of them depend on it. `SerialInv` does. `HostOK`: which bus cycle
the host can be in, in which phase, with what data, and how far its count of
words is. `StateOK`, one predicate per state of the dialog: where the host can
be then, which written flags are up, and what is staged, launched or computing,
with which operands. The difficult state is IDLE, in which a move is still being
carried out while the host may already be told NULL: it must be over when that
answer is read. `AnswersOK`: an answer is latched on the first clock of the read
and acted on three clocks later; `Truth` is what it promises about the dialog,
and no step of the dialog in between makes it false. Then every word the host
writes is expected and every flag it sets is consumed, so that nothing is left
over for the next dialog, and what the registers owe to program order is at most
the outcome of the current instruction (`Owed`), whose operands are still the ones
program order gives it (`Fresh`). `Ranges` (flags, word counters, payloads) needs
`SerialInv` and is not needed by it.

The theorems about the F-line handler hold for any number of calls, every cycle
count, every time the ALU takes, every frame size and every pause of the handler,
whether or not polls may run out (`PeripheralAssumption`, `FlineAssumption`), with
the three clocks of a write and the four of a read that the bridge makes of them. The
hypothesis `Served` also leaves out page faults in a frame and frames of unknown
format, after which the dialog stays open and both are false
(`Fline_dialog.cfg`). `ResultsAreOwn` looks at one moment, the return of a call,
and speaks of one register, `last_op_sel`. `CallInv` follows the call from its
first write. `BusOK` and `EdgeOK`: which bus cycles each phase of the handler makes,
and that the FPU sees each of them begin once. `ModeOK` and `DialogOK`: the mode bit
and the state of the dialog where the handler is, down to the clock of the bus
cycle and the words of the frame that are left on both sides; this is why the
dialog is over before the handler reads the response, and no operand of the next
call is dropped. `LoadOK`: the operands and the rounding mode written so far are in
their registers and stay there. `ResultOK`: the operation in the FPU is the one of
this call, or one whose call was given up, with its own operands; the result and
the FPSR that come of it; an OPSEL is lost only to an operation given up. `AnswerOK`: what a
read brings is still true when the handler takes it, three clocks later.

The theorems about the SCSI subsystem hold for the free guest of `ScsiSpec`, with
no bound on its accesses, and for every delay, disk, RAM, FIFO size, set of
descriptor blocks and windows (`IrqAssumption`, `DiskAssumption`, `ScsiAssumption`). `LineFollowsChip` relates
two devices that every command touches, some several times. `Agree` is the
relation, together with a controller that withholds nothing (`Sound`); one lemma
each shows that the chip's elementary steps (raise, push, end of a transfer)
keep it, and the commands are chains of these. `CommandsAreEnded` is about every
way of starting a command: it is over, or raises an interrupt, or starts a
countdown whose end raises one (`Proper`).

What the transfer loop does with RAM and sectors is a recursive function over the
bytes, and the library's induction theorems take an operator as a parameter. A
theorem of that library about sets does as well: `<` on the naturals is well
founded, so a set of naturals that is not empty has a least member (`Least`), and
a set that holds 0 and the successor of each of its members is all of them
(`Induct`). `RoundsExist` shows in this way that the rounds of the loop are a
function that satisfies its recursion, `TransferIsLoop` that `Transfer` is its last
round, and `TransferKeeps` that each round keeps `Round`: the bytes moved, the
pointer's advance and what is left of the count are the same number, and RAM
differs only between the window's start and the pointer. `TransferPad` is treated
likewise. `FreeInv` is then the invariant of any guest at all, with counts up to
`MaxCount` and any windows (`GuestNext`): the chip's record with its FIFO, the
channel, the disk's target record, and that the DMA line implies COMPLETE.

The theorems about the driver hold for every set of requests the target knows,
any bytes per transfer that fit the chip's counter, every sector size, cache,
failing sector, RAM and delay, and giving up at any moment (`DriverAssumption`,
besides those of `NextScsi`). `CancelsDma` says that giving up resets the DMA
channel; without it `NoPhantomInterrupt` is false (`NextDriver_phantom.cfg`). The
driver's steps are accesses of the free guest (`DriverIsGuest`), so `FreeInv` holds
as it stands; `DriverInv` adds what only this guest makes true. `Signals`: where the
driver neither waits nor is giving up, nothing is going on in the chip; where it
waits, only the one thing it waits for, and a countdown excludes the interrupt
that ends it; between the reset of the channel and that of the chip no transfer
is due. `FifoHolds`: what the selection will take from the FIFO. `Data` is what
`GoodMeansMoved` needs in every phase before the last: the target serves the
driver's own request and has handed over as many bytes as the driver counts
(`Serving`, with the sectors in the buffer and still to come), those of a read are
in their places (`Copied`), a slot of the cache holds the sector it is labelled
with, and a transfer that is due goes on where the last one stopped. That a
transfer keeps this is once more an induction over its rounds, `TransferHands`, by
`Induct`: a round that finds the buffer empty fetches the next sector, and one
whose card fails leaves a bad status. TLC has checked `DriverInv` on the instances
of `NextDriver.cfg` (198,665 states) and `NextDriver_empty.cfg`.

Only model-checked: liveness and `ENABLED`, which the proof system has no rules
for, and the types of the F-line handler's cycle counts.

## 5. Findings

One run is kept as a counterexample: *68882, lost instruction*
(`mc68881_top.vhd:4261`, run `CirHost_68882_drop`). The ALU finishing on the clock
that decodes the next instruction, or while its operand is awaited, drops that
instruction.

More configurations show other disagreements in the same way; each checks one
property, which TLC refutes:

| Configuration | Property | Shows |
|---|---|---|
| `BusBridge_stopped.cfg` | `RequestStable` | after a bus-side timeout (`mc68881_bus_bridge.vhd:169`) the toggle stays flipped: the FPU side can serve a request the host has given up while the next one overwrites it, and a next request flips the toggle back to where the acknowledge already is |
| `BusBridge_shortreset.cfg` | `RequestStable` | a one-clock bus reset can be over before the FPU side has seen it |
| `BusBridge_notimer.cfg` | `DsackTimerInRange` | with the generic 0 the DSACK timer counts outside its declared range |
| `CirHost_68882_hang.cfg` | `HostReturns` | the ALU finishing in one of two hold states of a pending transfer is not noticed (`mc68881_top.vhd:4301`); the host polls BUSY for ever |
| `CirHost_68882_store.cfg` | `StoreDelivers` | launching a pending store converts stale operand words and copies them into the register the host is about to read (4021) |
| `CirHost_68882_trap.cfg` | `NoReordering` | the pending instruction survives an exception and runs after a newer one (4093) |
| `CirHost_68882_move.cfg` | `MovesBypassExecute` | a pending memory-to-register FMOVE waits in EXECUTE for an ALU it never starts |
| `CirHost_68882_lostsave.cfg` | `SavesAreTaken` | a save the host begins because EXECUTE told it BUSY can be lost: the ALU finishes while cpSAVE is written, the pending store goes on to XFER_DST, and the operation word is cleared there unseen (`mc68881_top.vhd:3869`); the format the host then reads is a stale one and the words of the "frame" are the store's operand |
| `CirHost_68881_stale.cfg` | `InOrderResults` | after a conditional, a command written before its operation word (the order the driver uses) is launched as that conditional and lost (2683) |
| `CirHost_68881_preempt.cfg` | `SaveSuspends` | a save that preempts an operation does not stop it (3976): its result arrives while the frame is read out, or after a restore |
| `AxiLite_late.cfg` | `AcceptedMeansAsked` | the channel timeout can fire on the clock that takes the missing beat (`mc68881_axilite_wrapper.vhd:267`), although the comment at 253 says acceptance wins: both halves accepted, the write is answered SLVERR and never issued |
| `Fline_timeout.cfg` | `ResultsAreOwnAlways` | once polls have run out (`fpu_periph.c:55`), the next call's OPSEL falls on a busy FPU and is lost; the late VALID and result are returned as its own, with FPU_OK |
| `Fline_dialog.cfg` | `DialogOver` | FRESTORE "waits for CIR to return to idle" (`fline_handler.c:1367`) by polling until the response is not BUSY: of a frame of unknown format that is EXCEPT, and the dialog stays open; a page fault in the middle of a frame leaves dialog and mode bit as they are. Later operand writes are then dropped (`mc68881_top.vhd:1978`), and results wrong, with FPU_OK. TLC reports the page fault first; with `MayFault = FALSE`, the format |
| `Wishbone_classic.cfg` | `AskedOnce` | a classic master, the testbench's, has each access taken twice: the strobe still stands when `WB_IDLE` is back |
| `Wishbone_abort.cfg` | `AnswerIsOwn` | a master that begins a cycle while the stall of an aborted one is up takes the aborted one's acknowledge |
| `NextScsi_early.cfg` | `NotTooSoon` | the end of a slice (`main.c:1128`) shows a SCSI interrupt before its countdown has ended |
| `NextDriver_phantom.cfg` | `NoPhantomInterrupt` | giving up without resetting the DMA channel: neither chip nor bus reset forgets the deferred transfer, which then interrupts |
| `NextDriver_empty.cfg` | `DataPhaseHasData` | a write of no blocks enters the data phase with nothing to take (`next_scsi.c:442`) |

## 6. Plan

Done: the bridge and its proofs, the dialog and its host, the refinement of the
bridge to `AtomicPort` with its proof, the proofs about the dialog, both wrappers above it with their proofs, the
NeXT SCSI subsystem and its driver with proofs, and the core's peripheral mode under
the NeXT F-line handler with its proofs. Left, in
this order:

1. `AluDispatch` with the start/done handshakes of the shared multiplier and
   adder and the units that borrow them (packed, remainder, transcendental):
   the mutual exclusion that lines 332-359 of `mc68881_alu.vhd` assert, each
   request answered once, a start refused or taken for each class of operation.
2. The rest of peripheral mode: save and restore by FRAME_CMD with their latency,
   conditionals by OPSEL and their response, FMOVEM.
3. Unit iteration control (divide and remainder, square root, packed) and
   rounding as functions at a reduced width, against a reference definition.

### Not modelled

- The numeric accuracy of the arithmetic on 80-bit operands: out of reach of
  explicit states, covered by the golden vectors.
- Third-party and generated code: Musashi (three copies), FatFs with its code
  tables, ROM images, the Verilog copies. They are nearly all of the repository's
  lines of C.
- The other devices of the NeXT and Atari emulators: register files whose model
  would repeat their code, with no protocol between them to check. The Atari
  emulator's F-line handler uses the same driver as the NeXT's.
