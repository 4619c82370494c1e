# TinyVers: power management, events and simulation in TLA+

TinyVers is a microcontroller with a machine-learning accelerator (FlexML) and a
non-volatile memory (MRAM), built on PULPissimo. It spends most of its life
asleep: software writes a sleep time and a mode, a power management unit in the
always-on domain cuts the supplies of everything else, counts milliseconds on a
32 kHz clock, and brings the chip back. Nothing can observe or repair an error
of that unit, since the processor is off while it works. This directory models,
checks and proves that part of the RTL; the event generator and the interrupt
controller, through which every peripheral of an awake chip reaches the processor;
and the C and C++ programs the repository simulates its cores with, where a
debugger, signals and a simulated program meet. The plan at the end says what
comes next.

## 1. Inventory

| Component | State | Operations | Interaction | Hard behaviour | What makes it correct |
|---|---|---|---|---|---|
| Power domain gate, `rtl/pulpissimo/PowerGateFSM.sv` (five instances) | seven-state machine; registered `clk_en`, `reset`, `isolate`, `sleep_send` | a clock edge, the asynchronous reset | wanted by the high-level machine or a pin; told of the supply by the switch ring | a request that comes and goes on the way; an acknowledge that is late or of an older value; outputs one clock behind the state | controls move in order; no release on a missing supply; `done` tells the truth; a steady request is served |
| MRAM sequencer, `rtl/pulpissimo/PowerGateFSM_MRAM.sv` | fourteen states, a counter, ten registered outputs | the same | the same, without an acknowledge | a change of mind during the descent; `UNTRIG_DPD` has no arm | no signal without the one it rests on; trimmed before use; settling times; orderly shutdown |
| Power management unit, `apb_wakeup_counter.sv` | high-level machine with step states, `is_sleeping`, two counters, copies of time and mode | clock edge, write strobe, test pins | commands six gates, reads their `done` flags; stops the system clock, resets the processor | done flags that arrive apart; software writing while it goes to sleep; hold and step pins | the time slept is the time asked for; every sleep ends; parts come up on a good supply and clock |
| APB registers, `apb_wakeup.sv` | three registers, `r_restore`, the PREADY machine, two synchronisers | APB write, HCLK edge, reset | bus on one side, the unit's strobe on the other | two unrelated clocks; a reset in the middle of a write; HCLK stopped | each write crosses once; both sides agree after a write and after a sleep |
| Sleep and wake-up of the chip | all of the above | | the registers start a sleep, the sleep stops their clock and resets them | a sleep that cuts a write in two; a reset that waits for the clock the sleep has stopped | no setting lost, no sleep nobody asked for, the processor comes back |
| Test bypass, `bypass_register.sv` | two 24-bit stages | shift, load | replaces the outputs of gates and unit | bits move one by one | only complete words reach the domains |
| SoC event generator, `soc_event_{generator,queue,arbiter}.sv` | a 2-bit counter per event, a one-hot priority, three masks | event, acknowledge, mask write | to the interrupt controller, the cluster and the peripherals | several destinations of one event; a counter at its limit | no event lost below the limit; every event served |
| Interrupt controller, `apb_interrupt_cntrl.sv`, `generic_fifo.sv`, `riscv_int_controller.sv` | pending, mask, acknowledge registers; a FIFO of four event numbers; the request the core has latched | event, acknowledge, register write, event number | events from the generator, requests to the core | event, acknowledge and write in one clock; a core that latches a line and takes it later | numbers are read once and in order; none is taken twice or left behind |
| RI5CY Verilator model, `tb/verilator-model/testbench.cpp` | two programs in memory, the debug request, two flags | halt, go, resume | the core's debug mode | a request of a few clocks at any instruction; borrowed registers | the program does not notice |
| RI5CY test benches, `tb/{core,dm}/tb_top_verilator.cpp`, `SimJTAG.sv`, `remote_bitbang.c` | clock, reset, divider; the server's pins and socket | a half clock, nine commands, close | a debugger on a socket, `$finish` | a server that waits inside a clock edge; a debugger that sends ahead or goes away | each read answered in order; the simulation ends |
| System calls and self-tests, `tb/core/{custom,csmith}/syscalls.c`, `tb/core/firmware` | heap break, output, exit; bitmap and hash | `_sbrk`, `_write`, `_exit`; sieve, multiplication, statistics | the test bench's registers | a break that advances twice; a carry between the steps of a product | blocks do not overlap; the tests test what they say |
| Ibex simulation control, `verilator_sim_ctrl.cc`, `ibex_riscv_compliance.cc` | options, reset settings, tracing flags | parse, cycle, trace, stop | the signals SIGINT and SIGUSR1 | a signal between any two steps | the reset as asked for; every stop closes the trace |
| MRAM uDMA channel, `udma_external_per/rtl` | a 14-state sequence with timers, two width converters | program, erase, read, DONE | uDMA channels, the macro | a late DONE; reads after writes | pulse lengths; each word once |
| FlexML control, `hwpe-mac-engine/rtl/panda_fsm.sv` | state, two packet counters | packet, start, end | streamers, data path | counters cleared through a register | every memory gets all its packets before the next starts |

PROJECT.json lists the remaining components (interconnect, timers, uDMA, pads,
vendored cores, tools) with the reason each is left out, and every hazard at its line.

## 2. Modules

| Module | Models | Lines of the source |
|---|---|---|
| `PowerGateLogic` | next-state table, output table and done flag of a gate | `PowerGateFSM.sv:18-149` |
| `PowerDomain` | abstract: the order in which a domain's controls may move | (what the comments and tables of the gates promise) |
| `PowerGateFSM` | one gate with its registers and its free environment | `PowerGateFSM.sv` |
| `PowerGateMramLogic`, `PowerGateFSM_MRAM` | the same two levels for the MRAM | `PowerGateFSM_MRAM.sv` |
| `WakeupLogic` | next state of the high-level machine, what it powers in each state and mode | `apb_wakeup_counter.sv:62-75, 186-414` |
| `WakeupCounter` | the unit with five gates and the MRAM sequencer | `apb_wakeup_counter.sv:186-726` |
| `ApbWakeup` | registers and handshake, with a unit that is only two registers | `apb_wakeup.sv`, `pulp_sync*.sv` |
| `PowerManagement` | `ApbWakeup` and `WakeupCounter` together, with the clock gate and the reset behind it | `apb_wakeup.sv:252-361`, `pulp_soc.sv:572, 1161-1182` |
| `EventArbiterLogic` | the arbiter's prefix network, and the linear search it computes | `soc_event_arbiter.sv:38-107` |
| `SocEvents` | queues, arbiter, destinations, masks, software events, error words | `soc_event_generator.sv`, `soc_event_queue.sv` |
| `BoundedQueue` | abstract: a queue of bounded length | (what a FIFO promises) |
| `GenericFifo` | state and pointers of the FIFO | `generic_fifo.sv:98-272` |
| `InterruptController` | registers, FIFO, the core's latch, the rules of software | `apb_interrupt_cntrl.sv`, `riscv_int_controller.sv:78-108` |
| `DebugHart` | the program, the debug program and the core that runs them | `testbench.cpp`, `riscv_controller.sv`, `riscv_cs_registers.sv` |
| `Syscalls` | heap, output, exit of a simulated program | `custom/syscalls.c`, `csmith/syscalls.c` |
| `Testbench` | both test benches, the server, the debugger; extends `Syscalls` | `tb_top_verilator.cpp`, `SimJTAG.sv`, `remote_bitbang.c`, `sim_jtag.c` |
| `Firmware` | sieve, products, statistics as functions; the multiplier's steps | `firmware/*.c`, `riscv_mult.sv:106-233` |
| `VerilatorSimCtrl` | arguments, clock and reset, tracing, signals, the end | `verilator_sim_ctrl.cc`, `ibex_riscv_compliance.cc` |
| `MC*` | observers and constants for TLC; `MCSocEvents` compares the arbiter's network with the search, `MCTestbench` adds `Firmware` to the test benches | |
| `*_proofs` | theorems | |

The `Logic` modules are the combinational blocks of the RTL, written as
operators; `PowerGateFSM` puts one copy behind registers, `WakeupCounter` five.

**Time.** An action is a clock edge, and a clocked block's new values are all
computed from the old ones, as nonblocking assignments do. Inputs move in actions
of their own between edges. Where a block has one clock (`WakeupCounter`), one
action is one edge for every instance on it. Where it has two (`ApbWakeup`), the
edges are separate actions and their order is free, but for one condition: HCLK is
the faster clock, so that out of reset it has an edge between two edges of the
reference clock (`ticked`; in `PowerManagement` HCLK may also be stopped
altogether). In `PowerManagement` the system clock behind the gate drives both sides of one
block: HCLK is `clk_soc_ext_gated` (through `soc_clk_rst_gen.sv`), and its falling edge clocks
the synchroniser that brings the reset of the logic domain to the registers
(`pulp_soc.sv:572`, `apb_wakeup.sv:253-258`, `pulp_sync_n.sv`). `HclkEdge`, `SocClkEdge` and the
processor's `StartWrite` are therefore all guarded by `clk_en_system`. A sleep that drops both memories
stops that clock two reference clocks before it takes the processor's domain into reset, so
`HRESETn` stays 1 through the sleep; with the memories clocked again on the way up HCLK
has edges, and the registers still hold what they held, until the reset has
come. A sleep that keeps a memory keeps the clock, and the reset comes at once. Both are
in the model, and `FastClocksDone` asks of an edge of the reference clock only that, *if* the
fast clock runs, the reset has come through and HCLK has had an edge before it.

The synchroniser has no reset of its own, and under the pad reset its clock is stopped. `SystemInit`
therefore starts after the pad reset with both stages, and wherever `HRESETn` is 1 every register
of the slave, at any value. Only the write synchroniser, on the ungated
`ref_clk_i`, has settled by then on whatever is requested of it: the pad reset
is held for many reference clocks (`tb_pulp.sv:646-659` waits a millisecond, about 32 of them).

`SocEvents` has one clock and one action, `Clk`, with the events that fire, the
destinations that accept and the APB access of that clock as its inputs. The
generator assigns `r_apb_events` and `r_err` with blocking assignments in a clocked
block, so that a simulator may let the queues see the new value at the same edge;
the model is of the flip-flops that synthesis builds, where they see the old one.
The one-hot `r_priority` is a number there, and the grant a linear search:
`NetworkIsRoundRobin` checks that the network of the code computes just that.

`InterruptController` has one clock too. Software is not a program but any use of
the registers, with a history variable `clean` that says whether it has kept to four
rules (`Disciplined`): it does not overwrite `REG_INT` as a whole, does not set
the FIFO's bit by hand, clears it only while it polls, and reads a number it has been
told of before it enables or unmasks anything. What the hardware owes to such
software is stated with `clean`; what it owes to anyone (`FifoIsQueue`) without.

**Programs.** In the simulation modules an action is what runs without an
interruption that matters: an instruction of the hart in `DebugHart`, half a clock
or one call of the server in `Testbench`, a step between two points where a signal
makes a difference in `VerilatorSimCtrl`. The server waits inside the evaluation of
a clock edge (`call`), so that no clock action is enabled meanwhile: that is what the
code does, although its message of an empty socket promises another try at the next
call. `remote_bitbang.c` and `sim_jtag.c` are in the repository twice, in
`rtl/tb/remote_bitbang` and in `ips/riscv/tb/dm/remote_bitbang`; the copies are
identical, and the map names lines of either.

**Environment.** The switch ring is a `sleep_ack` that becomes `sleep_send`
after any delay (`SwitchSettles`). `PowerGateFSM` leaves the delay free.
`WakeupCounter` and `PowerManagement` bound it by `MaxLag` reference clocks and
let domains settle in groups (`SwitchGroups`). The processor starts a write only
on a running clock with `HRESETn` at 1 (in the chip it is also held by a reset of its own,
`pulp_soc.sv:464, 791-792`, so the model allows more), and triggers a sleep only with a time it has set.
`WakeupCounter` by itself abstracts the handshake to a spacing of the write
strobes (`MinGap`, `MinBoot`); that the handshake keeps it is the property
`PmuAssumptionsKept` of `PowerManagement`, so the abstraction is checked and proved,
not assumed. In the same way a gate needs requests that are held, and the MRAM requests
that change at rest only. `PowerGateFSM` and `PowerGateFSM_MRAM` let requests do
anything and remember in `held` and `atRest` whether they have behaved since the last
reset (for `held`, the test bypass has been off as well); `RequestsHeld` checks that
the high-level machine makes them behave whenever a sleep time other than 0 is set
and the two memories have been treated alike (`alike`). Otherwise the properties
that need them are checked on the unit itself (`SuppliesGood`, `SleepEnds`).

The debugger of `Testbench` is external: it sends any commands ahead, reads replies
or not, closes its connection or breaks it. The design behind the JTAG pins is
reduced to the number of pin changes it has seen, which is its TDO: enough to tell
from a reply which commands had reached the design.

**Faulty variants.** Some definitions stand behind a variant of themselves with a
plausible mistake in it, marked as faulty: a dropped wait, a swapped order, a
counter one too long. Nothing uses them. PROJECT.json pairs each with the property
that must fail when it takes the place of the right one, which shows that the
property can fail.

## 3. Properties and runs

| Run | Properties | Question | Bounds |
|---|---|---|---|
| `gate` | `OrderedControls` `Serves` `SupplyGoodOutOfReset` `DoneMeansUp` | requests, resets and bypass at any clock: are the controls in order, is a steady request served? Of requests that are held: is the supply good whenever the domain is out of reset? | none: complete state space |
| `mram` | `SupplyChain` `TrimmedBeforeUse` `Serves` `OrderlyShutdown` `SuppliesSettle` | requests at any clock: does any MRAM signal outlive the one it rests on? At rest: one supply after the other, settling times kept? | none |
| `wake` | `SleepTimeExact` `SuppliesGood` `LogicLast` `RequestsHeld` `SleepEnds` | sleep after sleep, every mode, rings together or apart, a reset: the time asked for and not a clock more or less, good supply and clock, always an end? does the unit meet the gates' assumptions? | times 0, 1 and 2 ms, ring delay up to 2, one pad reset |
| `wake_pins` | `PinsLeaveNoTrace` | after any use of hold and step, does the machine come back? | `LoopLimit` 8, one mode and reset's, delay 1 |
| `apb_handshake` | `OneStrobePerWrite` `InSync` `StableUnderStrobe` | any two clocks, resets at any time: does each write cross once? | two times, two modes; else complete |
| `manage_sleep` | `WritesKept` `PmuAssumptionsKept` `SleepIsWhole` `NoSpuriousSleep` `SleepWakes` | whole sleeps under a processor that keeps writing, from an unknown power-on: is anything lost or repeated, is the reset there in time? | times 1 and 2, modes that treat the memories alike, delay up to 2 |
| `manage_zero` | `NoSpuriousSleep` (violated) | the finding below | times 0 and 1, two modes |
| `events` | `NetworkIsRoundRobin` `BoundedBypass` `LostEventsShow` `Served` | is a waiting event overtaken without end, or an event dropped unseen? does the prefix network find the first request from the pointer? | 3 events, one destination, one register word; the network for 2 to 8 events |
| `interrupts` | `NumbersInOrder` `NoPhantomNumber` `FifoIsQueue` `NumbersLeave` | any lines, acknowledges, register writes and numbers in one clock: is each number read once, in order, and in the end? | two lines, a FIFO of 2, numbers modulo 4 |
| `debug_hart` | `ProgramUndisturbed` `ReportsInOrder` `FlagSendsOn` | a halt at any instruction, a request of any length, either flag: does the program notice, does the debugger see what happens? | none but `repeat_factor` 20, the code's; three cores |
| `testbench` | `AnswersInOrder` `HeapBlocks` `SelfTestsPass` `SimulationEnds` | a debugger that sends ahead and goes away, a program that allocates: right answers, disjoint blocks, an end? do the self-tests test what they say? | 5 commands, 3 pin words, room for 2 replies, a heap of 8, 6 bytes; products of 4-bit words, counters to 40 |
| `sim_ctrl` | `ResetAsAsked` `RunEnds` | any arguments, reset settings, and signals between any two steps: is the reset as asked, does every stop end with a closed trace? | 2 options, delays and durations 0 to 2, time to 10 |

Type invariants are not runs of their own: the inductive invariants that TLAPS
checks contain them, for every value of the constants.

**Why the bounds are enough.** The gates and the handshake have no data that
grows: their runs visit every reachable state. The unit's behaviour depends on the
sleep time only through the comparison with `msec_count` and on whether a sleep
outlasts the descent of the domains: 0 ms (alarm before the descent has begun),
1 ms (the first wrap of `loopcount`) and 2 ms (a second one, and a value kept
between two) cover the cases. `LoopLimit` is the code's 32 wherever the length of
a millisecond against the length of the descent matters. It is 8 in `wake_pins`,
which is about pins and not about time: a shorter millisecond only moves the pins'
changes against a shorter sleep. A ring delay of two clocks is longer than the one
clock that makes an acknowledge stale, and `SwitchGroups` with the groups of a state
and every single domain gives every order of arrival. `MinGap = 6` and `MinBoot = 2`
are no larger than the distances the handshake really makes, which `PmuAssumptionsKept`
checks and `AssumptionsAreKept` proves. `gate`, `mram`, `wake` and `apb_handshake` have the reset at any moment.

The events are alike but for their place, so three of them give every relation of a
waiting event to those before and behind it, and the theorems hold for any number,
as they do for any destinations, words and masks. A second destination only adds
ways to stall, and a second word only keeps its errors longer. The arbiter's network
depends on the number of events through its levels and the wrap-round alone: 2 to 8
has powers of two, odd and even numbers and three depths (the chip has 169 events
and eight levels). `bypassed` counts to `EVNT_NUM`, one more than `BoundedBypass`
allows. Queues count to 3, as in the code.

Of the interrupt lines, the FIFO's and a higher one show both priorities and a
latch in the name of another line; a FIFO of two has an empty, a middle and a full
state and pointers that wrap, and the theorems hold for any depth. Numbers are
compared only with the one expected next.

Three pin words and five commands let a read follow changes, no change and another
read, with a command behind it in the socket; room for two replies lets a debugger that sends three
reads and takes no answer fill the socket; `TICK_DELAY` 1 leaves the pins a clock
between two calls, and the delay only adds clocks in which nothing happens. A
heap of eight bytes is full after two to four blocks; `HeapIsSafe` has any. The
multiplier's steps treat a word as two halves: four bits have every sign and every carry
between the halves, and all pairs of operands are tried where `multest.c` draws ten.
`MaxTime` is beyond every reset and limit used, and nothing compares a later time.

**Fairness.** The reference clock is not gated anywhere (`soc_peripherals` gets it
straight from `pulp_soc.sv:575`), so its edges are weakly fair, and so is each
switch ring, which is an analog element that settles. `HclkEdge` and `SocClkEdge`, the two
edges of the system clock behind its gate, are weakly fair but disabled while
`clk_en_system` is 0: nothing is claimed of a stopped clock, and a reset that waits for it comes
only when the unit has turned it on again. `SocEvents` assumes
that its clock runs and that now and then all destinations accept in one clock: the
uDMA always does (`udma_ctrl.sv:77`), and the interrupt controller does when its
FIFO has room. `InterruptController` assumes that software reads what it was told
of and then enables interrupts again (weakly fair), and that a core which could take a
request again and again takes one (strongly fair); the formula is written out, since
ENABLED of a step with this many inputs is costly. `DebugHart`, `Testbench` and
`VerilatorSimCtrl` assume that the hart, the simulator and the process run
(`WF` of `HartStep`, `Simulation`, `Main`); of the debugger, the test bench's flags
and the signals nothing is assumed. Nothing is assumed
of the processor, the pins or the resets: `Serves` is conditioned on requests that
stay, `PinsLeaveNoTrace` on pins that come to rest.

**What the runs show that the code does not say.**

- *Finding* (`manage_zero`). The trigger register is cleared only by the reset of
  the logic domain. With a sleep time of 0 and a mode that drops one of the two
  memories, the machine reaches `FSM_POWER_MEM` with one done flag of two. That is
  neither "none" nor "both", so the default of the case statement takes it
  to `FSM_POWER_ON`, before the processor has been reset. The trigger stays 1, and
  the next write of the time or the mode puts the chip to sleep, which
  `apb_wakeup.sv:119-121` says must not happen. With times of at least 1 ms the
  domain always goes into reset first (`SleepIsWhole`). The mode keeps a memory, so the clock
runs throughout.
- A sleep that drops both memories does not reset the registers when it stops their clock but
  on the way up, before the processor is released (the last part of `SleepIsWhole`). Until then a write
  that was cut short stays in them, but gives no strobe any more (`StoppedSilent` in section 4).
- The same short cut skips the uDMA, MRAM and logic states. The processor still
  comes up, on a good supply and a running clock, because every gate looks after
  itself, but it no longer comes up last: that part of `LogicLast` holds only for modes
  that treat the two memories alike, with rings that settle together.
- Writing the mode twice while awake, with `pd_mram_active` set and cleared, turns
  the MRAM round in mid-sequence. `SupplyChain` and `TrimmedBeforeUse` survive this
  (`mram`); `OrderlyShutdown` and the settling times do not, which is why
  `RequestsHeld` is stated for modes that leave the MRAM on while awake.
- Stepping through the states faster than the switch rings settle breaks the
  assumption of `SupplyGoodOutOfReset` in the same way. The pins are for test;
  `PinsLeaveNoTrace` is what is left to promise.
- A "millisecond" is 33 reference clocks (`one_msec` is bit 5 of a counter that
  restarts from 0), and `SleepTimeExact` is stated for that length, from above and from below.
- Under the test bypass the switches follow the scan chain while the gate compares
  the acknowledge with its own register, and it can wait for ever. `Serves` is
  stated for the multiplexer at 0.
- Event generator: an event for several destinations stays on offer until all accept
  in one clock, and a destination that is ready takes it again in every clock until
  then. While it is on offer no other event is served. The offer is not stable: an
  event nearer to the pointer that fires in the meantime replaces it. `err_event_o`
  rises as well when an event meets a full queue in the clock of its acknowledge,
  where nothing is lost; the converse, `LostEventsShow`, is what holds, except that
  an error of the clock in which its word is read is cleared unseen.
- Interrupt controller: the line of the FIFO is a level and an acknowledge takes a
  number out, so software that enables interrupts before it has read `REG_FIFO`
  loses one. The four rules of `Disciplined` are what it takes; the repository
  does not state them.
- `testbench.cpp` raises the debug request for two clocks. The core asks for it once
  more when it saves the return address (`riscv_controller.sv:894`); if it is gone
  by then, the hart enters debug mode without one, and `dret` leads back to the
  address of an earlier session. `ProgramUndisturbed` is stated for requests that
  last (`entry.saved`). The flag is raised for hart 0x3e0 while `top.sv` gives the
  core number 0, and the core's halt address is left at its default, where
  `testbench.cpp` has put no program; `FlagSendsOn` is about the core the test bench addresses.
- `custom/syscalls.c` increments the break twice when the first increment fits. Blocks
  do not overlap, but half of the heap is lost, and a block that no longer fits is
  handed out all the same (`HeapBlocks` is stated for what is asked for up to half of the heap); `csmith/syscalls.c` has no end of the heap at all.
- A debugger that closes its connection without the quit command leaves the server
  with a dead socket: no other is accepted, and the simulation runs for ever. A debugger that is
  there but lets its replies fill the socket aborts the simulation (`remote_bitbang.c:248-252`
  takes EAGAIN for a failure). `SimulationEnds` is stated around both: it claims an end
  after a quit command, and an abort only where a reply is not received.
- The reset settings of the Ibex simulation are doubled in 32-bit unsigned arithmetic;
  `VerilatorSimCtrl` and `ResetIsAsAsked` are about settings for which that does not wrap.
- `--term-after-cycles` counts half clocks, a negative value never ends the run, and
  the option has no short form although the parser has a case for one. `RunEnds` takes the
  limit as `Run` compares it, so it claims nothing against the first two.
  `--rominit` and `--flashinit` are read and never used.
- A SIGUSR1 between the two statements of `VerilatorSimCtrl::Trace` changes the
  tracing without a message.
- `stats.c` computes 100 times the cycles in 32 bits: the CPI is right up to
  42949672 cycles.

## 4. Proofs

TLAPS proves the following for every value of the constants (`Scratches`,
`Modes`, `LoopLimit`, the gaps, any behaviour of requests and pins; any number of
events, destinations, register words and masks; any depth of the FIFO, lines and
register values; any heap and increments; any pin words and number of commands; any
reset settings and arguments; any number of repetitions and core that the program leaves room for), under the hypotheses named below the table.

| Module | Theorem | Property |
|---|---|---|
| `PowerGateFSM_proofs` | `Typing`, `Trailing`, `Ordering` | `TypeOK`; the outputs trail the state; the gate implements `PowerDomain` |
| | `SupplyHeld`, `SupplyGood`, `DoneTruthful` | `SupplyGoodOutOfReset`, `DoneMeansUp` |
| `PowerGateFSM_MRAM_proofs` | `MramTyping`, `ChainHolds` | `TypeOK`, `SupplyChain` |
| | `DescentHolds`, `Orderly` | `OrderlyShutdown` |
| | `TrimmedFirst`, `RegulatorsSettle` | `TrimmedBeforeUse`, `SuppliesSettle` |
| `PowerManagement_proofs`, the unit | `WakeupTyping` | `TypeOK` of the unit with all its gates |
| | `SleepIsExact`, `SuppliesAreGood`, `LogicComesLast`, `RequestsAreHeld` | `SleepTimeExact`, `SuppliesGood`, `LogicLast`, `RequestsHeld` |
| `PowerManagement_proofs`, the system | `AssumptionsAreKept` | `PmuAssumptionsKept` |
| | `SystemKeepsTheUnit` | `SleepTimeExact` and `SuppliesGood` of the composition |
| | `SleepsAreWhole`, `OnlyTriggersSleep` | `SleepIsWhole`, `NoSpuriousSleep` |
| | `WritesSurviveSleep` | the safety half of `WritesKept` |
| `ApbWakeup_proofs` | `Invariance`, `ApbTyping`, `HandshakeHolds`, `WriteCrossesOnce`, `RegistersAgree`, `CrossingIsStable` | `TypeOK` and the three properties of `apb_handshake` |
| `SocEvents_proofs` | `Typing`, `RoundRobin`, `LossShows` | `TypeOK`, `BoundedBypass`, `LostEventsShow` |
| | `RoundRobinRoom` | the invariant behind `RoundRobin` |
| `InterruptController_proofs` | `InterruptInvariance`, `FifoImplementsQueue`, `EachNumberOnce`, `LatchedFindsNumber` | `FifoIsQueue` (a refinement of `BoundedQueue`), `NumbersInOrder`, `NoPhantomNumber` |
| `Testbench_proofs` | `HeapIsSafe`, `HeapIsSafeOnTheBench` | `HeapBlocks`, of the library and on the test benches |
| | `EachReadAnswered` | `AnswersInOrder` |
| `VerilatorSims_proofs` | `HartAlways` | the invariant behind the next two |
| | `UndisturbedAlways`, `ReportsAlways` | `ProgramUndisturbed`, `ReportsInOrder` |
| | `ResetIsAsAsked` | `ResetAsAsked` |

Hypotheses, beyond the assumptions of the modules:

- The unit and the system, but for `WakeupTyping`: the hold and step pins at rest
  (`Pins = {}`; what their use leaves behind is `PinsLeaveNoTrace`).
- `SleepIsExact`, `SuppliesAreGood` and `RequestsAreHeld`: writes at least as far apart as the
  handshake makes them (`HandshakeTimes`: 6 clocks, and 2 after a reset), which
  `AssumptionsAreKept` proves of the handshake.
- `SuppliesAreGood`: no sleep time of 0, after which a request can be withdrawn half way.
- `RequestsAreHeld`: a millisecond of at least 12 clocks, in which a domain's descent ends.
- The five theorems on the system (`SystemAssumption`): `MinGap` and `MinBoot` exactly 6 and 2
  (`HardwareTimes`; they guard nothing there, the counters of the distances only stop at
  them); no sleep time of 0, with which `manage_zero` shows `NoSpuriousSleep` violated; and a
  millisecond of at least 5 clocks (`LoopLimit >= 4`). The code's millisecond has 33.

What two of them do not say: `LogicComesLast` gives the running clock for every mode and delay, but
that the memories, the uDMA domain and the MRAM are up only under `alike`, that is for modes that keep
or drop both memories, leave the MRAM on while awake, and rings that settle together. `SleepIsExact` is about the reference clocks
from the trigger's strobe to the alarm, not about the way up after it.

*Gate.* The order of the outputs is not inductive by itself: the outputs at the
next edge depend on the state. `OutputsTrailState` says for each state which values
the four registers can have, one clock behind; it is inductive, and with it every
clock edge is a step of `PowerDomain` or a stutter. `SupplyInvariant` adds that a
machine past `SWITCH_POWER_1` was told to close its switches and has seen them
closed, which needs a request that is held.

*MRAM.* `SupplyChain` is proved with the rank of the states: an output of rank k
is high only if the state has passed rank k. `DescentInvariant` says what the
outputs are in each state of a descent, and that a state of the descent is reached
only from the one above it. Two properties watch with observers of `MCPowerGateMram`:
`TrimKept` says in which states the trimming is remembered, up to the clock at which the
chip enable falls, and `SettleInvariant` that on the way up each supply is on from
the second clock of its state and one clock older in the state after it.

*Handshake.* Request and acknowledge chase each other through the six flip-flops
of two synchronisers on two clocks. `Wave` lists them in the order in which a level travels, and the
invariant `HandshakeInvariant` says that this list is one rising or one
falling front and where the PREADY machine stands against it. The strobe is the
place where the front crosses the edge detector, which it does once a write.
The invariant has three parts: `ControlInvariant` (the wave, the PREADY machine
and the count of strobes), `DataInvariant` (a register under way holds the written value, and
the copy that has been made is the register's) and `ArrivedInvariant` (what has arrived stays).
They are apart because a sleep breaks one of them and not the others.

*The unit.* The high-level machine waits for `done` flags that are a clock behind the
domains, and a domain's outputs are a clock behind its state, so an invariant over
the machine has to say where each of the six domains can be. It is built in
layers, each of which uses those before it:

- `PinsRest`, `GatesTrail`: pins at rest, and in each of the five gates the outputs one clock
  behind the state.
- `LogicTiming`: the clocks until the next write may come are at least those until the processor
  is in reset, for each state its domain can be in while the machine goes to sleep or wakes.
  So no write reaches a machine that is asleep.
- `CountInvariant`: `SleepCounted`, and that the counters and the history counter start together.
  It is inductive only with `LogicTiming`: a late write would change the time of the sleep it
  began. With it `AlarmIsExact` shows that the edge which ends a sleep finds the counter at what was asked
  for. The product of the time and the millisecond's length is non-linear, and every step
  over it is a lemma of its own (`OneMore`).
- `SupplyInvariant`: a domain past `SWITCH_POWER_1` has its acknowledge, and an old acknowledge is
  never taken for a new one, because a request that has been withdrawn stays so for two clocks.
- `MemoryUp`, `WakeOrder`: what is running in each state of the machine on its way up, and that
  domains treated alike are in the same state.
- `MramRest`: of a sleep with the MRAM off, the clocks gone by and the clocks its
  sequencer has left to go down are together at most 13.
- `DownInvariant`: the same of the processor's domain, 5 clocks from the start of a sleep.

*The system.* The registers of `PowerManagement` are those of `ApbWakeup` with another
name for two of them, so `PowerManagement_proofs` takes the step lemmas of
`ApbWakeup_proofs` through INSTANCE and does not prove the handshake again.
New are the places where the two meet, and the reset that may have to wait. The registers are
`Known` while the processor is released and while `HRESETn` is 0; in between (after power-on, and
between the fall of the domain's reset and its arrival) nothing is claimed of what they hold. `LinkInvariant` has four parts:

- `ResetChain`: a reset under way in the synchroniser reaches the registers before the processor is
  released. It rests on `ReleaseFindsReset`: the machine wants the logic domain only while a memory is up
  (`MemoryUp`), so the clock has run since the last reference edge and the reset has come through.
- `StoppedSilent`: while the clock is stopped and the reset has not come, the write synchroniser can
  see a request fall but not rise, so no strobe comes from a side that stands still. It holds since
  the clock stops within the first three clocks of a sleep, while the
  trigger's handshake is still on its way back (`StopsEarly`).
- `WriteTiming`: for each position of the wave, the clocks until the next strobe are no fewer than
  those the unit counts on.
- While the registers are known, the control part of the handshake and `TriggerInvariant` (the trigger
  is never set beside a time that software has not written).

That gives `PmuAssumptionsKept`, and with it the system implements the safety part of the
unit's specification (`SystemIsSafe`): everything shown of the unit alone holds in it.
`WriteInvariant` says that the data agree while the registers are known, and that a write is in its
register in time as long as the machine is awake; asleep, a write may be cut in two, but then no
strobe comes before the reset and the restore. `TriggerSpent` says that a trigger
that is still set is asleep, under reset, or that of the write on the bus.

*Debugger.* Commands queue up in the socket, and TDO is taken before the command is
read, so the invariant must speak of commands not yet executed. `Story` says that there is
a path of pin positions, one for each command under way, which begins where the
pins are and ends where the debugger has put them, and a path of reply numbers beside it; each
read on the path is to tell the changes of the pins at its place. A command executed
takes the first step off the path, one sent adds a step at the end, a reply taken lowers
the numbers by one. The path is a witness of an existential and not computed by recursion, so that
no induction over the queue is needed. That TDO is still right when the command has come is
`ServerInvariant`: simulated time stands still while the server waits.

*Events.* `BoundedBypass` is not inductive: a count of services says nothing of the
next one. `BypassRoom` adds the distance from the pointer to the waiting event; the
lemma `Nearer` says that serving the nearest request brings the pointer nearer to
every other one, so the sum never grows while an event waits.

*Interrupts.* The invariant ties three things together: the numbers in the FIFO and
the one in `r_fifo_event` follow each other; the line is up only over a number; and
of the numbers taken out at most one has not been read. With it the acknowledge, the
clear and the latch each find what they take, and the FIFO's states and pointers map to a
sequence (`Contents`) whose changes are those of `BoundedQueue`.

*Debug session.* `HartInv` says where the hart can be and what it holds there.
Outside a session it is at an instruction of the program (`InProgram`: which part
of `loadProgram`'s list, and the registers and the word that part relies on later), or
stuck at address 0. In a session it is at one of 28 instructions of the debug program, or at
the jump that `whereto` writes, and `SessionAt` says for each of these where the two
borrowed registers of the program are (still in place, one or both in the scratch registers,
or back) and what the debug program has in them meanwhile; or it waits for ever at a
halt address where nothing was written. `ReportAt` says what it has reported by then. `InProgram` is kept of the
interrupted program all the time, so that it holds again when the hart leaves. The invariant
needs that the flag is there only with the jump, and that no later session
can start, which is why a hart that was not saved goes to 0. What is decoded at an
address is not taken from the model's tables by evaluation, which the number
of repetitions forbids, but proved from the way the memory is written (`ProgramCode`,
`DebugCode`, `FetchProgram`, `FetchDebug`). TLC has found the invariant to hold in the states of
`debug_hart` before it was proved.

*Heap and reset.* Every block ends at or below the break, or the break is at the end of
the heap, and the break is at most twice what was asked for: with the former no
two blocks meet, with the latter half of the heap is safe. For the reset, the
invariant says which level the reset has at each time, and that the clock is the
parity of the time.

*Assumptions used:* `ConstantsAssumption`, `ApbAssumption`, `SocEventsAssumption`,
`InterruptAssumption` and the FIFO's, `HeapAssumption`, `TimeAssumption`,
`CoresAssumption` (a core's flag lies below the debug program, and its halt address is one of
the two there are) and `ProgramAssumption` (the program ends below the halt address
of the core as instantiated; the code's 20 repetitions end at 0x300), which TLC
evaluates in the runs.

Only model-checked: every liveness property, since neither fairness nor ENABLED can be
reasoned about here (`Serves`, `SleepEnds`, `SleepWakes`, `PinsLeaveNoTrace`, `Served`,
`NumbersLeave`, `FlagSendsOn`, `SimulationEnds`, `RunEnds`, and of `WritesKept` that a write
completes); `NetworkIsRoundRobin` and `SelfTestsPass`, which are about functions that
compute by recursion and hold for the sizes tried.

## 5. Not modelled

Reads of the registers (they change nothing); that a domain without supply forgets what its
registers hold (the repository has no power intent that says which do: the model keeps the values of the slave
through the sleep, and every sleep resets them before the processor is released); the multiplexers of the unit's own
outputs under the test bypass (`apb_wakeup_counter.sv:728-778`); clock gating cells,
glitches and metastability inside a clock period, which the synchronisers are
there for; in the event generator the synchroniser of the low-speed clock (its rise
is one of the events that fire freely) and the selection of the timers' events; the values that pads and regulators take; of the simulation, messages, statistics and
waveform dumps, the system calls of `dm/prog` (they have the heap of `csmith` and another
address to exit by), `_brk`, the start-up code, instructions of the core that
the two programs of `DebugHart` do not use, and the time an instruction takes (the
length of the debug request is free instead); `encoding.h`, `debug_rom.h` and the
headers of the compliance tests, which are tables and assembler macros without
state; everything PROJECT.json lists as `not_modelled`.

## 6. Plan

Done, in this order: `PowerGateLogic`, `PowerDomain`, `PowerGateFSM` and its
proofs; the MRAM sequencer and its proofs; `WakeupLogic`, `WakeupCounter`;
`ApbWakeup` and its proofs; `PowerManagement`; `EventArbiterLogic`, `SocEvents` and
its proofs; `BoundedQueue`, `GenericFifo`, `InterruptController` and its proofs; the
simulation programs, `DebugHart`, `Syscalls`, `Testbench`, `Firmware` and `VerilatorSimCtrl`,
and their proofs.

Next, most important first:

1. `InterruptController` composed with `SocEvents`: a destination that stalls while its
   FIFO is full.
2. `MramUdma`: `TX_RX_to_MRAM` with its timers, the late DONE and the two width
   converters. Safety: pulse and recovery times, each word programmed once, reads
   after writes; liveness: a channel that is served ends.
3. `PandaFsm`: packet counters cleared through a register; each memory gets the
   packets of its own phase.
4. `BypassRegister` with the multiplexers of the unit.
5. Proofs: that `ApbWakeup` implements a one-place register channel.
