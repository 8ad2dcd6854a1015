# The E1 chip in TLA+

This directory is the verification development of the E1 chip: the RTL under
`src/rtl/`, the runtime and the Linux driver of its NPU, and the programs under
`src/scripts/` that build, run, archive and judge the evidence of what works. It
holds TLA+ modules, the TLC configurations that check them on small instances, and
proofs for TLAPS.

## The system

| Component | State | Operations | Talks to |
|---|---|---|---|
| `dma/e1_dma.sv` | programmed request, latched cursor, FSM, status bits, handshake flags | start, clear, copy one beat (read, write, response), stop | memory by AXI-Lite, software by MMIO, `irq_dma` |
| `memory/e1_axi_lite_dram.sv` | captured address, captured data, one response of each kind, memory | capture, perform, accept read, take response | one AXI-Lite master behind a fabric |
| `npu/e1_npu.sv` | operands, scalar engine, GEMM sweep, scratchpad, descriptor engine, status | start scalar / GEMM / ring, run, fetch, stream, launch, advance, refuse, time out, clear | memory by a read master, software by MMIO, `irq_npu` |
| `top/e1_soc_top.sv` | response registers of the memory port, CLINT, memory | arbitrate DMA and NPU reads, decode debug MMIO, tick | all engines |
| `interconnect/e1_axi_lite_interconnect.sv` | held requests, outstanding FIFOs, watchdogs | arbitrate, decode, route responses, time out | three masters, seven slaves |
| `interconnect/e1_linux_soc_contract.sv` | owner locks of the memory port, MMIO wrapper | lock, release, convert AXI-Lite to MMIO | CPU, DMA, memory, interrupt controller |
| `interrupts/e1_interrupt_controller.sv` | pending, enable, captured write, responses | latch, enable, claim, complete | CPU, the engines' interrupts |
| `cpu/e1_cpu_axi_bridge.sv` | read FSM, write FSM, beat counters | split a 64-bit burst in 32-bit accesses | CPU, interconnect |
| `peripherals/e1_uart.sv` | two FIFOs, two samplers, flags | push, pop, shift | pins, MMIO |
| `peripherals/e1_peripherals.sv`, `display/`, `security/`, `debug/` | counters, key sequence, nibble registers | tick, compare, arm, commit, launch | MMIO |
| `compiler/runtime/e1_npu_runtime.py` | none beyond the device's | check arguments, write, start, poll, read back | the NPU's registers |
| `sw/linux/drivers/e1/e1-npu.c` | a mutex | the same by ioctls, of several callers | the NPU's registers |
| `scripts/check_chipyard_verilator_linux_smoke.py` with wrapper and repairs | generated tree, simulators, log, trace, report | build, run under a timeout, retry, archive; judge the log; repair | files, a lock |
| `scripts/generate_chipyard_openagent.py`, `capture_cpu_ap_evidence.py` and the CPU/AP gates | imported artifacts, import manifest, transcripts | import, bind a transcript, record hashes, judge | files |
| `scripts/run_cocotb.sh`, `check_cocotb_results.py` | results, archive, manifest, two lock directories | simulate, archive, enter in the manifest, judge | files, locks |
| `scripts/check_pd_signoff.py`, `archive_pd_signoff_run.py` and the PD gates | OpenLane run directories, archives | advance a run, archive it step by step, judge | files |
| `scripts/run_openlane.sh` | lock directory, containers | check, steal a stale lock, lock, run, release | files, docker |
| `scripts/check_board_package_evidence.py`, `check_manufacturing_artifacts.py` | delivered files, acceptance records, manifests | deliver, accept, claim, judge, resolve | files |
| `scripts/run_mvp_simulator.py` and its readers | log, temporary report, report | run thirteen commands, classify, publish; read | files |
| `scripts/check_mvp_status.py`, `product_check.py`, `pipeline_check.py` | everybody's evidence | classify each row, run the pipeline | files |
| `scripts/check_software_bsp.py`, `boot_android_simulator.sh`, `intake_android_evidence.py` and gates | logs of the board support | capture, install, judge | files |

What makes them hard. In hardware all registers advance on one clock edge, so
an MMIO write, an FSM step and a bus answer meet in the same step, and the order
of assignments in an `always_ff` block decides who wins. A request and its data
travel apart; a read is used edges after it was made; a timeout may overtake an
answer; software may write any register while an engine runs. The programs share
files and locks made of directories: two of them interleave, each may be killed
between two of its steps, a file is judged and read again later, and several
gates decide about the same evidence, each in its own way.

What makes each correct:

* **DMA** — a job is the snapshot taken at its start; bytes are moved in order
  and each once; the counters say what was moved; a completion is never lost;
  every transfer ends.
* **NPU** — status tells the truth; a command computes with the operands of its
  start; a descriptor is executed whole, once and in order, and only if it is
  owned by the hardware; a run that stops leaves the tail where it stopped;
  every command ends even if the memory does not answer.
* **SoC top** — the two readers of memory do not block each other, each answer
  goes to who asked, and none is left behind by a timeout.
* **Interconnect** — every accepted access is answered exactly once, to its
  master, from its slave, also where another slave never answers; nobody starves as
  long as every slave takes and answers in a bounded time.
* **Interrupt controller** — an asserted source is pending until completed.
* **Bridge** — a burst returns each beat once, with both halves of one read.
* **UART** — a byte written is sent once, in order, and received as it was sent (which
  the code does not do, see *What the runs found*); counts match contents; a change
  of speed costs what is on the line and nothing after it.
* **Runtime and driver** — a call that succeeds returns the result of its own
  command, and what the argument checks let through runs to its end.
* **Smoke, cocotb** — a pass is earned by the transcript that was judged; every
  wrapper and job comes back; a repair repairs.
* **CPU/AP evidence** — artifacts and transcripts are of one generation, bound to
  each other by hashes, and the gates agree as far as they look at the same things.
* **PD signoff** — an archive that verifies holds what was judged; a verdict is
  about one run; one flow runs at a time, as far as lock and containers tell.
* **Releases** — acceptance is of the content that was recorded, and the inventory of
  the content that was validated.
* **Aggregate, table** — a claim rests on one transcript, a pass on evidence
  nobody found failing.
* **BSP logs** — what was installed or reported passed stays so until somebody
  else writes; the ways to ask agree.

## Modules

One step of a model is one rising edge of `clk`. A module that models a block has
an action `...Edge(w, b)`: `w` is the MMIO write of that edge (or none), `b` what
the other side of the bus drives. A system module conjoins the edges of the
blocks it wires together, so all of them read the values before the edge, as
nonblocking assignments do. Reset is the initial state.

| Module | Is |
|---|---|
| `E1Bus` | addresses, byte lanes, wrap-around, decoding, lane merge |
| `E1Dma` | `e1_dma.sv` |
| `AxiLiteDram` | `e1_axi_lite_dram.sv` behind a fabric that may withhold channels |
| `DmaSystem` | the two wired together, with the properties of a copy |
| `CopyJob` | what the DMA promises, without a bus: the abstract specification |
| `DmaProofs` | theorems about `DmaSystem` |
| `E1Npu` | `e1_npu.sv` |
| `NpuSystem` | the NPU on its read port, with the properties of commands and of the ring |
| `SocSystem` | `e1_soc_top.sv`: DMA, NPU and software on one memory array |
| `E1Interconnect` | `e1_axi_lite_interconnect.sv` |
| `InterconnectSystem` | the crossbar between its masters and its slaves |
| `E1Intc` | `e1_interrupt_controller.sv` |
| `IntcSystem` | the controller between the devices' lines and a handler |
| `LinuxSocContract` | `e1_linux_soc_contract.sv`: CPU and DMA share the memory, the CPU programs the DMA |
| `E1CpuBridge` | `e1_cpu_axi_bridge.sv` |
| `BridgeSystem` | the bridge between an AXI4 master and the crossbar with a memory |
| `E1Uart` | `e1_uart.sv` |
| `UartSystem` | the UART in loopback with the software that uses it |
| `NpuRuntime` | `e1_npu_runtime.py` on an NPU that answers late |
| `NpuDriver` | `e1-npu.c` with several callers, on the same NPU |
| `ChipyardSmoke` | the Linux smoke: wrapper, simulators, gate, repairs |
| `CpuApEvidence` | generator, import manifest, transcripts and gates of the CPU/AP |
| `CocotbEvidence` | cocotb jobs, their locks, archive and manifest |
| `PdSignoff` | OpenLane runs, the archiver, the PD gates |
| `OpenLaneLaunch` | the launchers of OpenLane and their lock |
| `ReleaseEvidence` | board and manufacturing release |
| `MvpSimulator` | the simulator aggregate and its three readers |
| `MvpStatus` | the status table and the pipeline |
| `BspEvidence` | logs of the board support, their programs and gates |
| `MCDmaSystem`, `MCNpuSystem`, `MCSocSystem`, `MCContract` | small values of the constants of one system |
| `MCFabric` | crossbar or bridge, one per behaviour |
| `MCDevices` | UART or interrupt controller, one per behaviour |
| `MCCapture` | smoke or cocotb, one per behaviour |
| `MCEvidence` | one of nine chains of evidence and software per behaviour |
| `NpuProofs`, `E1NpuProofs` | theorems about `NpuSystem`; the lemmas about `E1Npu` they share with the next |
| `SocProofs` | theorems about `SocSystem` |
| `ContractProofs` | theorems about `LinuxSocContract` |
| `DevicesProofs` | theorems about `IntcSystem` and `UartSystem`, the properties of `MCDevices` |
| `FabricProofs` | theorems about `InterconnectSystem`, and about `BridgeSystem` in `MCFabric` |
| `EvidenceProofs` | theorems about `OpenLaneLaunch`, `ReleaseEvidence`, `PdSignoff`, `MvpSimulator`, `CpuApEvidence`, `MvpStatus`, `BspEvidence`, `NpuRuntime`, `NpuDriver`, `ChipyardSmoke`, `CocotbEvidence`, and the properties of `MCEvidence` and `MCCapture` |

`MCFabric`, `MCDevices`, `MCCapture` and `MCEvidence` put systems that share nothing side by side: the first state
chooses one (`block`, `capture`, `unit`) and the variables of the others keep one
value. That is a union of their behaviours, not a composition. What does interact
is composed: engines and memory, masters and crossbar, CPU and DMA on one port,
several callers on one NPU, wrapper and gate on one log.

`CopyJob` is implemented three times, checked and proved: by `DmaSystem`, and by
`SocSystem` and `LinuxSocContract`, where the memory has other users.

### DMA

The actions of `E1Dma` are the branches of the `always_ff` block: `Start`,
`AwaitRead`, `TakeRead`, `IssueWrite`, `AwaitResponse`, `WriteFault`, `NextBeat`,
`LastBeat`, `Finish`, `Idle`. Every edge also performs the register write `w`
(`Configure`) and the clear of `done` and `error`, which an engine's own
assignment on the same edge overrides. A word is a function from byte lanes to
bytes, and memory initially holds each byte's own address, so any byte that ends
in a wrong place is seen. `cfg`, `last_src`, `last_dst`, `last_wstrb`, the two
pulse bits of `status` and `beats_issued` (assigned exactly as `write_beats` is)
influence nothing and are left out. The FSM's `default` branch is unreachable
(`TypeOK`).

The addresses of the model are relative to the memory's base, as the wrapper
makes them. The wrapper's gating is an arbitrary set of open channels per edge,
a superset of what its owner locks do, since the model lets each channel open
alone. The CPU's own writes to memory are not in `DmaSystem`: `FreshWord` and
`ImplementsCopyJob` say what the engine does to a memory nobody else changes.

### NPU

`E1Npu` has one action per branch of the register start (`StartScalar`,
`StartGemm`, `RejectStart`, `RefuseRing`, `StartRing`), of the free-running
engines (`FinishCommand`, `FaultCommand`, `RunCommand`) and of the descriptor FSM
(`OfferAddress`, `AwaitData`, `TakeWord`, `TakeStream`, `ReadFault`, `Refuse`,
`BeginStream`, `Launch`, `Await`, `Advance`, `TimeOut`). MMIO writes come last in
the block and win over the engines: `Report`, `RingReport` and `Tail` build that in.

A memory word is its own address; `Control` and `Source` say what the descriptor
engine reads in it. Hence the model tells from which slot each word of a
descriptor came. The three operand registers are one value and a result is the
pair of opcode and operands. GEMM indices, shapes, bases and strides are numbers
and go through the code's address arithmetic. Left out: the arithmetic itself,
the scratchpad's contents, the performance counters.

`NpuSystem` puts it on a read slave with one request outstanding. `e1_soc_top`
answers on the next edge; the model lets the slave refuse or delay as long as it
likes (`Fabric` gives the sets of channels an edge may let through), which is
where timeouts and late answers come from. History variables record where a run
began, what it retired, whether software rewrote `DESC_TAIL` or `DESC_BASE`, and
whether the last sweep was stopped midway (`stopped`): only then may the start
check, which reads the indices the sweep left, refuse a GEMM that fits
(`GoodGemmStarts`).

### The system top

`SocSystem` instantiates `E1Dma` and `E1Npu` on the response registers and the
array of `e1_soc_top`. Each engine's read address is accepted only while the
other offers none, so two that come together wait for each other until the NPU's
timeout. One edge carries at most one MMIO access: to the DMA, to the NPU, or a
word stored to memory. The window is the array; the `E1_PD_SMALL_DRAM` build, in
which 64 words alias, is not modelled. Descriptors are ordinary words here: the
DMA and the stores write them while the ring reads them, and the mapping to
`CopyJob` leaves out the words that software stores to, which no transfer may touch
(`ApartFromTransfers`).

### Interconnect

`E1Interconnect` holds, per master, the pipeline registers of the two request
channels, the write halves that came alone, the queues of answers owed with their
counters, the watchdog and the debug registers. Several assignments to one
register in a block are composed in the code's order, so what a later one
overrides is lost in the model as it is in the code. Addresses are the slave they
decode to and a tag, which tells two requests apart.

`InterconnectSystem` gives it masters that keep to AXI-Lite and slaves with one
request of each kind. `Environments` is a set of surroundings, one of which is
chosen for a behaviour and kept: who asks for what, how many requests a master has
under way, which slaves never answer, and whether the others are known to answer
within a number of edges. `apart` says that no request of a master enters the queue
on the edge where an answer leaves it; with one request under way that is no
restriction. The run `ic_pipelined` shows what happens otherwise. `clk` changes on every
edge, so that "the clock runs" can be said of a state in which nothing else moves.

### Interrupt controller

`E1Intc` is the register file with its split writes. In `IntcSystem` a device
holds its line until it is served, or pulses it (`Pulsed`), and a handler enables,
claims, serves and completes in one bus operation at a time, with any number of
edges between them. It enables the sources with the two halves of the write
together or in either order.

### The shared memory port

`LinuxSocContract` has the owner locks of the memory port and the DMA's register
port, in which one address and one valid serve both directions. The CPU side is
what the crossbar's pipeline shows: one read and one write at a time, a write's
halves together. `shared` records that a register read was accepted beside a
write's address; such a read answers for the write's register.

### Bridge

`E1CpuBridge` splits bursts of double words into words. Read and write paths share
no register, so a behaviour uses one of them (`Uses`). Most CPUs offer a write
address with its first beat or after it. One offers the address first: the bridge
takes it and forgets it, and `LoneForgotten` says that nothing is written and
nothing answered for it. A master with several writes under way is not modelled.
The fabric is the crossbar: it takes a write's halves together and shows a word on
`rdata` only while it answers.

### UART

`UartSystem` wires `tx` to `rx`, so the receiver has the sender's speed exactly.
Software puts, gets and reads `STATUS` at any edge. A put on the edge on which the
sender takes a byte, or a get on the edge on which the receiver pushes one, sets
the count twice and the later assignment wins: `tx_met` and `rx_met` count these
meetings. The order of a queue is claimed until the first one, and `OneByteEach`
says what each costs. `ShiftedOnceTooOften` follows the bits: in `RX_STOP` the shift
register holds exactly the byte that was sent, and what is pushed is that byte shifted
once more, with the stop bit in front and bit 0 gone. Software is one of two kinds (`Softwares`): *steady*, which
meets, and *restless*, which changes `BAUD_DIV` or `UART_EN` while bytes are on
the line. From such a change until both sides rest the line is `garbled`, and
nothing is claimed of the bytes in it; everything is claimed of those after it.
`BAUD_DIV` set back to 0, which makes the receiver count from 2^32 - 1, is left
out. No top level of the repository instantiates this block.

### Conventions of the evidence modules

These model scripts. One step is one command of a script, or one group of commands
between which nothing another program does can matter; what a script knows at that
point is its record (`job`, `launch`, `intk`, `sim`, ...). Programs interleave at
will, two runs of one program where nothing keeps them apart, and SIGKILL may end
one between any two steps: what it has written stays. The abstractions are:

* a *content* is a number, fresh for every write, so a SHA-256 is the number of what
  it was taken of, and 0 is no file;
* a *file* whose words are searched is what the gates can tell of it: the boot level
  of a transcript (0 nothing to 5 userland), the set of tests a log passes, a
  report that is clean, dirty, silent or small;
* fixed texts the gates ask for (claim boundaries, policies, section names) are one
  attribute per text or group;
* what people and other programs may do to the files is an action too (edits,
  deliveries, regenerations), bounded in number;
* gates that only read are operators on the state: what they would answer now. A
  gate that reads more than once, or that calls other gates, is a process.

### Runtime and driver

`NpuRuntime` has one action per register access of a call: the sequence is a table
per kind of call, and the NPU (`engine`, `status`) ends a command at any time or
never. A value is the call it belongs to, so a result computed with another call's
operands shows. `answer.late` says an earlier call gave up while its command ran,
`answer.again` that a GEMM started the ring again. `run(opcode)` lets every opcode of
four bits through, so a scalar call runs an opcode it knows, the GEMM's or one the NPU
does not know (`Opcodes`): the last never returns, and the GEMM's starts the last GEMM
again and returns the `RESULT` of another call, or is rejected where nothing was
configured. `ChecksSuffice` compares the
argument checks with the address arithmetic of the NPU, over all shapes and stream
descriptors the run lists. `NpuDriver` reuses the NPU with callers that take the
mutex for the whole ioctl (`scalar`, `gemm`) or do not take it (`ring`), poll a bounded number of
times and read whatever is there; `returned.met` says a submission was inside at the
same time. Not modelled: the arithmetic, sub-word packing, performance counters.

### Linux smoke and cocotb

`ChipyardSmoke` has the wrapper (`Wrapper`: header, make, run under the timeout,
clean and retry, trailer, archive), simulators that may outlive their timeout and
keep the log open, the gate in three steps (metadata, tree, text) and the repairs.
`HandToGate` is the wrapper's last command, which runs the gate; the model runs one
gate at a time.

`CocotbEvidence` has the commands of `run_cocotb.sh` per job with its two lock
directories, the trap of SIGTERM (after which the script goes on) and SIGKILL, the
steps of the checker (hash, archive, read, write manifest) and the readers. `excuse`
records which accident happened; one is allowed per behaviour.

### CPU/AP evidence

`CpuApEvidence`: the generator's imports one by one, the intake's transcripts one by
one, `RecordHashes` of the operator, `EditManifest` and `EditClaim` for the
documents the gates ask. The completion gate is a process with two halves and
`gate.raced` says whether somebody wrote between them; the other gates are operators.

The two preflights look at different submodules (`Scopes`): `generators/rocket-chip`
(both), what is below it (`git submodule status --recursive`, the Verilator preflight)
and eight other roots (the import preflight, which overlooks a merge conflict). A
generator that is killed in a write leaves the file cut (`ArtifactCut`,
`ManifestCut`), and the gates ask for different amounts of it: there at all, not
empty, so many bytes, or a word that stands at its end. `size` keeps these four apart
(`Sizes`); a directory is `empty` when there is no file in it. Which of them a cut may
leave of which file is a constant (`Remains`), and so is what may become of the
submodules (`Upsets`). A device tree that names all its tokens is taken to be longer
than the 512 bytes that one gate asks for; a manifest that is cut is no JSON.

### Physical design and releases

`PdSignoff`: a flow advances or rewrites a run; the archiver clears, judges, copies
class by class, writes summary, sums and report; five gates choose a run in five
ways (first complete, newest, any, ...). `OpenLaneLaunch`: every shell command on the
lock directory is a step. SIGKILL ends a launcher anywhere; INT and TERM do before the
trap is set, and afterwards run the cleanup, which removes the lock and the container
it names, whereupon the script goes on (`TrapRuns`, `trapped`).

`ReleaseEvidence`: the board gate is an operator on one manifest, the manufacturing
gate a process on four others that reads twice. The expressions of an artifact find any
set of files (`Globs`), which may be those of another artifact too. The board gate's
records are per item and file: a record must name a file it may name (`Nameable`), and
only the files recorded are compared with their digests, while the resolved manifest
lists every file found. So a file that is found and that no record names may be
delivered again without a word from the board gate.

### Aggregate, table, board support

`MvpSimulator` goes through the table of thirteen commands for each of two runs that
share log, temporary file and report. `MvpStatus` computes each row from what it
finds; a pipeline is a sequence of readings, `SeenFrom(r)` says that all from `r`
on saw the files as they are now. `BspEvidence` has the capture stage by stage, the
intake log by log (killed in a copy it leaves a log cut short) and the gates as
operators; `stands` forgets a success when anybody else writes.

## Runs

| Run | Asks | Bounds |
|---|---|---|
| `dma_copy` | accounting, the word in flight with its bus bookkeeping, completion and request stability, that the whole implements `CopyJob`, and that every transfer ends | two words of memory in a space of three, so a word faults and the cursor wraps; aligned, misaligned and undecoded addresses; lengths 0, 3, 5 (empty, partial beat, two beats); two jobs |
| `npu_busy` | commands and ring runs under software that does not wait: all registers rewritten at any moment | a scratchpad of 8 bytes; a GEMM that fits, that fits only at its first product, that never fits; scalars; a ring of two, timeout after 10 edges |
| `npu_ring` | the ring under software that waits for a run to end; delays, withheld channels, refusals, faults, timeouts, restarts; every command ends | eight descriptors of two words: scalar, streamed GEMM, a stream that runs past memory, one of each refusal, a slow scalar; timeout after 14 edges |
| `soc` | both engines and software on one memory: whose answer, how long they block each other, `CopyJob` | six words (a seventh would fault, which no transfer of the run comes to and the theorem covers); a scratchpad of four bytes; a ring of two, one descriptor rewritten by the DMA and one by a store; timeout after 12 edges |
| `contract` | owners and answers agree, nothing is forgotten, the copy is exact, all accesses and transfers end | four words and one that faults; one job of two words; the CPU reads the faulting word, stores to a word the DMA does not use, and writes, clears, restarts and polls the DMA |
| `fabric` | crossbar: answers right, none lost, the watchdog only when late, nobody starved; bridge: beats of their burst, writes whole, faults told, bursts end, a lone address forgotten | two masters with a read or a write each, one at the crossbar's own registers, one with three reads against a queue of two, and a DRAM that never answers under a limit of two edges; three double words, reads of one to three beats, writes of one or two with every strobe, one word that faults |
| `devices` | UART: order of both queues, the cost of a meeting, the line, overruns, every byte heard; controller: claims real, pending falls to its completion only, every event served | bytes of two bits, queues of two, a period of 3 edges, the shortest that works, one meeting; or two changes of speed between 3 and 4; three sources, one pulsed, two events of each |
| `captures` | smoke: a pass is earned, the repair converges; cocotb: accepted results are what they say; wrappers and jobs end | two attempts of a wrapper; simulators that stop at handoff or reach userland; three jobs, two at a time, two targets; two revisions of the sources |
| `evidence` | `CpuGatesAgree`, `NeverConsistent`, `CpuPassIsRaced`; `PdEvidenceAgrees`, `PdVerdictKept`; `LaunchersExclude`; `AcceptanceIsCurrent`; `AggregateHonest`; `TableHonest`; `BspHonest`; `RuntimeHonest`, one chain per behaviour | five writes, whole or cut, one transcript, two kinds of merge conflict; two run directories, two classes, two edits; three launchers; an item and a listing that find the same two files, four contents; two aggregates, two logs; two regenerations of a component; two logs and one change by others; three calls with two polls; two ioctls of two callers with two polls |
| `ic_pipelined` | two reads under way, an answer leaving as a request enters (**violated**) | one master, a queue of two |
| `bridge_halves` | the high half of a read (**violated**) | reads of `fabric` |
| `uart_received` | the byte received is the byte sent (**violated**) | as `devices` |

The constants shrink the code's numbers and not its cases: every FSM transition,
refusal and fault is taken, each timeout can strike in every state of the ring,
and a run can succeed within the limit with delays to spare. `RingSize` is 8 in
the code too (2 in `npu_busy` and `soc`, so that it wraps soon), `DescWords` is 4
there, `ScratchBytes` 64, `TimeoutLimit` 128, the crossbar's `WdLimit` 1024 and
`MaxOutst` 4, the UART's `FifoDepth` 16 and `Bits` 8. Jobs and events are
bounded (`MaxJobs`, `MaxEvents`, `meets` and `changes` of `Softwares`): two jobs in
`dma_copy`, because what a second one can inherit from the first is in the registers
and a third inherits nothing else, and one in `contract`, which is about who shares
the memory with it; two events, so that one can come while the last is being served.
`Patience` bounds ages, which nothing but `TimeoutOnlyLate` reads. Values that a
device never compares (bytes, tags, identifiers) are as few as tell apart what a
property must. In `dma_copy`, `contract` and `soc` bytes carry their address,
so that one in a wrong place shows.

In the evidence modules a bound counts accidents and edits, not steps. Two runs of
one program are enough for a race on a file, since a step reads or writes one file;
three launchers, so that one can steal the lock the second one left while the third
makes it. Four contents and edits tell old, recorded, judged and newer apart; `MaxClock`
is 5 because one generation with its manifest and one transcript takes four. The head
of the release manifests is the one that passes, since with another the gates refuse
whatever is delivered, and no file there is a placeholder; the proofs are for all. Likewise the
checkout is clean at first and only merge conflicts come in, the one thing in which the
preflights' scopes and their readings both differ. Two ioctls
are enough for two callers at once; what earlier calls leave in the NPU's registers is
the business of the three calls of `NpuRuntime`. Shapes of
manifests and files in `MCEvidence` are otherwise one that is right and one per way of
being wrong that a gate tests.

**Fairness.** `dma_copy`: the clock runs, and each channel is, if always wanted,
eventually let through (weak fairness per channel): the owner locks are released by
the response of the access that took them, and `contract` shows, with the locks
themselves, that this is so. `npu_ring`, and the UART in `devices`: the clock runs,
no more; the memory may never answer the NPU. The controller in `devices`: the clock
runs, and the handler gets on. `contract`: the clock runs, and the CPU takes the
answers it is shown. `fabric`: the clock runs; the crossbar's slaves answer within a
stated number of edges and masters take answers within it; for the bridge, again and
again there is an edge on which nobody makes anybody wait (the crossbar's watchdog
answers every access), in between everyone stalls at will. `captures`: the wrapper
and the gate are processes the system schedules (weak fairness); a wrapper
that succeeded starts its gate although other calls of the gate, one at a time in
the model, keep getting before it (strong fairness, `HandToGate`); each cocotb job runs on while it can (`Work(j)`); and
the timeout ends a simulator, which the code enforces with a kill. The other runs check
safety only.

`CHECK_DEADLOCK` is on for hardware: a clock always has a next edge. It is off in
`captures` and `evidence`: the programs end, and so do the
bounded histories around them.

## What the runs found

* `ic_pipelined`: when a request enters the queue of answers on the edge on which
  an answer leaves it, the decrement (`e1_axi_lite_interconnect.sv:715`) overrides
  the increment (674). The last answer is never offered, though the header promises
  four requests in flight. A master with one request under way is safe.
* `bridge_halves`: `RD_RETURN` drives the fabric's present `rdata`
  (`e1_cpu_axi_bridge.sv:228`, "latched hi | lo"), and nothing latches the high
  half: bits 63:32 of every read through the crossbar are zero.
* `uart_received`: `RX_DATA` has shifted all eight bits in (`e1_uart.sv:228`) when
  `RX_STOP` pushes `{rx_sync1, rx_shift[7:1]}` (241). Every byte received has lost bit 0
  and has the stop bit for bit 7, though the header says "8N1" and "read -> dequeue RX
  byte" (3, 9). `BytesAccountedFor` states exactly this of the bits, and order and number
  as they should be.

The run `evidence` shows, and `RecordingAlwaysUnbinds` proves, that the documented
procedure of the CPU/AP evidence cannot succeed: `docs/evidence/cpu/README.md:94-96` asks
to copy the printed hashes into the import manifest once all captures pass and to rerun
the checks. Every transcript is bound to the hash of that manifest
(`cpu_ap_evidence_lib.py:401`), which the copying changes, so the evidence gate refuses
all of them (`RecordingUnbinds`).

Read in the code while modelling, and built into the models, without runs of their
own:

* NPU. A GEMM descriptor that leaves the scratchpad midway sets `done|error` while
  the ring waits on until its timeout, and a start written meanwhile is ignored
  (`e1_npu.sv:311`): `StatusHonest` names the case. The error index names the last
  retired descriptor and not a later one that faults (474). After a fault in
  mid-sweep the start check reads stale indices, and may refuse a GEMM that fits
  (560): `GoodGemmStarts`.
* System top. A read may be held up longer than the 64 edges that
  `verify/properties/dma_axil_bind.sv:40` allows (`e1_soc_top.sv:182`):
  `DmaDelayBounded` gives the bound that holds, the NPU's timeout.
* Interrupt controller. A pulse on the edge of its source's completion is lost
  (`e1_interrupt_controller.sv:112`); a line that is held is latched again.
* Contract. The DMA's interrupt is wired to source 1
  (`e1_linux_soc_contract.sv:367`), while `docs/arch/interrupts.md` gives it 2. A
  register read beside a register write answers for the write's register (288).
* Crossbar. The count of the watchdog overrides its reset by an answer (735), so
  traffic that never drains a queue fires it early; once fired it stays at its limit
  until the queue is empty (733), and the next answer takes its status flag back
  (717). A read of a debug register is answered for the address taken last
  (`rd_dbg_laddr`, 551 and 663), which with several reads under way may be another's:
  `KeptApart`. An unmapped address is answered SLVERR (546) where
  `docs/arch/interconnect.md:12` says DECERR.
* Bridge. An address that comes alone is taken and forgotten (306), and its burst
  never starts; burst types are ignored (153).
* UART. A put or a get that meets the other end of its queue miscounts (292, 318);
  with a period of two the start bit is sampled in the bit after it (209).
* Runtime and driver. `gemm_s8` does not write `CMD_PARAM`
  (`e1_npu_runtime.py:405`), so after a ring its start runs the ring again
  (`GemmIsRun` states the docstring, and does not hold). `submit_descriptors` takes
  no mutex (`e1-npu.c:197`). The scalar ioctl lets the GEMM's opcode through and
  returns `RESULT`, which no GEMM writes, and so does `run(8, ...)` of the runtime, whose
  opcode nothing checks (`e1_npu_runtime.py:217-226`, `OwnResult`).
* Launcher. On INT and TERM the trap removes lock and container, and the script goes on
  (`run_openlane.sh:110`). A launcher signalled before its flow starts then starts it
  without a lock; on PATH, where no container shows it, the next launcher starts a second
  flow beside it. So does one in containers where launchers are both signalled and
  killed. `OneFlowAtATime` names both.
* Releases. A file that an item's expressions find and no record names is in no digest
  of the board gate (`check_board_package_evidence.py:519-577`): `TakenBack` is about the
  recorded ones.
* Smoke. A complete, successful generated tree is always blocked as partial output
  (`check_chipyard_verilator_linux_smoke.py:157-163`, `CompleteTreePasses`), and the
  repair deletes it. The log of an attempt that has just begun can be archived away
  by a repair that looked at the lock before (706-709, `RunningLogKept`).
* CPU/AP. No files pass both halves of the completion gate (`NeverConsistent`): the
  hashes would have to name each other. A simulator the generated gate accepts may be
  of older sources than the rest (`SimulatorOfSources`). The import preflight overlooks a
  submodule in a merge conflict (`check_chipyard_import_preflight.py:216`), so outside
  `generators/rocket-chip` one passes both preflights; and an import manifest cut short
  passes the Linux contract, which asks only that it is there
  (`check_chipyard_generated_linux_contract.py:157`), while the payload path is blocked
  for its size (`check_chipyard_payload_path.py:78`): `GatesAgree` says both.
* Aggregate. The strict check of the minimum target never passes: its benchmark gate
  is the constant `blocked` (`check_minimum_linux_npu_target.py:206`), also where the
  aggregate claims Linux and the NPU workload together (last conjunct of
  `ReadersAgree`).

The operators in parentheses that no run checks state what the code or its
documents promise; they are kept beside the model as a statement of the gap.

## Proofs

Every theorem is about the same `Init`, `Next` and properties as the runs check, for
all values of the constants that the named assumptions allow; TLC evaluates the
assumptions on every run. The pattern is always one: the property is not inductive,
a stronger invariant is (each part named for what it adds), and the proof of a step
has one step per action. Where a clock edge has many branches at once (`E1Npu`,
`SocSystem`, `MvpSimulator`), the actions are first summed up in what they do to a few
registers (`...Moves`), and the invariants are proved of these sums.

**`DmaProofs`**, for every address space, memory size, set of programmed values
and number of jobs: `TypeOK`, `Accounting` and `WordInFlight` (`ResponsesMatch`
and `FreshWord`) hold and no step breaks `NothingDropped`. The inductive
invariant `IInv` is the conjunction of the first four with `StatusCoherent`: none is
inductive alone. Accounting needs the FSM to agree with
the busy bit and the bus bookkeeping to know that a response ends the beat it
belongs to; freshness needs the bookkeeping to know that no write can be performed
between a read and its own write. Each action of the clock is one step of the
proof. `DmaProofs` also proves that `DmaSystem` implements `CopyJob` under the
mapping that counts a beat as copied when memory performs its write, before the
engine takes the response. Assumptions: `BusAssumption`, `DmaAssumption`,
`SystemAssumption`.

**`NpuProofs`** (with `E1NpuProofs`), for every ring, scratchpad, memory, timeout and
environment of the read port: `InputsHold`, `RingHonest`, `SuccessDrains`, and
`CompletionSeen` where all software is polite. `NpuInv` is: the status bits and the
scalar FSM agree (`StatusInv`); what a running command latched is what `CMD_PARAM` and
the operands held at its start (`CommandLatched`); the sweep's indices and its
addresses belong together, in row-major order (`SweepInv`); the stream registers are
inside what the descriptor asks (`StreamInv`); the words fetched so far are the words
of the present slot, and an answer to a read given up is told from the one awaited
(`FetchInv`); tail, retired count and error index account for each other
(`AccountInv`). `CompletionSeen` is not true of software that clears `done` while a
command runs, so it has its hypothesis in the theorem, and the environments of
`npu_ring` satisfy it. Assumption: `NpuAssumption`, with `Fits`: an operand sweep
that `ParamsGood` lets through stays in the address arithmetic's range. It is there
because `dst` of an arbitrary set of commands need not be a number.

**`SocProofs`**, for every memory, ring, timeout and scratchpad of `SocAssumption` and
`TimeoutAssumption`: `PortsServed`, `TimeoutOnlyContended` and `ImplementsCopyJob`. The hard fact is that no
read address is accepted on the very edge on which the descriptor times out, which
would leave an answer that nobody takes. `ClockInv` shows it by counting: the timer
is at most three edges per word fetched or streamed plus the engine's own time, unless
both engines hold each other's address up, and then the address is not accepted
(`StallInv`). A descriptor that was never held up needs two edges per word and at most
63 products (`FreeClock`, `TileInv`, `UncontendedInv`), so it ends before the limit.
`TimeoutAssumption` is the inequality this comes to: with the RTL's ring of
four-word descriptors, 64 bytes of scratchpad and 128 edges it holds with room
(210 < 256, 240 <= 512). It is no formality: a timeout shorter than it makes
`PortsMatch` false. For `CopyJob`, `JobInv`: a running transfer stands where its job has
got to (`JobPlace`), and the word on its way, in its register or still in the response,
is what memory holds at the source (`JobWords`). It stays so until it lands, because
only the transfer writes the words of a transfer: that is `ApartFromTransfers`, a
hypothesis on software that both systems name in their assumptions.

**`ContractProofs`**: `OwnersAgree` and `ImplementsCopyJob`, for every set of accesses of
the CPU and every programming of the DMA. `ContractInv` adds the types (`Bits`, `CpuAccesses`) and two
facts the owners lean on: the engine's writes are taken whole and it remembers a read's
address only while it waits (`EngineAgrees`), and the memory never answers one write
while it holds another (`OneWrite`). The refinement is the one of `SocProofs` with
partial beats and with a memory that performs a write an edge after taking it: the
word on its way is fresh in the lanes that are enabled, and the beat counts as copied
on the edge on which the memory performs it, which `OwnersAgree` shows to be the
transfer's own write. An edge is first summed up in what it does to the transfer
(`TransferMoves`) and to memory (`Answers`).

**`DevicesProofs`**: `ClaimIsReal` and `OnlyCompletionClears`, for any number of sources,
pulsed or held, and of events. `IntcInv`: what is on the bus and in the capture
registers is the operation the handler is at (`BusFollows`), a pending bit is of a
source that is pulsed or whose line is up, but for the one just being completed
(`PendingIsUp`), and so is a claim shown or being served (`ClaimsAreUp`). And
`BytesAccountedFor` of the UART, for queues of any depth, bytes of any width and every
period of three edges or more. `QueueInv`: what a queue holds lies from its read to its
write pointer modulo the depth, displaced by the meetings. `LineInv`: unless the line is
garbled it is quiet, or one frame is on it, and the sender's slot and phase in the frame
give `tx` and the two samplers (`Wires`), while the receiver lags behind by the samplers
and half a period (`Lag`, `Delay`), in whatever state it is (`Waits`, `Starts`,
`Gathers`, `Stops`, `Ended`). Hence it samples every bit within that bit.

**`FabricProofs`**: `RightAnswer` and `NothingLost` of the crossbar, for any number of
masters, queues of any depth, every limit of the watchdog and slaves that answer at any
time or never, in all environments that are `KeptApart` (the run's are, which TLC
evaluates). Reads and writes go the same way, so there is one invariant for both
(`Channel`): a queue's pointers and count agree modulo its depth (`QueueTypes`); its
k-th entry is the port of the k-th request under way, or the watchdog's error in the
first place; at a slave, that slave holds this very request, and no other entry of any
queue waits for it (`Honest`); what is in the pipeline stage comes next (`Behind`).
`QueueStep` shows that an edge of a queue pushes, pops or keeps, for every depth, and
`ChannelStep` that a channel goes on as it should. For the halves of a write to meet,
both are counted from the tag of the oldest write under way (`Tagged`), what is held
alone came last (`HeldIsLast`), and so what is joined is of one write (`HalvesMeet`).
`DebugRead` is why `KeptApart` keeps several reads away from the debug registers.
`ShortTimeoutOnlyLate`, for every `ShortLimit`: an invariant of the queue, its watchdog
and the age of the one request it may hold (`Waiting`). The watchdog starts when the
request enters the queue, after it was taken, and counts as the age does, so it never
runs longer than the request has waited. That is false of several requests under way,
since the watchdog counts on from one to the next; hence `TimesKnown` (a master has one
under way where a slave may be dead; elsewhere the time of an answer is known, and then
no watchdog runs out at all), which the run's environments satisfy. `ShortAlike` lets the
two crossbars of the run share the lemmas.
And `BurstsWhole` of the bridge, for a memory of any size, bursts of any length, any
words that fail, and a fabric and a CPU that stall at will. `ReadBurstInv`: what the
fabric has answered for this beat is what has been latched of it. `WriteBurstInv`: the
memory that is wanted is the memory with the halves still to write laid over it
(`Overlaid`), the fabric holds the half whose answer is awaited (`Sends`), and a fault
is latched or still to come (`BeatUnderWay`).

**`EvidenceProofs`**, for any number of runs, files and writes:

* `OneFlow` (`OneFlowAtATime`). `LaunchInv`, while no two launchers started together:
  one at most is starting (`OneStarts`). While none was signalled after its trap
  (`Unsignalled`): the holder is named in the lock (`HolderIsNamed`), nobody comes past a
  live holder (`NobodyIsPassed`), and who is about to start a container saw none
  (`SeenNoContainer`). While instead none was killed (`Unkilled`), however often they are
  signalled: a lock is of a live launcher (`LockIsLive`), so there is never one to steal
  (`NothingToSteal`), and the container that runs is the one the lock names, which the
  cleanup removes with it (`ContainerIsNamed`). And always: a native flow has its
  launcher (`FlowOfNative`), and a lock is of one that is alive or was killed
  (`LockHasOwner`).
* `AcceptanceOfContents` (`AcceptedIsCurrent`), for any files, expressions, placeholders
  and reports. A delivery changes the one file it is of (`FilesMove`), whose record no
  longer agrees (`DeliveryTakesBack`). The manufacturing gate reads twice;
  `ValidatedHolds` says what it still knows between its readings, and
  `InventoryIsPast` that what a resolved manifest lists is never newer than the file.
* `VerifiedArchivesAreReady`. `ArchiveInv`: unless something was written in between,
  the archiver's judgement of a class still stands when it is copied
  (`JudgementStands`), so each copy is what was judged (`CopyIsJudged`), a summary that
  says ready is of good copies (`SummaryIsOfCopies`), and so are the checksums
  (`SumsAreOfReady`), wherever archivers were killed.
* `ClaimsAreBacked` (`OneTranscript`, `ReadersAgree`). `SimInv`: a run's smoke passed on
  the log that is there, or the other run has written it since (`RunBacked`), and the
  same holds of the two report files that two runs write in turn (`Stands`).
* CPU/AP: `CpuApTypeOK` and `NeverConsistent` hold, every PASS
  of the completion gate is raced (`PassIsRaced`), what the generated gate
  accepts is of one generation while nobody copied hashes by hand (`OneGeneration`),
  the gates agree (`GatesAgree`, for which only the types are needed, so that `size`
  has no other values), and a recording makes the evidence gate refuse
  (`RecordingUnbinds`).
  Contents are fresh numbers, so a hash names its content's number. `NeverConsistent`
  needs `WrittenAfter`: a hash the manifest holds is of a content older than the
  manifest, and so is the manifest a transcript is bound to older than the transcript;
  both at once is a cycle. `PassIsRaced` needs that the gate, once its first half
  passed, still has it holding unless something was written (`FirstHalfHolds`).
  `OneGeneration` needs that what the manifest lists was imported together
  (`ImportedTogether`), across a generator that is killed between any two imports or
  in one: a cut file is a content of its own, which no manifest lists but by hand. `RecordingUnbinds`
  follows from the types: no transcript is bound to a manifest still to be written.
* `PassHasEvidence` (`EvidenceBehindPass`): each reading that the pipeline made since
  the files last changed would still be accepted (`AcceptedSince`).
* `SuccessAlwaysStands` (`SuccessStands`): what an intake has validated so far
  (`ValidatedSoFar`), what a capture checked before it reports (`CheckedBefore`), and
  what both leave behind (`IntakeStands`, `ReportStands`).
* `CallsReturnTheirOwn` (`OwnResult`): a call is *on track* at each of its register
  accesses (`CallOnTrack`): before its start the NPU rests and holds what the call has
  written (`Programmed`), after it the command running, or the result left, is its own
  (`Started`); a call that found a late command or a ring's mode, and a `run()` of an
  opcode that is no scalar one, is excused by name.
* `ChecksAreEnough` (`ChecksSuffice`): a product of the sweep stays below what the
  runtime's check multiplied out, for all shapes, bases and strides.
* `IoctlsReturnTheirOwn` (`OwnIoctl`), for any number of callers: every ioctl is a
  number of its own, none of which the NPU has seen before (`Numbered`,
  `NotYetWritten`), the mutex is its holder's (`Locking`), two that are inside at once,
  one with a ring, know of each other (`Meeting`), and the rest are on track
  (`AllOnTrack`).
* `SmokeRepairsConverge` and `SmokePassesAreEarned`. `SmokeInv`: what a simulator prints
  stands under a header, because a file that an append made is no simulator's
  (`PrintedUnderHeader`) and a wrapper at work has a header left for each attempt
  (`HeadersLeft`); what the gate still knows of its first look (`LookedOnce`); and after
  one repair no path of the container is left (`RepairedOnce`).
* `CocotbEvidenceIsTrue`. `CocotbInv`: unless a job was terminated, one at most is between
  the locks (`OneInSection`) and each file is of its target (`FilesInPlace`); unless a
  round began in the middle of a job, what is saved and archived is fresh
  (`FilesAreFresh`); and while nothing happened the manifest describes the archive
  (`ManifestInStep`). Between archiving a file and entering it the manifest must not
  match yet, which takes the numbers of the jobs (`JobsNumbered`, `FileNumbers`).
* `UnitInvariant`: each chain of `MCEvidence` keeps its own invariant, from which the
  ten properties that `MCEvidence` states follow, each by a theorem of its own.

What the proofs changed in the model, because it was wrong or said too much:

* `EvidenceBehindPass` claimed too much of a cocotb manifest that is partial and has
  failing results: the table says `partial` of it and not `blocked`
  (`check_mvp_status.py:247-255`). The property now says what the code does, and
  the run's values have that manifest.
* `TimeoutOnlyContended` left out that a descriptor whose GEMM has faulted waits until
  the timeout as well, uncontended but no longer busy, when software clears `done` in
  between. The theorem covers it; the run `soc` does not exercise it.
* `NpuAssumption`, `TimeoutAssumption`, `ControllerAssumption`, `SpeedAssumption` (a
  period is three edges or more: see the UART under *What the runs found*),
  `ApartFromTransfers` and `EnvironmentsTimed` (`TimesKnown`) were tacit. `ShortLimit`,
  the watchdog's limit beside a dead slave, was the number 2 and is now any.
* Conditions tested in an order are nested conditionals in `BspEvidence`,
  `CocotbEvidence`, `CpuApEvidence`, `PdSignoff` and `ChipyardSmoke`; a `CASE` whose arms
  overlap leaves the choice open, which TLC hides.

Only model-checked: liveness under fairness and `ENABLED`, which the prover does
not reason about: every `...End`, `...Ends`, `...Serve` and the fairness of
refinements. Every other property of a passing run has its theorem.

## Plan

1. DMA, memory and their contract — done, proved. 2. NPU and its ring — done, proved;
3. the system top — done, proved; 4. interconnect, 5. interrupt
   controller and owner locks — done, proved; 6. bridge, 7. UART — done, proved;
   8. NPU runtime and Linux driver — done, proved.
9. Evidence: CPU/AP, PD, launcher, releases, aggregate, table, BSP logs, smoke, cocotb
   — done, proved.
10. CLINT of the system top: `mtime` and `mtimecmp` are written and read by halves;
    with the timer code of `sw/opensbi/platform/platform.c`. Timer, lifecycle.
11. Pure functions: GEMM against the matrix product, address decode.

## Not modelled

* The CPU: the stub is a test program in hardware, the CVA6 wrapper ties its bus off.
* Timer and GPIO, display, lifecycle, debug bridge: counters and registers behind one
  port, without a handshake of their own. Their interrupts are lines of `IntcSystem`,
  the debug bridge's writes the register writes of the models.
* Boot ROM (a table), reset synchroniser (reset is only the initial state), chip and
  FPGA tops (wiring), the CLINT and host bus of the system top.
* NPU arithmetic, the contents of its scratchpad, performance counters.
* `check_memory_uma_claim_gate.py`, the plan and document checks: pure functions of
  hundreds of independent tests for words and fields, without state or order.
* The benchmark planner and its parsers: the report they leave is an input of
  `MvpStatus`.
* Boards, documents, and what external tools do inside (OpenLane, Verilator, Chipyard,
  Android, vendors): their outcomes are inputs.
* In the CPU/AP chain, formatting and parsing of manifests; in all gates, the wording
  of messages.
