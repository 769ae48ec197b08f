# DADAO: a TLA+ model of the simrisc processors and of what runs on them

DADAO is a processor project: an instruction set (simrisc), two in-order cores
in Chisel (wuming, one and five stages) for a chipyard SoC, a QEMU target, ports
of binutils, GCC, LLVM and newlib, and the beginnings of a Linux port. This
directory holds a TLA+ model of the cores, the emulator, the libraries' delicate
parts, the assembler, the linker and the compilers' back ends, the TLC runs that
check it and the TLAPS proofs that go with it.

## 1. Inventory

| Part | State | Operations | What is hard | What makes it right |
|---|---|---|---|---|
| Five-stage core, `SOC-chipyard/.../wuming_5stage` | pipeline registers, fetch queue and kill flag, three register banks, return-address file, shadows of destinations in the control path, CSRs | one clock cycle | there is no bypass, so the interlock alone keeps operands fresh; kills meet stalls and misses; CALL and RET act in DEC, before older instructions are done | it retires what a sequential machine executes, and leaves the same state |
| Instruction fetch (part of the core) | fetch pc, one-entry queue, kill flag, bridge state | one clock cycle | answers arrive cycles after the request and after a kill | DEC gets the program, each word once, with its own pc; the queue does not overflow |
| Router and TileLink bridge, `common/scratchpad_adapter.scala`, `master_adapter.scala` | bridge state, latched request | accept, send, answer | an interrupt takes the access away while the bus works on it | the bus sees what was asked; loads see stores; the bridge always gets ready again |
| Scratchpad, `common/memory.scala` | bytes | read and write by three ports | several ports in one cycle | a load returns what was stored, extended as asked |
| One-stage core, `wuming_1stage` | pc, instruction buffer, register banks | one clock cycle | fetch and data miss overlap | the buffered instruction is not overwritten |
| Debug module, `common/debug.scala` | command and bus registers | DMI reads and writes | register read in the cycle it is written | a bus write carries the data just written |
| QEMU return-address stack, `SIM-qemu/.../translate.c` | ra0..ra63, the memory below ra0 | CALL, RET, loads of ra | 63 registers and a memory area are one stack; 0 means two things | one unbounded stack of return addresses |
| QEMU LR/SC, same file | load_res, load_val per processor, memory | lro, sco | sco compares values, not writes | retry loops built from it are atomic on the word they name |
| QEMU instructions, same file and `helper-fpu.c` | registers, memory, status of floating point | loads, stores, block moves, wydes, arithmetic, branches | an instruction is a sequence of operations: a fault or a restart half way, overlapping operands | as a whole it does what the instruction set says; rounding mode and flags survive |
| QEMU MMU and cp0, `softmmu.c`, `helper.c` | page tables, TLB, cp0 | none reachable: the coprocessor instructions translate to illegal instruction, and the port is built for user mode | | |
| QEMU user loop, `linux-user/dadao` | pc, registers | exceptions, system calls | restarted system calls | a call is made once, or again as a whole |
| newlib setjmp, `TCH-newlib-cygwin/.../setjmp.S` | jmp_buf | setjmp, longjmp | the functions use the stack they save | longjmp returns to setjmp's caller with its stack |
| Linux atomics, `ENV-linux/.../asm/atomic.h` | counters | atomic64_* | interleaving of processors; what the operand of the assembly names | atomic on the counter (they are not: LrScCounter), and lock-free |
| Assembler, `TCH-binutils-gdb/.../tc-dadao.c` | frags, symbols, fixups | expand, relax, convert, encode | lengths depend on addresses and addresses on lengths | labels are reached, constants set, the layout settles |
| Linker, `elf64-dadao.c` | section contents, relocations, symbols | sort, relax, relocate | deletions move what other relocations and symbols name | the linked program does what the source says |
| Disassemblers, `dadao-dis.c` in binutils and QEMU | none | search and print | a sign extension for each field width | printed text assembles to the same word |
| LLVM code generation, `TCH-llvm/.../Target/Dadao` | selection graph, frame layout | lower, combine, select, frames, calls | swapped and negated conditions; frames that outgrow an offset | the code computes what C says and keeps the caller's registers |
| LLVM assembler, `AsmParser`, `MCTargetDesc`, `Disassembler` | operands parsed so far | parse, match, encode, decode | several candidates for one mnemonic | agrees with GNU as, reads what it prints |
| GCC port, `TCH-gcc/.../config/dadao` | frame layout | addresses, arguments, prologue, epilogue, branches | shares a calling convention with LLVM, written twice | as for LLVM, in both directions across the two |
| Opcode tables, runtime, tests, makefiles | none at run time | | | |

The core talks to its memories through the router; the bridges of the fetch and
the data side are two copies of one module. QEMU executes the same instruction
set, but gives the return-address stack a spill area that the cores do not have.
newlib's setjmp runs on top of QEMU's stack, the kernel's atomics on top of its
lro and sco. Compilers feed the assemblers, the assemblers the linker, and what
comes out runs on the emulator.

`PROJECT.json` lists every component with its status, and the hazards at their
lines.

## 2. Plan

Done: the return-address stack, setjmp, the five-stage pipeline, the data port,
the fetch path, LR/SC with the kernel's loops; QEMU's other instructions and
system calls; the assembler and linker; encoding in both tool chains; the back
ends of LLVM and GCC and calls between them. Proofs for the return-address stack and
its refinement, setjmp, the data port, the fetch path, LR/SC, the pipeline and QEMU's
other instructions: every safety property of these (section 5).

Next, in this order:

1. `ScratchPad`: bytes, lanes and the three ports; the slave adapter.
2. `Wuming1`: the one-stage core with its instruction buffer.
3. Interrupts in `Wuming5`.
4. The debug module's bus registers.

## 3. The modules

**CallStack** is what the return-address stack promises: an unbounded stack;
CALL may fail, RET never does while there is something to return to.

**QemuRas** is `push_return_address` and `pop_return_address` with the
instructions that use them. `ra` and `rasp` are the registers, `mem` the mapped
words. `CallToRegister`, `CallSpills` and `CallTrips` are the branches of push,
`RetFromRegister`, `RetFromMemory` and `RetTrips` those of pop. The decrement of
`rasp` comes before a store that may fault, as in the generated code. TRIP has no
case in `cpu_loop`, and SIGSEGV ends the program, so both end a behaviour. A RET
that loads from above the area is "wild" and ends it too. Programs place the area
once and do not reload `rasp`.

**SetJmp** adds newlib's two functions: a CALL, one block store or load of
ra1..ra63 and a RET each, in a program that also calls, returns and places `rasp`, so
its steps are all those of QemuRas and the library's. `frame`, `sj_rasp` and `live` are
history.

**Wuming5** is the five-stage core. One step is one clock cycle, composed of one
definition for each stage (`Fetch`, `Decode`, `Execute`, `ReturnAddressFile`,
`Memory`, `CsrFile`, `WriteBack`) and one for the control path (`Control`); all
read the old values. `csignals` has one instruction for each shape of row in the
decode table. The data port is abstracted to a wait of up to `MaxMiss` cycles.
Beside the core the sequential machine `arch` executes one instruction whenever
the core retires one or takes an exception. `Regular` says which programs the core
can be expected to run like that machine: those without one of the neighbourhoods in
which it is known to deviate (below). **MCWuming5** gives the programs.

**MasterAdapter** is one cycle of the TileLink bridge. **DataPort** conjoins it
with the access in MEM, the router and the memories; **FetchPath** with the fetch
queue, the kill flag and an abstraction of the stages behind: they may stall,
miss, redirect and be killed whenever the real ones could, and a FENCE has what is
behind it fetched again (`fencei`, `if_pc_next`). A FENCE that is held is left out
(`FenceFree`): it skips an instruction (section 4). **MCFetchPath**
gives the address maps.

**AtomicOps**, **AtomicCell** and **LrSc**: the calls of the kernel's atomics; what
they deliver; and the loops of `atomic.h`, instruction by instruction, on the
emulator's `lro` and `sco`. The operand is modelled as written, `"+Rb" (v->counter)`:
the counter is loaded into a pointer register before the loop (`LoadOperand`), `lro`
and `sco` take that register for the address, and it is stored to the counter after
the loop (`StoreOperand`). So AtomicCell, too, has a plain load of the counter, one
moment at which the word at the address it held is read, decided on and written, and a
plain store of the counter; that this is not an atomic operation on the counter is what
`CountersUpdated` says and run LrScCounter shows. An address without memory stops the
processor (`LroFault`). Processors interleave between instructions; an instruction is
one step, because its only access to memory is one atomic operation of the host. The
barriers of the variants have no effect in this interleaving model. Addresses are of
whole words; words that overlap are left out. So is `atomic64_dec_if_positive`: line 149
of `atomic.h` lacks its line end, and the assembler refuses what it makes with line 150.
**MCLrSc** gives the calls.

**Words** scales the machine's numbers: a byte has `B` bits, and everything that
counts bytes, wydes or instructions keeps the source's numbers. Small words make
the edges of a field common. Powers of two and "and" are recursive functions here, so
that they can be reasoned about; "or" and "exclusive or" are defined from "and".

**QemuInsns** gives for each form of instruction the operations its `trans_`
function emits, in their order (`trans`, `translate_insn`), and what an operation does
(`Apply`). A loop of a macro is `Times`: a fixed number of operations for each turn,
with `NoOp` where the macro emits none because the destination is register zero.
`Encodable` are the operand fields and macro parameters the decoder can produce, which
is generated from `simrisc.opcodes`.
**QemuMachine** runs threads on them: an operation is a step; a store
into a page of running code drops the code and starts the instruction again; a
system call is answered or to be repeated; the floating-point helpers exchange the status with
`rf0_fcsr`, one variable of the process. `Writes`, `StoredBy` and `NextPc` say what the
instruction set gives each instruction to do, all at once. **MCQemuMachine** gives the instructions
and registers.

**Gas** is the assembler's way from statements to frags, through relaxation
(`dadao_relax_frag`, `md_estimate_size_before_relax`) to words and relocations
(`md_convert_frag`, `md_apply_fix`). **Bfd** is the linker's (`dadao_elf_sort_relocs`,
`dadao_elf_relax_section`, `dadao_elf_relax_delete_bytes`, `dadao_final_link_relocate`).
**Toolchain** takes a program through both, a statement, a relaxation pass or a
relocation at each step, and runs what comes out on QemuInsns. **MCToolchain**
gives the programs.

**GasInsns** is the opcode table, one row for each shape, the matching of operands
and the disassembler; **LlvmMC** LLVM's parser, matcher, encoder, decoder and
printer. **Encoding** sends a line through both and through their disassemblers
and back, at the real field widths. **MCEncoding** gives the lines.

**CodeMachine** is the machine that compiled code needs; **Programs** the C
programs and what they mean (no part of the repository). **LlvmIsel** is lowering,
combining and selection in LLVM, **LlvmFrames** its calls and frames, **Gcc** the
GCC port. **Codegen** compiles a program, caller and callee each by one of the
two, and runs it an instruction at a time; its history variable `calls` holds what
the calling side of each call may rely on. **MCCodegen** gives the programs.

Definitions whose comment starts with "Mutant of" are wrong on purpose: each is a
plausible bug that a property must catch, and `PROJECT.json` says which.

## 4. The runs

A violation run has one property, which a comment, a help text or an assertion of the
code states and TLC finds violated; the others pass.

| Run | States | Question |
|---|---|---|
| SetJmp | 237 k | do registers and memory behave as one stack for every sequence of CALL and RET, and does longjmp return to setjmp's caller, with its stack, whatever was called in between? |
| Wuming5 | 146 k | does the core execute regular programs of four instructions as the sequential machine does, and does it ever hang? |
| DataPort | 605 k | do loads see stores, and does the bridge get ready again? |
| FetchPath | 2.4 k | does DEC get the program, and does the queue ever overflow? |
| LrSc | 476 k | are the atomic64_* loops atomic on the word their operand names, and lock-free? |
| QemuMachine | 203 k | does the sequence of operations of each instruction, restarted or not, have the instruction's effect, and does a system call resume where it should? |
| Toolchain | 161 k | does the loaded program set the values and reach the labels the source names, and do the tools come to an end? |
| Encoding | 133 k | do both assemblers give the same words, and does printed text read back? |
| Codegen | 277 k | does compiled code compute what C says and keep what its caller relies on? |
| DataPortSigned | violation | is the signedness remembered the one of the request? |
| LrScCounter | violation | do the atomic64_* functions change the counter they are given? |
| ToolchainFar | violation | does a branch that both tools accept reach its label? |

Bounds, and why they suffice:

* SetJmp (and QemuRas in it): three registers and three words of memory, so that every case
  of push and pop (first, middle and last register; first, middle and last word)
  happens, and two return addresses so that a swap shows.
* Wuming5: an instruction interacts with those in the four stages ahead of it, so
  four instructions fill the pipeline; the instructions of a set share registers,
  so all of the interlock's comparisons occur. Four sets: data hazards, transfers of
  control, exceptions, and a mixture of the three. A program starts with an instruction
  that has an effect when all registers and words are 0. Words modulo 4, three registers
  per bank, three entries of the return-address file (two usable: it wraps).
  Padding behind the program is SWYM.
* DataPort: two bus addresses and one of the scratchpad, two values, two types (a
  signed byte and an unsigned wyde, of different sizes).
* FetchPath: four code addresses; the queue and the bridge hold one each.
* LrSc: two processors, two words of memory, one of them the counter, and words modulo
  3: a counter's value names the counter itself, the other word or no memory. One call
  of each kind, with arguments that make cmpxchg and fetch_add_unless go both ways and
  let a word change and change back between an lro and its sco. The proof covers the
  rest.
* QemuMachine: one thread, one instruction, one restart; four registers of each
  file, so that blocks overlap in every way; bytes of one bit, so that octas have
  8 bits and every value of a wyde occurs. softfloat has one flag more than rf0 has
  room for. Every form of instruction is there, with every way its operands can
  coincide. The proof covers the rest.
* Toolchain: bytes of one bit; branches reach 4 and 2 instructions back, so that
  programs of six statements and two labels need every length of branch; constants
  with every pattern of four wydes; symbols in the file, global, weak and elsewhere.
* Encoding: the real widths, each field at and just past both ends, registers at
  the ends of a file and of the wrong file.
* Codegen: 5650 programs on words of 16 bits; operands at the edges of the word,
  1 to 19 arguments, every caller with every callee. 168 programs are refused by the
  compilers themselves (100 expressions, 20 calls, 48 addresses) and not run.

Deadlock is not checked where programs end: after an exception in SetJmp, when the program is left in Wuming5, when every processor has stopped for want
of memory in LrSc, and when instruction, program or line
is done in QemuMachine, Toolchain and Encoding. Codegen checks it: compiled code
that gets stuck is an error, and a program that ended stutters.

Fairness. Wuming5 and DataPort: the clock does not stop (WF of the cycle), and the
bus accepts and answers (`BusProgress`, an assumption about TileLink: without it
nothing waits in vain but the bus). LrSc: each processor is a thread of the host
that keeps running (WF per processor); no processor has to make a call. Toolchain:
the tools keep running (WF of the next step), so `LayoutSettles` is about the
loops of relaxation alone. Codegen: the compiled program keeps running (WF of the
next step).

### What the violations show

**DataPortSigned**: `a_signed_reg` is given the size (`master_adapter.scala:82`), so a
signed byte is extended with zeros and an unsigned wyde with its sign. `WaitsForOwn`,
for all types, says nothing of the sign.

**LrScCounter**: an `atomic64_*` function changes the word at the address its counter
holds, and puts the counter back to what it was before (`atomic.h:71` and the same
operand in the other loops).

**ToolchainFar**: the assembler (`tc-dadao.c:150`) and the linker test a branch's
offset against twice the range of its signed field, so a branch to a label just out
of range is accepted by both and goes the other way.

### Known deviations kept out of the passing runs

In the five-stage core, each shown by TLC with a program of two to four instructions
that is not regular:

* "Stalls for all hazards" (`cpath.scala:9`) does not hold for the upper half of a
  two-word result read by a condition or a store (`cpath.scala:433`): the store of that
  register behind the sum stores what it held before (`StateMatchesIsa` fails).
* A RET in EXE held by a data miss loses its target, which is clocked in every cycle
  (`dpath.scala:267`), although the whole pipeline is stalled (`RetiresInOrder` fails
  for a RET directly behind a load).
* A FENCE that is held, by an access or a CSR access ahead, skips an instruction
  (`dpath.scala:192`), although the fetch should wait for just that (`RetiresInOrder`
  fails for a FENCE directly behind a store).
* A CALL or RET in EXE that the instruction ahead kills has already changed the
  return-address file (`dpath.scala:273`; `RasMatchesIsa` fails for a CALL directly
  behind an illegal instruction).
* An illegal instruction directly behind an access or another illegal instruction raises
  a second exception (`cpath.scala:462`; `RetiresInOrder` fails for two in a row).

`Regular` has one clause for each of these, and each is needed. The proof shows that
together they are enough. To see one of them, replace `Programs` of Wuming5.cfg by a set
with such a program.

Elsewhere:

* With code on both sides of the router the bus's answer to a killed fetch can meet a
  full queue (`scratchpad_adapter.scala:95`), the "Instruction backlog" that
  `dpath.scala:151` asserts away. FetchPath has all code on one side; with `Ranges` =
  {{2, 3}} `NoBacklog` fails.
* A store that was accepted and then taken away by an interrupt may go out as a Get
  (`master_adapter.scala:91`), and the answer to an abandoned access may be taken for
  another one: with interrupts, DataPort checks only that the bridge recovers.
* In QEMU, threads in floating-point helpers exchange rounding modes and flags through
  `rf0_fcsr` (`helper-fpu.c:10`); the run has one thread. A block count of zero raises
  illegal instruction but does not return (`translate.c:207`), so the translator runs on
  with the count wrapped; the model takes counts the instruction set allows.

Those of the tool chains are in section 6.

## 5. The proofs

**QemuRas_proofs**, for any number of registers, any return addresses other than 0
and any place of the area: `TypeOK`, `NoHole`, `SpillIntact`, `RetNeverLost` and the
refinement of CallStack (`ImplementsCallStack`). The inductive invariant is the
conjunction of the first three. `NoHole` is what makes the tests of a single
register ("ra1 is 0", "ra63 is 0") equivalent to "not full" and "empty"
(`TakenTests`); `SpillIntact` keeps `rasp` in the mapped words; each case of
push and pop needs both. For the refinement the abstract stack is the spilled words
followed by the registers in use (`Contents`): a push that shifts the registers down,
with or without a spill, appends to it, and a pop removes its last element; one
lemma for each branch of the code. Assumptions: at least one register, 0 is no
return address, the area is not at address 0.

**SetJmp_proofs** rests on it: every step of the program or of the library is a step
of QemuRas as far as the stack is concerned, or the block load of longjmp. The
invariant adds that longjmp runs only while the caller of setjmp is live and has
loaded the jmp_buf when it says so (`LibraryInv`), that inside setjmp the stack is
the caller's and one address more (`EnteredInv`), and that from the save until the
caller returns, the jmp_buf and the words setjmp left in memory still are that
stack, `rasp` being at or below them (`SavedInv`). From it follow `SavedFramesKept`,
`LongjmpReturnsToSetjmp`, `StackRestored`, and that longjmp keeps `NoHole` and
`SpillIntact`; with the lemmas of QemuRas_proofs also `StackBetweenJumps`, the refinement
of CallStack but for the block load of longjmp, and `RetNeverLost`.

**DataPort_proofs**, for any addresses, values and access types: `TypeOK`,
`NothingOutstanding`, `LoadsSeeStores` and `WaitsForOwn`. The invariant says what the
bridge's state implies about the bus (`BridgeInv`), that the latched request is the one
in MEM unless an interrupt has come (`OwnRequest`), and that memory holds exactly the
answered stores (`InStep`). `WaitsForOwn` holds for every access type: what is on the
bus and the address kept for the answer are those of the access in MEM. What is kept of
its sign is another matter (`ExtendedAsAsked`), and wrong.

**Wuming5_proofs**, whose first part is lemmas about the decode table, the register
files and the sequential machine: for every regular program of any length, any word
size, number of registers, entries of the return-address file, handler address and
latency, `TypeOK`, `RetiresInOrder`, `StateMatchesIsa` and `RasMatchesIsa`.
The hypothesis is `Programs \subseteq RegularPrograms`; the one assumption on the
constants beyond their types is that every word is a code address (`M <= Last + 1`),
since a jump through a register or an ESCAPE can go to any. The invariant compares
each stage with the sequential machine run ahead of where it is:

* MEM holds the machine's next instruction with its result (`MemInv`); `Later` is the
  machine after it. EXE holds the one after that, with the operands `Later` reads
  (`ExeInv`), unless MEM stops the pipeline. DEC and the fetch follow EXE unless it
  redirects (`PathInv`); the return-address file is ahead by EXE and MEM (`RasInv`).
* The control path knows every destination in flight (`TrackInv`), maybe more after a
  kill. So without a stall no register that DEC reads is written by EXE, MEM or WB
  (`NoConflict`), and it reads already now what the machine will read (`ReadAhead`):
  this is the interlock's correctness. Only here is `HalvesApart` used.
* The exception registers belong to EXE and MEM (`IllegalInv`), neighbours in the
  pipeline are neighbours in the program (`NeighbourInv`), and a FENCE never meets a
  stall (`FenceInv`, `FenceMoves`). These use the clauses of `MayFollow`, through
  `BehindAccess` (what can be behind an access) and `BehindKill` (what can be behind
  an instruction that stops the pipeline).

A cycle is taken apart by stage, then by the four ways it can go (`CycleCases`): the
pipeline is killed, held by MEM, stalled or redirected, or moves.

**FetchPath_proofs**, for any amount of code, when all of it lies on one side of
the router (the hypothesis `Ranges \subseteq {{}, Pc}`; with code on both
sides TLC finds a backlog, so it is needed): `TypeOK`, `RightInstruction`,
`FetchFollowsProgram` and `NoBacklog`.
The invariant adds that a message is outstanding exactly in s_inflight
(`BridgeInv`), that the queue is empty while a fetch is outstanding and that a
fetch not marked killed is for the fetch pc (`OneFetch`), that what waits in
the queue is the instruction before the fetch pc (`QueueRight`), and that a FENCE in DEC
or just gone from it has nothing behind it that was delivered (`FenceInv`). `OneFetch` is the
heart: one flag for "killed" suffices because it can mean the outstanding fetch or
the queue's entry, never both.

**LrSc_proofs**, for any processors, memory, counters, calls and word size: the loops
implement AtomicCell (`AtomicOperations`), that is, each works at one moment on the word
its operand names. The invariant says what a processor between lro and sco can rely on:
its reservation is for the address in its pointer register, at which there is memory, the
remembered value is the one in its register, and the new value was computed from that.
It says nothing about the memory. A successful compare-and-swap makes the remembered
value current, and that is why a change back and forth in between does no harm: the
operation takes effect at the sco, on the value it finds there. Operations that decline
take effect at the lro. The load and the store of the operand are steps of AtomicCell of
their own, and nothing is said to hold between them and the loop. Assumptions: at least
one word, counters are mapped, addresses and arguments are words.

**Words_proofs** is what the proofs of QemuMachine need to know of words, for any
width of a byte: powers of two; `And` and what is made of it stays in its width,
commutes, is associative and splits at any power of two; a wyde is replaced by "and"
and "or" with a mask; two's complement, sign extension by a shift to the left and
back, sums of two words. That the recursive functions exist, and everything about
them, is proved by least elements: a set of natural numbers with an element has a
smallest one (`NatMin`), so a set that contains 0 and with n also n + 1 contains all
(`NatInduct`). It is stated about a set, where the library's rule has an operator the
provers cannot instantiate.

**QemuMachine_proofs**, for any width of a byte, number of registers, masks, memory,
set of encodable instructions, number of threads, instructions and restarts, and
anything that floating-point functions return or raise:

* `TypeOK` in every behaviour, threads interleaved at every operation.
* `AsArchitected` if there is one thread, or if no instruction loads: between the
  operations of a load other threads may change what it finds, and what the property
  says of it would then have to be said of another memory. (What it says of the memory
  after a store it says only for one thread, already in its definition.)
* `StatusKept` if there is one thread. With two it is false, as `rf0_fcsr` is shared:
  the hypothesis is the known deviation of section 4 and nothing else.

Assumptions (`MachineAssumption`, `InputAssumption`, true of the source's numbers): the
masks of rf0 have no bit in common, pages and the flags of softfloat are powers of two
(less one), the addresses of a block of registers do not wrap all around, and
instructions, registers and memory have their types.

The invariant (`IInv`, for each thread `ThreadOK`) says that a thread is fresh, or
stopped by an exception, or that there is a history h of k states in which its
instruction was run (`RunsTo`): it begins with a state that has the registers of
`before`, the fixed ones restored or not, and with one thread at each address what
`before` had or what the instruction itself stores there (`Begun`), each
state comes from the one before by the next operation of the translation, with some
result for floating point, and the last is the present one; the code left is the
translation without its first k operations. In a program of several threads the memory
and `rf0_fcsr` may change between two states of h. The history is what makes the
invariant inductive: when the last operation is done, the effect of the whole is a
property of h alone.

What h implies is proved form by form: the three operations that restore the fixed
registers leave `Canonical(before)` (`FixedRun`); after them, for each form of
instruction one lemma `Done...` follows the operations the translator emitted and
says what they leave, for the block forms by `NatSteps`, the same kind of induction, over
the registers already moved; `AllDone` puts them together and `WholeRun` adds the fixed part and the step of
the pc. The direction of an overlapping block move, the copy of the count in EXTr and
that block loads read base and index once are where the order of operations matters.
A restart happens only at a store. The translations with a store (ST and STM) write
no register but rb0, at their end, and fixed ones, and a store of the same register
to the same place twice is one store: so what is `Begun` again has the same effect
(`BegunAgain`).

All these inductive invariants were checked by TLC on the instances of section 4
before they were proved, but for that of QemuMachine, whose histories TLC does not
enumerate; there TLC checked the three properties.

Only model-checked: `Progress`, `NoEternalStall`, `LockFree` and `LayoutSettles`
(liveness is outside the prover's reach); and Toolchain, Encoding and Codegen, whose
modules put words, sections and code together by folds over sequences of any kind of
element, the compilers' with recursive operators over expressions: what those compute
for every input would be an induction over the data, with no set of natural numbers
to do it over, and the prover has no SMT backend where a RECURSIVE operator is in reach.

## 6. Not modelled

Not modelled at all: ALU operations of the cores other than sums and conditional
moves, the byte lanes of the memories, the slave adapter, interrupts in the
pipeline, the debug module, the one-stage core (section 2); results of floating
point (softfloat is not in the repository); QEMU's MMU and coprocessor 0, which no
instruction reaches; signal frames, which `setup_rt_frame` and `do_rt_sigreturn`
answer with an assertion; the kernel's stubs; the opcode generator, test programs,
makefiles, patches and the superseded ports under `BACKUP`. Of the compilers: costs,
sections, jump tables, inline assembly and code that no caller reaches, much of it
left over from the Lanai port that LLVM's was made from.

The following is known not to work, or is not specified, and the programs of the
runs avoid it.

QEMU: LDM, STM and register moves with count 0 raise an exception but go on with a
wrapped count (`translate.c:207`); shifts by the width or more and the most negative
number divided by -1 are unspecified in TCG.

Assembler: `relaxed_branch_length` counts from the start of the frag, so a branch
behind other instructions of its frag is measured wrongly, and a far one there meets
an assertion; `%hi` and `%lo` of local symbols are fatal; `ABS` counts nothing in
the estimate; a block instruction split into single ones is wrong for base rb0,
index rd0, a destination that is the index (`tc-dadao.c:957`: the loads go on from what was loaded, and `SingleIsMultiple` without that clause fails), files other than rd, and
moves upward over their source; `setrf` of a symbol. `--no-expand` is left out.

Linker: words are deleted only if they are zero, while the comment says "Only do
relax when next insn is noop" and the assembler's no-operation is SWYM; branches
that the assembler resolved, and relocations against local symbols, are not adjusted
to deletions; the relocations of branches clear the register fields they should
keep; an ABS whose last wyde is used overwrites an opcode; LO12 is not compensated
for a negative low part; a refused relocation is only a warning; the deletion for
BRCC12 asks for an opcode that is two things at once.

Encoding: `%hi` and `%lo`; `setrd` and `setrb` of a register that LLVM reads as a
symbol; LLVM prints LDM and STM with a ", 0" it does not read; rd15 is missing from
its general registers; it emits `call rb0, rd0, 0`, which GNU as refuses;
`writeNopData` writes an illegal instruction; `0 <= ww_number <= 3` is always true.

GCC: the 17th and later arguments are read from the callee's own save area
(`dadao.c:212`); the prologue does not count outgoing arguments; a structure is
returned through rb63, in LLVM through rd16; an address `(plus mem rb)` is called
legitimate and is fatal when printed; `dadao_use_simple_return` does not look at
saved registers.

LLVM: GT and LE against 0xFFFFFFFF, which is taken for -1 (`DadaoISelLowering.cpp:892`; `Computes` fails); `x < 0 ? a : b` and a
double-word shift to the left stop the compiler, a double-word shift to the right by
more than a word is wrong; calls with variable arguments through a pointer; fastcc,
where the caller passes registers and the callee expects the stack; rb32 to rb63 are
not saved by callees, though GCC takes them to be (`DadaoCallingConv.td:42`; `FramesKept` fails); frames of more than 2 KB whose
locals no instruction names; realigned frames, which never align the stack pointer,
together with allocated blocks. Calls across the compilers with variable or more
than sixteen arguments are left out too.
