# A specification of the HyperScan emulator

TLA+ modules, TLC configurations and TLAPS proofs for the emulator in `src/`: a
C++ program that runs the firmware of the Mattel HyperScan console (a Sunplus
S+core7 processor) under an interactive debugger.

## The system

| part | source | state | operations |
|---|---|---|---|
| arithmetic helpers | `cpu.cpp` 5-11, 539-646 | flags N Z C V T (bits of `cr1`), `CNT` | `add addc sub subc cmp bit_op sll srl sra sign_extend conditional` |
| processor | `cpu.cpp` 30-537, `cpu.h` | `r`, `cr`, `sr`, `CE`, `pc` | `step`, `exec32`, `exec16`, `branch`, `jump`, `interrupt`, `exception`, `debugDump` |
| memory | `memory/*.h` | arrays of firmware and DRAM, the segment table | byte, halfword and word reads and writes |
| I/O, UART | `io/*` | the UART's array, the characters printed | register reads and writes |
| main | `main.cpp` | none of its own | loads the firmware file, maps the regions, then loops: `debugger_loop`, `cpu.step` |
| debugger | `debugger.cpp` | `debugger`, `breakpoints`, `memory_view_address`, `aliases` | the command table, the loop, the screen |
| disassembler | `disasm.cpp` | none | text of an instruction at an address |

Everything runs in one thread. `main` calls the debugger and the processor in
turn; the processor calls the memory (`miu`), whose segment table passes words on
to a region; the debugger's commands call the processor, the memory and the
breakpoint table. The user and, one day, the console's interrupt sources are the
only other actors: nothing in the source calls `interrupt` yet but the debugger's
command `i`.

What is hard here is not concurrency but sequences. Flags and `CNT` carry meaning
from one instruction to a later one, with interrupts possible in between; the
lengths 2 and 4 decide where calls return and where breakpoints must be; every
byte access is a read and a write of a word, through mirrors and next to registers
that answer for themselves; the breakpoint test is apart from the step that
reaches the breakpoint; the encodings are decoded twice, by the processor and by
the disassembler; the screen guesses backwards where instructions begin; code is
copied to DRAM and replaced there. `PROJECT.json` lists each hazard at its line.

What makes each part correct:

* arithmetic: results, carry, overflow and the order conditions agree with the
  integers, and pairs of instructions extend them to two words;
* processor: execution stays on instruction boundaries, calls return behind the
  call, interrupts that are handled with care, one inside another's handler
  included, change nothing for the program;
* memory: one flat store of bytes, whatever the size, alignment or mirror;
* debugger: the machine stops exactly at breakpoints, and runs otherwise; `pc` is on
  the screen, and the rows marked there are what is executed next;
* disassembler: what it shows, read as the guide reads it, is what is executed;
* loading: a firmware that was loaded without a warning is the whole file.

## Modules

`Alu` is the arithmetic: operators on words of `WordBits` bits that take flags and
return the result with the new flags. `Pow2`, `BitAnd`, `BitOr`, `BitXor` are
parameters with assumptions (a table of powers; bit by bit), so that the proofs
need no bit vectors. Undefined shifts return every result. `conditional`, which
reads and decrements `CNT`, is three operators: `FlagsHold`, `CntHolds`, `CntAfter`.
`AluUnit` makes a machine of it: any helper on any operands, with the history
`last` that the properties speak about. `MCAlu` gives the constants values.

`FlatMemory` is abstract: each address shows a byte, stores change the bytes they
cover, wherever else their location shows. `Memory` is the code's: words in
arrays, segments with mirrors, I/O segments, the UART, and the merging of bytes
and halfwords into words. An address is a pair of segment and offset, what shift
and mask make of it. `readU32` and `writeU32` of an array do not check that four
bytes are left, so each array has three more bytes (undefined in C++, here with
any initial content, `HeapTail`, and nobody else's). `Memory!Flat` instantiates
`FlatMemory` with what byte reads show.

`Cpu` is the processor. A program is a table of 4-byte slots, each a 32-bit
instruction, two 16-bit ones in sequence, or a pair of which T selects one:
`Fetched` is `step`'s choice between them, by `pc & 2`, `p0` and `p1`. Each
instruction record stands for the cases of `exec32` and `exec16` that do the same:

| action | cases |
|---|---|
| `Nop` | `nop`, `nop!`, `cache` |
| `AluStep` | `add addc sub subc neg and or not xor bit* sll srl sra extsb extsh extzb extzh`, their immediate and 16-bit forms; `cmp!`, `bittst` keep no result |
| `Compare` | `cmp cmpz cmpi cmpis` |
| `Multiply`, `Divide`, `FromEngine`, `ToEngine` | `mul mulu div divu mfce mtce` and their 16-bit forms |
| `MoveSpecial`, `FromControl`, `ToControl` | `mfsr mtsr mfcr mtcr` |
| `SetT`, `Move` | `t{cond}`; `mv{cond} ldi ldis mv! mlfh! mhfl! ldiu!` |
| `Load`, `Store` | the offset, pre- and post-increment forms, 16-bit and base-pointer forms |
| `Push`, `Pop`, `Branch` | `push! pop!`; `b br j rte` and their 16-bit forms |
| `Dump` | whatever `exec32` and `exec16` do not know: `debugDump` exits |

`Isa` defines these records. Firmware does not change, so its table of slots is
never read as data. What a program stores in data memory and then executes is
another matter: outside the table, `SlotAt` reads the word as it is when it is
fetched and takes the slot that `Decoding`, a table of every word, has for it; all
ones, which unassigned addresses read, is an unknown instruction. From an odd `pc`
any instruction may come. `mul` multiplies as `int64_t`: a product beyond that is
undefined in C++, and any here (`Products`).

`DataMemory` is the memory that loads and stores see: numbers for addresses and
words, bytes behind the addresses in `Ram`, all ones elsewhere. The first address of
a word decides whether it is assigned, since that address picks the segment. What a
word reads that begins in `Ram` and reaches beyond it is left open here: it is other
memory of the process, which `Memory` has. `CpuMemory` says what `DataMemory` is of
the map: it numbers the pairs of `Memory` as `SegmentedMemoryRegion` divides them,
takes the DRAM, under whatever mirror, for `Ram`, and states that loads
(`LoadsReachMap`) and stores (`StoresReachMap`) are the map's.

`Decode` is the way from the bits of an encoding to its record: `Decode32` and
`Decode16` are the switches of `exec32` and `exec16`, one operator per inner
switch. `Disasm` is `disasm32` and `disasm16`, as far as they can be told from
each other by reading: a text is the name of the instruction, its suffixes and its
operands. `DecodeUnit` puts encodings before both, one after another, and defines
what a text means in the assembly language of the guide (`Meaning`).

`Preemption` adds an interrupt source and the history of calls. Interrupts come
anywhere in the program, and inside a handler while `pc` is in `Window`: `exception`
does not disable them, so a handler that saves nothing is lost at the second one. The
windows are handlers' code after `cr5` has been saved. `frozen` has the machine
as each interrupt found it. `MCCpu` has an assembler of a few operators and the
programs, `Nibbles` the tables of and, or and xor for their words.

`RunControl` is abstract: the machine is stopped or runs, a run step that leads to
a breakpoint stops it in the same step. `Emulator` is the code's: `phase` is where
`main`'s loop is; `EnterLoop` is `debugger_loop` up to the prompt; each command is
an action, `r` with one action per cycle. SIGINT ends the process at any time.
`Emulator!Control` instantiates `RunControl`: a machine about to notice a
breakpoint is stopped already. A `b` with several addresses is as many commands.
`Register` is the registers behind `r`, which the debugger's index reaches. `dump`
and words that are no command change nothing (`OtherCommand`); arguments that
`stol` throws on end the process (`FailingCommand`). `MCEmulator` has a program
that calls for ever.

`Listing` is `draw_code`: the look-back from `pc`, then a row per step. All that it
knows of memory is the top bit of each halfword, so that is what memory is here.
`trail` keeps the addresses looked back over.

`Boot` is `createFileMemoryRegion`: the size is measured, then as many bytes are
read, and somebody may replace the file in between. `Behind` is the memory an
overrun reaches; a file that cannot be sought (a pipe) measures as the largest
`size_t`.

## Runs

| run | asks | bounds |
|---|---|---|
| `alu` | `SumsExact`, `ConditionsDecideOrder`, `DoubleWordChain`, `ShiftsExact`, `ExtendKeepsValue` | all operands of 4 bits, all flags, shift amounts 0 to 5 and 9 |
| `alu_addc` | is the carry of `addc.c` that of the sum of three? *No* | 3 bits |
| `memory` | `IsFlatMemory`, `ReadsBack`, `LoadsReachMap`, `StoresReachMap`, `OnlyUnalignedWordsOverrun` | 7 segments of 48 bytes of four bits, two stores of two words at 16 addresses |
| `cpu` | `GoalsReached`, `InterruptsAreInvisible`, `ProgramsKeepApart`, `HandlersGiveBack`, `ReturnsMatchCalls`, `OnBoundary`, `StaysDisciplined`, `ProgramsEnd` | 15 programs, two interrupts anywhere, one in the other's handler once `cr5` is saved |
| `cpu_rte` | does `rte` restore the flags? *No* | 4 programs, a handler that does not save them |
| `cpu_mul` | is `mul` signed? *No* | 3 products |
| `emulator` | `BehavesAsRunControl`, `StepOverStopsBehindCall`, `ReturnsGoBack` | any five commands |
| `decode` | `ShownIsExecuted` | 1024 upper halves with every function, lower ones with every function, all 16-bit encodings, two addresses |
| `decode_jump` | is a `j` shown with the target it has? *No* | as `decode` |
| `decode_lhp` | does `lhp!` extend the sign? *No* | as `decode` |
| `listing` | `PcOnItsRow`, `MarkedIsExecuted` | 32 addresses that wrap, every top bit of ten halfwords, every `pc`, three rows back, six rows |
| `boot` | `SilentMeansWhole`, `OverrunWasMeasured`, `Boots` | a region of three bytes, files of up to five, two replacements |

Each passing run also checks its module's type invariant (`UnitTypeOK`,
`MemoryTypeOK`, `CpuTypeOK`, `ETypeOK`, `DecodeTypeOK`, `ListingTypeOK`,
`BootTypeOK`). The five other runs show
where the code departs from the S+core7 guide in `docs/`; the findings in
`PROJECT.json` quote it.

Why the bounds are enough. The helpers of `Alu` treat one bit like another but
the highest, so four bits have every carry, overflow and shift pattern, and the
theorems below hold for every width. The memory addresses include both ends of an
array, byte 3 of a word, the transmit word, other registers, storage beside them,
the border between two I/O segments and the empty segments; two stores suffice for
one to disturb the other's bytes. Programs are on 8-bit words, with bytes of two
bits: every instruction occurs, calls in each encoding and nesting, `CNT` of 0, 1
and 3, carries between words, both halves of a pair. Two interrupts reach every
pair of places in a program, the handlers' return included, and every pair of a
place in a program and one in the handler's window. The `overlay` program calls
code it has stored, replaces it, and replaces the instruction about to execute;
`accesses` loads a word that begins just before `Ram`, pushes the stack pointer (either
value of it) and pops into it. The copying loop also asks for `CNT` by `t` and `mv`. Five commands are
enough to set a breakpoint, run to it, toggle it and step over a call that meets
it; the model then runs on for ever. The encodings of
`decode` combine every value of `OP` and of every function field with register
fields that differ in each bit and immediates with either sign; the addresses are
one in each half of 64 MiB, one with carries out of each field. Ten halfwords are
more than three instructions back and six rows forward from a `pc` in their middle
reach; the others are unassigned memory, which reads all ones. The files of `boot`
are empty, shorter, as long and longer than the region.

Deadlock is not checked in `memory` (stores are counted), `cpu` (programs end),
`emulator` (the process can exit, and a user need not type), `listing` (a screen is
drawn) and `boot` (loading ends).

Fairness. `PSpec` and `ESpec` are weakly fair to steps of the processor and of
`main`'s loop, which is `while (true)`. Commands, interrupts and signals are never
required. `Boot` is weakly fair to `Load`, the function's own steps: it has no loop
but `fread`'s, whose length is fixed before; nobody has to replace the file.
`RunControl`'s own fairness is on `Run` alone and is checked against
`Emulator`'s by `BehavesAsRunControl`.

## What the cpu properties say

`InterruptsAreInvisible` is a refinement of `Cpu` by itself: with the state frozen
while a handler runs, and without `cr2`, `cr5` and the handlers' part of memory,
the interrupted program's steps are steps of a processor that is never
interrupted. It holds for handlers that save the flags through `cr1` and the
registers they use, and `cr5` before a second interrupt can come; `cpu_rte`
shows that the flags must be saved. It depends on
every pair of instructions that hand a flag, a count or a link to each other.

What it takes is stated as two invariants. `ProgramsKeepApart`: outside handlers,
the program does not use the handlers' memory, for loads, stores or as code, nor
`cr2` and `cr5`, and does not return from an exception it is not in. `HandlersGiveBack`: a
handler does not end the process, and by the time it is about to return to the
program, `cr5` is where the program was interrupted, although a second interrupt may
have used `cr5` in between, and all else that the program can see is as it was. That
the two are enough is proved for every program.

`GoalsReached` compares the end of each program with what it is for: bytes copied
under `CNT` (one byte for a count of zero), two-word sums, the larger of two
numbers by T, the number of calls made, what stored code has done each time it was
replaced. A program that divides by zero has to end there, with nothing behind the
division executed. `OnBoundary` says that `pc`, the link in
`r3` and `cr5` are always where an instruction begins, which depends on every
length that is advanced by or linked. `ReturnsMatchCalls` compares each return with
the call it belongs to, although links are pushed, overwritten and popped.

`StaysDisciplined` says which part of `OnBoundary` is the program's own doing: the
displacement of a branch, the register it goes through (but `r3`), what is moved
or popped to `r3` and `cr5`, the exception vector, and stores to code. The rest is
the processor's: the lengths `pc` advances by, `r3` as calls set it, `cr5` as
exceptions do, and the returns through both. `OnBoundary` is proved from it for
every program; the run checks that its programs have it.

## What the other properties of the screen say

`ShownIsExecuted` compares the two decoders: the meaning of what the disassembler
shows has to be the record the processor executes, to each register, scale,
extension and absolute target, and neither knows what the other does not. The two
places where they are known to part (`Parted`) have runs of their own,
`decode_jump` and `decode_lhp`. Encodings whose condition or compare field is
beyond the disassembler's tables are `Garbage`: what is behind an array.

`PcOnItsRow`: the look-back takes the top bit of a halfword for the start of a long
instruction, which it need not be. It nevertheless comes to `pc` again whenever
instructions begin there, in the row behind those looked back over. The reason is
that a guess is only wrong upwards: it may split a long instruction but never
joins its halves to others, because slots are aligned. `MarkedIsExecuted`: the
rows with the arrow are those `step` may execute next, both halves for a pair.

## Proofs

TLAPS proves, for every value of the constants that the modules' assumptions admit:

| theorem | module |
|---|---|
| `UnitTypeCorrect`: helpers return words and flags | `AluProofs` |
| `FlagsMeanWhatTheySay`: `SumsExact` | `AluProofs` |
| `ConditionsAreDecided`: `ConditionsDecideOrder` | `AluProofs` |
| `DoubleWordsChain`: `DoubleWordChain` | `AluProofs` |
| `ShiftsAreExact`: `ShiftsExact`; `ExtensionsKeepValue`: `ExtendKeepsValue` | `AluProofs` |
| `MemoryTypeCorrect`: arrays stay arrays of bytes | `MemoryProofs` |
| `OverrunsAreUnalignedWords`: `OnlyUnalignedWordsOverrun` | `MemoryProofs` |
| `MemoryIsFlat`: `IsFlatMemory`, the refinement of `FlatMemory` | `MemoryProofs` |
| `StoresReadBack`: `ReadsBack` | `MemoryProofs` |
| `LoadsAreTheMaps`: `LoadsReachMap` | `MemoryProofs` |
| `StoresAreTheMaps`: `StoresReachMap` | `MemoryProofs` |
| `CpuTypeCorrect`: `CpuTypeOK`, for any program | `CpuProofs` |
| `DisciplineKeepsBoundaries`: `OnBoundary`, for any program that `StaysDisciplined` | `CpuProofs` |
| `CarefulHandlersAreInvisible`: `InterruptsAreInvisible`, for any program with `ProgramsKeepApart` and `HandlersGiveBack` | `PreemptionProofs` |
| `PreemptionRunsCpu`: the interrupted processor is `Cpu` | `PreemptionProofs` |
| `PreemptionKeepsBoundaries`: `OnBoundary` and `CpuTypeOK` with interrupts anywhere | `PreemptionProofs` |
| `DecodeTypeCorrect`: every encoding is one of `Isa`'s instructions | `DecodeProofs` |
| `ShownIsWhatRuns`: `ShownIsExecuted`, for every encoding and address | `DecodeProofs` |
| `ListingTypeCorrect`, `PcAlwaysShown`: `PcOnItsRow` | `ListingProofs` |
| `MarksAreExecuted`: `MarkedIsExecuted` | `ListingProofs` |
| `EmulatorTypeCorrect`: `ETypeOK` | `EmulatorProofs` |
| `EmulatorStepsAsRunControl`: `Emulator`'s steps are `RunControl`'s | `EmulatorProofs` |
| `StepOverReturns`: `StepOverStopsBehindCall`, for any program with `ReturnsGoBack` | `EmulatorProofs` |
| `BootTypeCorrect`, `OverrunsAreMeasured`: `OverrunWasMeasured` | `MemoryProofs` |
| `SilentStartIsWhole`: `SilentMeansWhole` | `MemoryProofs` |

`AluLemmas` has the facts about the helpers that `AluProofs` and `CpuProofs` share:
modulus and sign bit, what each helper returns, which flags it sets.

`FlagsMeanWhatTheySay`, `ConditionsAreDecided`, `DoubleWordsChain`. Each property
speaks of the operation just done and the flags it left. The inductive invariant
is the three together with the types:
`DoubleWordChain` after `addc` needs `SumsExact` before it, that is, that the carry
which `addc` consumes is the one of the low words. Each helper's lemma reduces
`% Modulus` to the three cases of a sum or difference of two words (`SumFacts`,
`DifferenceFacts`); the two-word sum is then put together digit by digit
(`SumOfTwoWords`). The assumptions are those on `Pow2` and on and, or, xor.

`ShiftsAreExact`, `ExtensionsKeepValue`. Shifts and extension are division with
remainder (`DivisionParts`, and `DivisionIs` that no other quotient will do); the
bit which `cpu.cpp` picks for C is the upper half of what was shifted out
(`LastBitOut`), for `sra` although the bit is read from the unsigned word. They use
that the powers above and below a shift multiply to the modulus
(`PowersAssumption`), which follows from `WordAssumption` by induction, beyond the
prover's reach: it is assumed, and evaluated by the runs.

`OverrunsAreUnalignedWords`. Bytes and halfwords are written as the aligned word
around them; an aligned word lies within an array because the sizes are multiples
of four, also after the remainder that picks the offset in an I/O segment
(`AlignedFitsIo`).

`MemoryIsFlat`, `StoresReadBack`. Both rest on one notion, the cell: the byte of an
array that is behind an address, if there is one (`Cell`). A byte read shows its
cell, or a byte that never changes (`ByteShown`, `NothingShown`); two addresses have
the same cell exactly if they are the same place through different mirrors
(`SamePlace`, `SamePlaceSameByte`). `CellAfterStore` is the heart: a store of any
size at any address changes the cells of the bytes it covers to those of the value
and no other, although bytes and halfwords are a read and a write of a word, a
halfword at byte 3 loses its upper half, unaligned words lie in two words, and the
transmit word prints and keeps nothing (`Transmits`). A step of `Memory` is then
`FlatMemory`'s (`FlatChange`), and a load after a store puts the same cells together
again, byte by byte (`ArrayReadsBack`, `WordReadsBack`).

`LoadsAreTheMaps`, `StoresAreTheMaps`. Addresses and words become numbers. Of an
address, the number has segment and offset as its quotient and remainder
(`NumberParts`), so that two segments never share a number (`NumbersApart`) and
`a % 4` is the lane in the word, segments being multiples of four. Of a word, the
bytes are the digits of its number in base 256, least significant first (`DigitsOf`,
`BytesOfNumber`). A load is then put together from the same digits on both sides.
For a store, the byte at `x` is covered if it is less than the size behind the first
address, modulo the word: `DistanceBehind` shows that this wraps for no byte of
DRAM, however close the store is to the end of the addresses, and `StoreLeaves`
takes the rest from the lemma on cells above. The assumption
(`CpuMemoryAssumption`) is that bytes are numbers, that the table of powers is right
at whole bytes, and that segments fit the word's addresses.

`CpuTypeCorrect`. `CpuTypeOK` is inductive. What takes work: the byte
arithmetic of the memory stays below the modulus (`BytesMakeWords`), the high word
of a product is a word (`ProductHigh`), and `cr1`'s flags never overlap the rest of
it, since `mtcr` keeps the rest a multiple of 32 (`ControlValueType`).

`DisciplineKeepsBoundaries`. From a boundary, the length of what is fetched leads to
a boundary (`LengthsLead`): 4 at a slot or over both halves of a pair, 2 into a slot
of two instructions or from its middle to the next slot, all modulo the word.
`StepGoes` says of every action where `pc`, `r3` and `cr5` can come from: that
length, a link of that length, a target, or what the instruction wrote. The theorem
is conditional because it has to be: a program that branches into the middle of an
instruction gets there. What it assumes of the program is only what the program has
as data, step by step.

`CarefulHandlersAreInvisible`. The refinement maps the state to what the program
sees, `Seen`. Steps of a handler and nested interrupts are stutters, since `Seen` is
the first frozen state; so is the interrupt itself, which changes `cr2` and `cr5`
only. The return is one because of `HandlersGiveBack` (`ReturnIsInvisible`): nothing
else is restored by the processor. Where no handler runs (`Calm`), each instruction
must be the undisturbed processor's: a lemma for each group of instructions says that
they read the same (`UndisturbedReads`, `UndisturbedRead`), change the part of memory
and of `cr` that is the program's alike (`UndisturbedStored`, `UndisturbedControl`),
and that the same instruction is fetched (`UndisturbedFetched`), from data memory
too. The invariant adds to `CpuTypeOK` that every frozen state is one of the processor.

`PreemptionRunsCpu`, `PreemptionKeepsBoundaries`. The interrupt source and the
histories only restrict `Cpu`'s steps and watch them, so every step is one of `Cpu`'s
or leaves its variables alone, and `Cpu`'s theorems carry over.

`ShownIsWhatRuns`, `DecodeTypeCorrect`. There is no induction here but a great many
cases: the invariant only says that encodings and addresses are in their ranges.
`Agrees` says of a text and an instruction that the instruction is one of `Isa`'s
and that the text means it. A lemma per form of text proves that for all registers,
conditions and immediates: three operands, immediates, comparisons, moves, branches,
loads and stores with each of their modes, the multiplier's, the 16-bit forms. A
lemma per inner switch goes through its functions, and `LongAgrees` and
`ShortAgrees` through the values of `OP`. An absolute target is the sum of two
16-bit halves with a carry, on both sides in a form of its own. Encodings
`Garbage` stands for, and the two places in `Parted`, are excluded by the property
itself; the violated runs `decode_jump` and `decode_lhp` are about the latter.

`PcAlwaysShown`. The inductive invariant says what `trail` is: each address looked
back to leads to the one before it by `Later`, and none is inside a long
instruction. While drawing, the row's address is the trail's, from its end
backwards; at its beginning is `pc`. Addresses wrap, so `Later(Earlier(a)) = a` is
arithmetic modulo `Span` (a multiple of four).

`MarksAreExecuted` adds that each row drawn begins where an instruction does, with
that one's length and mark, and that the row behind `pc`'s is what follows `pc`
(`DrawnInv`); forwards, `Later` leads from one boundary to another
(`LaterOnBoundary`).

`EmulatorStepsAsRunControl`. The invariant (`EInv`) is `ETypeOK`, which ties the
debugger's flag to the place in `main`'s loop, with the processor's `CpuTypeOK` for as
long as it runs. Since `RunControl` has its own instance of the processor, a row of
lemmas (`SameExec`, `SameStep`, ...) shows that both mean the same. Each action of `Emulator` then maps to one
of `RunControl` or to a stutter: `EnterLoop` is the stutter, because `MainStep` is
already mapped to a step that stops if it leads to a breakpoint. It rests on
`CpuTypeCorrect`'s lemmas: a breakpoint set at a register's value is at a word.

`StepOverReturns`. `so` sets breakpoints behind the instruction and lets the machine
run. The invariant (`OverInv`) has the three places this can be: before the
instruction, with a breakpoint at every length it may have (`Ahead`); in the call,
whose link is at a breakpoint (`Under`); or at a breakpoint, with `main`'s loop
about to notice (`Arrived`). Other breakpoints may stop it earlier. The hypothesis
`ReturnsGoBack`, that a `br` through `r3` goes to the latest link, is the program's
part and is checked of the run's: a call that returns elsewhere returns elsewhere.

`OverrunsAreMeasured`. No more is read than was measured, and memory behind what has
been read is as clear as it was at first (`Progress`).

`SilentStartIsWhole` adds that, while nobody has replaced the file, memory is the
image of what has been read of it and its length is what was measured
(`Untouched`), and that a start without a warning read all that was measured
(`Silent`).

Model-checked only:

* `GoalsReached`, `ReturnsMatchCalls`: they hold because of what the programs and
  handlers in `MCCpu` do, not for every program.
* `StaysDisciplined`, `ReturnsGoBack`, `ProgramsKeepApart`, `HandlersGiveBack`: the
  hypotheses above, of the programs and their handlers.
* `ProgramsEnd`, `Boots` and the fairness that `BehavesAsRunControl` asks for:
  liveness, out of the prover's reach.

## Not modelled

The panes of the screen besides the code (`draw_border`, `draw_stack`,
`draw_registers`, `draw_memory`): they read the machine, print, and keep nothing.
`debugger_load_mapping`, never called, so that `debugger_get_alias` never finds a
name. What `dump` writes, and how texts are spelled, padded and coloured. The
toolchain's patches, documents and the Makefile, which are no part of the program.

What the runs cannot tell, and no property claims. Words of eight bits wrap where the
`uint8_t` of `interrupt`'s argument does, so that a vector without that wrap would look
the same. What `so` does on a parallel pair: it sets its breakpoint inside the pair,
where the machine never comes. Whether `br{cond}l!` is at the right function code:
processor and disassembler agree on it, a text in `docs/` does not.

Two abstractions to know about. Firmware is not data: loads from its segment see
unassigned memory, in `Cpu` only (`Memory` has it as an array); no program here
reads its own constants. And breakpoints are kept by address while memory is
mirrored: code reached through the other mirror does not stop, in the code as in the
model, and nothing says that it should.

Divergences from the documents that no run shows: `exception` does not disable
interrupts (`docs/SPCE3200_priciple.pdf`, page 22, has it do so), which is why
`Window` begins behind the save of `cr5`; `bcnz` decrements `CNT` and then tests it
(page 26 of the guide has the test first); `br{cond}l!` is at function 1100, not at
0110 as in `docs/instruction_table16.txt`.

## Plan

1. Done: `Alu`, `AluUnit`; `FlatMemory`, `Memory`, `CpuMemory`; `DataMemory`, `Isa`, `Cpu`, `Preemption`;
   `RunControl`, `Emulator`; `Decode`, `Disasm`, `DecodeUnit`; `Listing`; `Boot`; the
   theorems above.
2. `Console`: loads from the firmware's segment and accesses to the UART's registers
   by the processor, which `CpuMemory` leaves out: its loads are of DRAM and of
   segments without a region.
