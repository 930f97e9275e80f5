# Formal models of the ECE 385 laboratory code

TLA+ models of the SystemVerilog and C of this repository, the TLC runs that
check them on small instances, and proofs checked by TLAPS.  A module follows
its source closely: registers are variables, wires and control signals are
operators with the name they have in the code, and one step is one rising clock
edge (or, for software, one bus access or one instruction).

## 1. Inventory

| component | state it keeps | operations | hard part |
|---|---|---|---|
| **Lab6, SLC-3 processor** (`ISDU.sv`, `datapath.sv` and the units it instantiates, `Mem2IO.sv`, `tristate.sv`, `test_memory.sv`, `slc3.sv`) | sequencer state, PC, IR, MAR, MDR, eight registers, condition codes, BEN, LED, the display word, two bus buffers, SRAM | one clock edge in each of 26 states; Reset, Run, Continue, sixteen switches | every read and write crosses a registered bus that is a clock late; branch decisions and condition codes are latched in one state and used in another; memory aliases; Reset reaches only some registers |
| **Lab6, instruction set and test programs** (`SLC3_2.sv`, `memory_contents.sv`) | what a program sees: registers, codes, memory, display | the instruction functions; menu-driven test programs | self-modifying code, sort with wrapped comparison, shift-and-add product |
| **Lab9, AES core** (`AES.sv`, `controller.sv`, `counters.sv`, `KeyExpansion.sv`, `SubBytes.sv`, `InvAddRoundKey.sv`, `muxes.sv`, `registers.sv`, `regfile.sv`) | controller state, round counter, key counter, 128-bit state register, four column registers, S-box ROM output registers | start, 25 edges of key schedule, ten rounds, done | counters that must be back at rest, ROMs on the other clock edge, a latency counted and not observed |
| **Lab9, Avalon interface** (`avalon_aes_interface.sv`) | sixteen 32-bit registers | bus read, bus write, capture of the result | a write wins over the capture; the done register is sticky |
| **Lab9, application** (`software/lab9_app/main.c`) | the request, the result block | encrypt, write key and message, pulse start, poll, read four words; benchmark loop | runs concurrently with the core |
| Lab9, byte transformations (`InvShiftRows.sv`, `InvMixColumns.sv`, S-box tables, `aes.h`, encryption in `main.c`) | none | pure functions | tables and index arithmetic |
| **Lab8, USB host** (`usb_kb/main.c`, `usb.c`) | the program's step, toggle, packet size and keycode; in the chip the mailbox, the message register, a transfer list, a few words of RAM | reset, nine requests, polling, hot plug | unlocked read-then-clear against the OTG chip, retries racing late completions, loops without a way out |
| **Lab8/Lab9, JTAG UART driver** (`lab9_app_bsp/drivers/src/altera_avalon_jtag_uart_*.c`; the Lab 8 copy is the same code) | two ring buffers, the interrupt enables, the count of seconds without a host | interrupt routine, alarm, read, write, close, ioctl | index pairs shared with the interrupt routine without a lock; interrupts that turn themselves off; a device that interrupts only when the host has paused or a FIFO is nearly full; a host that comes and goes |
| Lab8, HPI interface (`hpi_io_intf.sv`, `io_handler.c`) | strobes and bus buffer | a read or write of the chip | data driven a clock away from the strobe |
| Lab8/Lab9, HAL (alarms, file descriptors, logging) | | vendored | not modelled |
| Lab8, VGA, ball, colour mapper | beam counters, ball position and motion | one pixel, one frame | unsigned arithmetic at the screen's edge |
| **Lab5, multiplier** (`Multiplier.sv`, `controller.sv`, `reg_8.sv`, `flip_flop.sv`, `adder8.sv`, `full_adder.sv`, `Synchronizers.sv`) | A, B, X, controller state, button synchronizers | load, run, eight add/shift rounds, reset | switches are not latched; the load button bypasses the controller; the ninth bit, and the subtraction of the last round; Run is held for long |
| Lab4, adders | one result register | add | equivalence of three carry schemes |
| **`Linearprobe.cpp`**, a hash table | slots, probe flags, size, count | insert, remove, find, operator[], clear, resize, copy | lazy deletion, resize while inserting, uninitialised slots after clear |
| Lab7, Qsys systems, BSP, reports, netlists | | generated | not modelled |

Interactions: the SLC-3's sequencer and datapath share the control wires; its
datapath reaches memory through `Mem2IO` and the tristate bus.  The AES program
reaches the core only through sixteen memory-mapped registers, polls one of them,
and shares a reset key with it.  Interrupts are enabled (`alt_sys_init.c:86`) and a
1 ms timer runs, so that any number of clock edges may pass between two accesses.  The USB program reaches the OTG chip through
four parallel ports and the HPI pins and writes the keycode port the ball reads.
Both programs print and read through the JTAG UART driver, whose interrupt routine
and alarm run between any two of their accesses.  The hash table is on its own.

The hazards of each part, at their lines, are the list in `PROJECT.json`; the
properties below were chosen from it.

## 2. Modules

### SLC-3

| module | models | notes |
|---|---|---|
| `SLC3Words` | instruction fields, sign extension, ALU functions, condition codes | 16-bit words are integers modulo 2^16; AND is computed bit by bit |
| `SLC3` | the processor, edge by edge | `Next_state` is the first case statement of `ISDU.sv`, `LD_*`, `Gate*`, `Mem_*` the second; `Clk` is the edge of all registers at once, `Reset` the edge with Reset pressed; the disjuncts of `Next` split `Clk` by phase of the instruction |
| `SLC3ISA` | one step is one instruction or one button | the effects documented in `SLC3_2.sv`; abstract specification |
| `SLC3Refinement` | the mapping from `SLC3` to `SLC3ISA` | an instruction takes effect at its last edge, except that a store counts from the state that has its word in MDR, and JSR once it has linked |
| `SLC3Asm`, `SLC3Programs` | the assembler functions and the memory image | |
| `SLC3ProgramRun` | the image's programs on the instruction set, from the jump to their start | history variables record the operand, the words displayed and the data that the sort function was called with |
| `MCSLC3`, `MCSLC3Programs` | instances for TLC | |
| `SLC3WordProofs`, `SLC3Proofs` | lemmas on words and their bits; invariants and refinement | section 5 |
| `SLC3ProgramProofs` | the XOR test and the multiplier for all switch positions | section 5 |

`Undef` is a wire that nobody drives: Z on the bus, or the don't-care of
`gatemux.sv` when not exactly one gate is open.  `TypeOK` allows it in
`Data_read_buffer` alone.

Abstracted: `HexD.sv` (combinational), the synthesis-only `PauseIR` display of
week 1 (its states are in the sequencer, and the invariant proves they are never
entered), and power-up values other than zero.

### AES

| module | models |
|---|---|
| `AESCore` | controller, counters, state and column registers, key schedule; `CoreEdge` is one rising edge; `Decrypt` is the reference: settled key schedule and inverse cipher |
| `AESAvalon` | the register file around the core; `Write`, `NoWrite`, `ResetEdge` are the three kinds of edge |
| `AESDriver` | `main()` and `decrypt()` as a sequence of bus accesses with clock edges between them, any number while the core works or start is up; `Next` has one action per kind of access, `Idle`, and `Reset` |
| `MCAESDriver` | an instance: words are the integers modulo 17, the transformations are small affine maps |
| `AESProofs` | section 5 |

A 128-bit block is a sequence of four words, bits 127:96 first.  What the byte
transformations compute is a parameter (`InvSubBytes`, `InvMixColumns`, `SubWordRcon` of
the key schedule, ...): the core's control never looks at the data.  The S-boxes are ROMs read on the falling
edge, so that each step of the key schedule works with the word its ROM sampled
half a clock before: `rom[i]` is what step `i` last sampled, and a new key takes
ten edges to run through.  `REG[AVL_ADDR] = ...`, a blocking assignment in a
clocked block, is taken as the register synthesis makes of it.  `counter4` drives
nothing and is left out; so is the port width slip at `AES.sv:59`, which has no
effect on the value.

Assumptions, each named where it stands in `AESDriver`:
- `Slow`: reading a line from the user, and printing one, outlasts the 101 edges
  of a decryption; a request is entered, and a start issued, with the core at rest.
- a reset lasts two edges or more (it is a push button), restarts the program as
  well, and before power-up it lasted long enough for the ROMs to settle.

The two stores that pulse the start register (`main.c:241-242`) follow each other at
any distance: an interrupt may come between them.  If start is then still up in DONE,
the round counter counts on at every edge (`controller.sv:60`), and the next decryption
begins with the wrong round key.  `held` counts these edges modulo 11, as the counter
does, and `late` and `lateBefore` mark the decryption at hand and the one before as
preceded by such a start.  `CountersRest` says that the counter has moved by exactly
`held`; the properties about blocks have `late` as an exception, as the code does not
do what they say in that case: `decrypt()` then returns a block that nobody encrypted.

### Multiplier

| module | models |
|---|---|
| `Multiplier` | one rising edge of `Clk`: the controller's states with the code's letters, registers A, B, X, the nine-bit adder, the synchronizers; `Next` has one action per phase (`Rest`, `Clear`, `AddOrSubtract`, `ShiftRight`), each with every button and the switches free |
| `MCMultiplier` | switch positions 2, -128, -1 |
| `MultiplierProofs` | the product for all operands, section 5 |

The resets of the controller and of X are asynchronous: they act at the edge at
which their cause rises, so `ClockState` and `ClockX` look at the buttons and the
state after the edge as well.  The switches are read directly by the adder and
are taken to move at clock edges only.  `reg_unit.sv` is instantiated nowhere.
History variables record the operands (`multiplicand`, `factor`), whether anyone
disturbed the multiplication (`steady`) and whether Run was released.

### USB host

| module | models |
|---|---|
| `USBHost` | the program, the chip and the user: an action of `Program` is one access that the other side, or the program itself, can react to, `Chip` executes a mailbox command, the first transfer of a list, the rest of it, or the endpoint's descriptor taken for a list, and `PlugOrRemove` is the user |
| `MCUSBHost` | one key |
| `USBHostProofs` | section 5 |

Of a list of transfer descriptors only what the program's behaviour depends on is
kept: its address, and where its data phases are stored (`Requests`), for two words of
the chip's RAM are read later: x51E, where the program expects a keycode and where the
second descriptor's link was, and x57C, where it writes the packet size and a
configuration descriptor was.  The control byte of the first descriptor is the only
status the program looks at.  `answered` and `fault` are history: the requests the
keyboard has answered since the last bus reset, and the worst that has happened since
the last reset of the chip: nothing, a request not answered ("error"), a message about
the port ("change"), or a completion more than was asked for ("extra": a list whose
pointer is written again after it was completed, or a completion of the list at x576
that is none).

A submission takes two steps, `Submit` or `Resubmit` for the words of the list, its
control byte among them, and `WritePointer` for the pointer (`usb.c:133`,
`main.c:489`).  Between the two the chip may do anything to the list before: end it, or
its first transfer, which leaves x03 in the control byte just written.  `taken` is the
request whose words the chip has read; over a list that is being rewritten
`SetupPhase` reads the old one or the new.  The words themselves are one step: what the
chip finishes among them it finishes, as far as the program can see, before the control
byte is written or after.

The chip is not in the repository.  What the program relies on is assumed: a mailbox
command is executed before a list; a list's first transfer sets the control byte, and
without an answer the list is over; writing the pointer starts the list at its first
transfer; a list that is overwritten may end with nothing done;
reading the message register clears its flag, and a new message is either added to
one not yet read or takes its place; a message about the port may or may not come; the
pointer to x576 (`main.c:349`) is ignored or ends at once in a completion; the 600 ms
after a reset suffice.  Printing and `UsbPrintMem` change nothing.

### JTAG UART driver

| module | models |
|---|---|
| `JtagUart` | interrupt routine (`ReadControl`, `Receive*`, `Transmit`), alarm (`Timeout`), the calls of one program without operating system (`call` is the call in progress with its locals), the device (`lab9_soc_jtag_uart_0.v`), and the host (`HostSend`, `HostPause`, `HostReceive`) |
| `MCJtagUart` | what ioctl is given |
| `JtagUartProofs` | section 5 |

A call takes a step at each access to what the routine may change: it looks at the two
indices in one step and moves its own in another, and looks and decides in two when it
stops spinning.  An interrupt and the alarm are taken between any two steps of the
program, and the routine runs to its end before the program goes on, while device and
host move at any time.  The order in which a call reads the two indices does not
matter, for only the routine moves the other one and only in the direction that helps.
Characters are numbered, modulo `Numbers`, so that loss, repetition and exchange show.

Of the device, what the driver depends on is taken from its RTL: the receive interrupt
comes if it is enabled and either `pause_irq` is set or at most `Threshold` places are
left (`RI`, lines 437 and 485), `pause_irq` is set when the host pauses with characters
in the FIFO and cleared by each read of DATA (443-448); the transmit interrupt comes
with at most `Threshold` characters left (`WI`, 436 and 484); and the host counts as
active when it sends or pauses, not when it takes characters (439, 489).  Two things
follow that the driver's comments do not mention.  Characters that a full buffer left in
the FIFO raise no interrupt when it is enabled again, for the first character read has
cleared `pause_irq`: a read() that has emptied the buffer spins until the host pauses
once more, or is missed.  And a host that pauses again and again without taking
anything keeps `host_inactive` at 0: write() spins for ever.  `ReadWakesUp` and
`WriteReturns` name these conditions as their hypotheses.

### Hash table

| module | models |
|---|---|
| `LPHashTable` | the public functions; `insert` and `operator[]` step by step through `resizeTable` |
| `Multimap` | the abstract specification: a bag of pairs and the answer of the last call |
| `MCLPHashTable` | colliding keys, sizes 2, 5, 11, 17, load factor 0.7 |
| `LPHashTableProofs` | section 5 |

The hash function, `findPrime` and `shouldResize` come from headers that are not in the
repository and are parameters; what is assumed of them is `HashAssumption` and
`ResizeAssumption`, which says that the table is enlarged, at least twofold, before it
is full.  After `clear()` slots are uninitialised (`Linearprobe.cpp:152`): a step that
reads one goes to `pc = "undefined"` and the model stops, and that is the only place
where a run may deadlock.

## 3. Runs

| run | instance | checks |
|---|---|---|
| `slc3_programs` | 4 words of memory, 423 programs, switches 0, 2, 40000; 40,932 states | type invariant; reads return the current word; branch decision; condition codes; stores; the processor refines the instruction set; every fetched instruction completes |
| `slc3_test_programs` | the 256-word image with four data sets; 344,039 states | XOR, product, sort keeps and orders its data, display, sort returns |
| `slc3_sort_wide` (violation) | sort on x6000, xC000, 0 repeated | the comparison wraps: neither the signed nor the unsigned order results |
| `aes_driver` | two calls, any number of edges between accesses with the core at work or start up, one reset at any edge, both modes; 185,288 states | the core computes the inverse cipher, counters rest but for a start held into DONE, first call returns its message, the next is at most one request late, the poll is answered within 101 edges |
| `multiplier` | three switch positions, buttons free, one edge of interference with multiplications in progress, repeated multiplications without bound; 749,392 states | registers keep their width; an undisturbed multiplication shows the product; one multiplication per press |
| `usb_host` | one keyboard, plugged and removed at will, two looks at the port; 386,480 states | type invariant; no request is skipped; polling is set up; no completion is lost; enumeration gets to polling and polling goes on; a removal is noticed |
| `jtag_uart` | buffers of 3 cells, FIFOs of 2 and 1 characters, calls of up to two; 7.9 million states | type invariant; characters in order in both directions; interrupts stay armed |
| `jtag_uart_live` | buffers of 2 cells, ioctl; 374,708 states | a blocked write or close returns if the host reads or falls silent; a read gets what is in the FIFO if the host keeps pausing |
| `lp_hash_table` | three keys, two values, up to four entries; 156,545 states | type invariant; every entry is found; the count is right; probing ends; the table refines a bag of pairs |
| `usb_skipped` (violation) | as `usb_host` | a request completed twice: the second completion passes for that of the next, which is never answered |
| `usb_keycode` (violation) | as `usb_host` | a poll without a report publishes a leftover as a keycode |
| `aes_stale_result` (violation) | testing mode | the second call returns the first message: the done register is never cleared |

**Bounds.**  `slc3_programs`: the program counter stays within `MaxPC` = 5 words
of address 0 and counting registers within `MaxCount` = 2.  Four cells hold every
opcode, both operand forms, code that rewrites itself in each cell, and the
switches' address as an alias of the last cell; an instruction takes at most nine
edges and nothing in the processor depends on an older one, so programs of a few
instructions show each interaction, among them Reset at each edge of each.  The
proofs of section 5 remove the bounds, for the refinement too.
`slc3_test_programs` runs on the instruction set, which the processor refines;
operands are the edges of a byte and of a word.  `InstructionCompletes` is
checked in the same run: programs that stay within the bounds, the walks over the
reserved opcodes and the echo loop among them, are followed for ever, the others as far
as the bounds; an instruction that never ended would go round in a few states of the
sequencer, far inside.  `test_memory.sv` reloads the memory as Reset rises, the model at the
clock edge that finds Reset pressed: only the word that the bus buffer takes at that
very edge can differ, and the processor, halted there, reads again before it uses one.
`aes_driver`: `MaxCalls` = 2 covers a first call and the second that finds the done
register set, perhaps after a start held into DONE; `MaxGap` = 1 bounds the edges
between two accesses only where the core is at rest and an edge changes nothing
(`Unhurried`): with the core at work or start up any number may pass; `MaxResets` = 1
puts a reset at each edge of each call.  The proofs have none of the three bounds.  `multiplier`: the low byte of a product is the
multiplier of the next press, so many more values of B than switch positions occur;
`MaxMoves` = 1 lets the switches or the load button interfere at any edge of any
multiplication, and the undisturbed multiplications after it are checked too.
`usb_host`: `InsertRetries` and `RemoveRetries` are 2 where the code has 5 and 7, which
leaves a look that is not the last; nothing else is bounded, and the toggle is kept
modulo 2.  `jtag_uart`: three cells let a piece wrap, fill the buffer and leave it
partly full; two places in the receive FIFO let the routine leave one character behind,
meet it full or empty, and have it refilled by the host behind its back; with
`Threshold` = 0 the interrupts come for a full and an empty FIFO, and a single character
needs the host to pause; calls of two characters need two pieces across the end of the
buffer; `Numbers` = 6 exceeds what both hold at once.  `jtag_uart_live` has two cells,
so that one more character blocks, and does not number its characters.  `INT_MAX` = 3
still has a timeout the alarm can reach and one it cannot, which ioctl sets there.
`lp_hash_table`: keys 4, 14 and 24 start at the same slot of
2 and of 5, and at neighbouring ones of 11, where the probing for one runs into the
others; the table is rebuilt twice on the way to `MaxElems` = 4.  Deadlock is checked in every run that must pass except
`lp_hash_table`, where undefined behaviour ends the program.

**Fairness.**  `LiveSpec` and `ProgramSpec` assume weak fairness of the clock
alone: the processor's edge, and the next instruction.  No button, switch or
Reset is ever assumed to move.  `USBHost!Spec`: the program runs (weak fairness of
`Program`), the chip works (of `Chip`), and, as submissions are 10 ms apart, a list is
completed sometimes before the next one restarts it (strong fairness of `FinishList`).
The keyboard need not answer: `EnumerationCompletes` is about executions in which it
finally does.  `JtagUart!Spec`: interrupts are taken, a call that has begun goes on and
the alarm ticks, each weakly fair; no call need begin and nothing is assumed of the
host but what a property says itself: `WriteReturns` speaks of a host that takes what it
is sent, or from some moment on neither sends nor pauses; `ReadWakesUp` of one that
pauses again and again.  The AES poll's liveness is stated as a bound
(`PollIsAnswered`), which is stronger and needs no fairness.

**History variables** (`operand`, `shown`, `unsorted`, `previous`, `elapsed`, `held`, `late`,
`lateBefore`, `answered`, `fault`, `last`) record the past
for properties; no guard of the modelled code reads them, `elapsed` included.

## 4. Findings

1. `memory_contents.sv:167`, run `slc3_sort_wide`: bubble sort compares by the
   sign of a 16-bit difference, not "if data[j-1] > data[j]".
2. `avalon_aes_interface.sv:80`, run `aes_stale_result`: the done register is not
   cleared, so from the second request on `decrypt()` returns the block before, or
   part of it.
3. `main.c:518`, run `usb_keycode`: what stands at x51E is published after every poll,
   answered or not; before the first report that is the link of a transfer descriptor,
   and the ball sees keycode x20.
4. `main.c:208`, run `usb_skipped`: the loops that submit a request again look at the
   message flag before they write the list and its pointer, not after.  A list that ends
   in between is done once more, its second completion is taken for that of the next
   request, and the control byte x03 that its first transfer leaves between that
   request's words and its pointer lets it pass: the program polls a keyboard that has
   not answered all nine requests, against "Call the appropriate function again if it
   wasn't processed successfully" (`main.c:210`).

## 5. Proofs

`SLC3Proofs` proves, for every `MemSize` up to 2^16, every set of images and every
nonempty set of switch positions, seven theorems about `SLC3!Spec`: `Invariant`,
`TypeCorrect`, `ReadsCorrect`, `BranchCorrect`, `CodesCorrect`, `StoreCorrect` and
`ImplementsISA`.
They rest on the four assumptions on the constants in `SLC3` and on nothing else.

The argument is one inductive invariant, `IInv`.  `ReadsCurrentWord` is not
inductive: that the word in `Data_read_buffer` is the one at MAR needs MAR to be
the address of the transfer in flight, and that the instruction in IR is still in
memory needs that only the last state of a store writes.  So `IInv` adds
- `OpcodeOfState`: which opcode each execution state runs, and that `PauseIR` is
  never entered;
- `TransferInFlight`: MAR is the address the instruction computes from the register
  and offset in IR, MDR the word to store, and the write buffer has caught up with
  MDR in the second write state;
- `SwitchReads`: a read of xFFFF returned a switch position (or IR holds one);
- `AtMostOneFlag`: without it the one-bit sum of `BEN unit.sv` is not the condition.

Each conjunct has a lemma for an edge with Reset released; `ResetInvariant` and
`StutterInvariant` do the rest, and `NextInvariant` joins them.  `SLC3WordProofs`
holds the facts on words (sums, AND, NOT and sign extensions stay in range, flags
are one of three, the predecessor of an incremented counter).  `StoreCorrect` is an
action property: it follows from `IInv` in the state before the step.

`ImplementsISA` is the refinement: every behaviour of the processor is one of
`SLC3ISA` under the mapping of `SLC3Refinement`.  Each edge is an instruction, a
button, a reset or nothing a program can see.  What it needs of the state is `RInv`,
which adds to `IInv` only that a taken branch still has its condition
(`BranchTaken`).  `Bars` and `BarsAfter` say what the mapping makes of each sequencer
state, before and after an edge; then there is one lemma for each way to finish an
instruction (`OperateRefines`, `LoadRefines`, `StoreRefines`, `ControlRefines`), one for
the edges of a fetch, where the mapping must not move, and one each for buttons and
Reset.  Where the property TLC checks, `RefinesISA`, is met by 423 programs in four
cells, the theorem is for all memories.

`SLC3ProgramProofs` proves what `slc3_test_programs` checks for six switch positions and
four sets of data, for any: `XorCorrect`, `ProductCorrect`, `SortKeeps`, `SortOrders` and
`DisplayCorrect`, about the behaviours of `ProgramSpec` that start at the XOR test, at the
multiplier and at bubble sort.  They rest on the assumptions of
`SLC3ProgramRun`: the memory has 256 words, holds the image of `memory_contents.sv`
outside the sort's data, and the switches show words.  The first lemmas say what an
instruction does that an assembler function of `SLC3_2.sv` has put together: fields and
sign extensions give back what the function was given (`Fields`, `LowField`,
`Extensions`), so `RunsADD`, `RunsBR`, `RunsDisplay` and so on need not look at the
encoding again.  `XorInv` and `MultiplierInv` then say, for each address of the program,
what its registers hold there, and are kept instruction by instruction (`XorStep`,
`MultiplierStep`).  That four ANDs and NOTs are an exclusive or is `ExclusiveOr`, in
`SLC3WordProofs`, by taking words apart into sixteen bits.  The multiplier's loop
invariant is that after k rounds R5 is the second operand times the number that the
top k bits of the first make (`TopBits`: the first one counts negative, which is what
the detour through instructions 64 and 65 is for), and R1 the first operand moved up by
k bits, so that bit 7 is the next one (`Shifts`, `Masked`); `Product` is the arithmetic
modulo 2^16 behind doubling, adding and negating.

Bubble sort is the one program that writes memory it runs from, so its invariant
`SortInv` says first what does not change (`SortCode`: all words but the pause at 148,
which stays a pause), and then, by address, what the menu, the data entry, the sort and
the display functions find (`Menu`, `Entry`, `Counters`, `Compared`, `Kept`, `Order`,
`Display`).  `MovesOn`, `StaysOn` and `WritesOn` say once what an instruction leaves
alone, by whether it sets a register, moves the PC or stores; `MenuStep`, `EntryStep`,
`SortStep` and `DisplayStep` then go word by word.  `Kept` counts how often each word
occurs, with the word in R4 put back where it will go between the two stores of an
exchange; that gives `SortKeeps`, for all data.  `Order` is bubble sort's own
invariant: the words from `Settled` on are in place, and the one below the address
compared is the largest so far.  It depends on the comparison, a subtraction of words
whose sign may be wrong: `Order` is kept as long as the comparison does not contradict
itself on the words to be sorted (`Orderly`), which `NearOrderly` shows for words less than
2^15 apart, signed or unsigned.  `SortOrdersNear` says so of each call of the sort
function, whatever was sorted before and whatever the switches can enter;
`SortOrders`, about the property that the run checks, needs the hypothesis for all
words that may be data, which is true of the run's images.  Without it the property
is false: `slc3_sort_wide` is the counterexample.  The data entry function, which no run
reaches, is covered by these theorems.

`MultiplierProofs` proves, for every set of switch positions and every `MaxMoves`,
`Invariant`, `TypeCorrect`, `ProductCorrect` and `OnePress`, from the two
assumptions in `Multiplier`.  `ProductIsShown` speaks of the idle states; the
invariant `Rounds` says what a multiplication in progress has achieved: after the
shift of round k, with p = 2^k, 256 A + B is 256 / p times the product of the
multiplicand with the factor's low k bits, plus the factor's remaining bits
(`Partial`), and X repeats A's sign; between addition and shift X and A are a
nine-bit number.  The lemmas on numbers come first: sum and difference of two
bytes fit nine bits (`SumIsExact`, `DifferenceIsExact`), the shift is exact
(`ShiftIsExact`), B's low bit is the factor's next bit (`CheckIsNextBit`), a round
adds that bit's share (`RoundAdds`) and halves the weights (`RoundShifts`);
`AddPreserves` and `ShiftPreserves` lift them to registers, and one lemma per phase
(`ClearStarts`, `AddAdds`, `ShiftShifts`, `RestKeeps`) to the edge.  `OnePress`
follows from `RunWasUp`: whenever the controller is back in state A, Run has been
released.

`LPHashTableProofs` proves, for all keys, values and table sizes and all hash functions,
primes and load limits that meet the assumptions, `TypeCorrect`, `EntriesFound`,
`ElemsCorrect` and `SlotsLeft`.  The three depend on each other.  `TypeOK` needs the
counts (an entry that is removed was counted), the counts need the probing (remove
finds what is there), and the probing needs the counts (an entry can be placed because
there are fewer entries than slots).  `IInv` is their conjunction; its heart is
`Reached`: all slots from an entry's hash up to the entry are marked.  `Counting` says
where the entries are while a rebuild moves them from one table to the other.

`ImplementsMultimap` proves that the table implements the bag of pairs of `Multimap`,
so that a resize that moves the entries one by one, an insertion in the middle of
which it happens, and lazy deletion are all invisible to a caller.  The bag is counted
pair by pair: `CountOf` is how often each pair stands in an array, and `AsBag` the bag
with those counts.  `BInv` adds `Rebuilding` to `IInv`: during a rebuild what is left
of the old table and what has arrived in the new one count together what the old
table did (`MovesOne`).  Then each public function has a lemma that its last step is
the function's action on the bag, with the same answer, and each step of a rebuild one
that it is a stutter.

`USBHostProofs` proves `TypeCorrect`, `NothingSkipped`, `NoCompletionLost` and
`PollReady` for all keycodes, all descriptors and any number of looks at the port.
`NoRequestSkipped` needs `CompletedOnce`: as long as no list was completed once too
often, the chip is at a list only while the program waits for it, so that nothing of the
request before is left to happen between the words of the next and its pointer, and what
the chip is at is the list that lies there.  With that `Answered` is kept: a control
byte that says done was set by the keyboard's answer to the present request, with no bus
reset since, and all earlier requests were answered.  The hypothesis is needed:
`usb_skipped` shows what happens without.  `NoCompletionLost` needs `Undisturbed`: while nothing
has gone wrong, the pointer, the message register and its flag tell at each access of
the program exactly whether the list is still to be completed.
`PollReady` (at the first poll the keyboard is configured, and the packet size is the
one its descriptor gave) needs the device's side of the same story: `DeviceFollows`
says which address and configuration the keyboard has at each request, and
`PacketSizeKept` that the endpoint's packet size is not overwritten between the two
accesses that fetch it.  Both hold while nothing but a failed request has gone wrong
(`Orderly`), but for the moment between a list's completion and its being started once
too often (`Repeated`).

`AESProofs` proves, for every set of words, all byte transformations and S-boxes, all
requests and any number of calls and resets, `TypeCorrect`, `RestingCounters`,
`DoneIsDecrypted`, `FirstCallCorrect`, `OneRequestLate` and `PollAnswered`.  Nothing is
assumed of the transformations but that they map words to words; a request's message
is what the inverse cipher makes of its encrypted message (`RequestsAssumption`), and
any number of edges may lie between two accesses, the two that pulse start included.
The inductive invariant has two halves.  `Working` is the core's: in each controller
state it gives the number of edges since the start, the value of both counters, how
many ROM stages have settled (`Settled`) and which intermediate block of the inverse
cipher the state register holds, by round and step.  The other half relates it to the
program: which registers the writes done so far have filled (`Loaded`), that the
registers do not change while the core works, that the done register is clear exactly
while the first decryption is under way (`FlagInv`), and whose message the result
registers and the words read so far come from (`ResultInv`, `ReadInv`).  `Mixed` is what
a program sees that reads while the result is captured: words of its own request up to
some word, and those of the request before from there on.

`JtagUartProofs` proves `TypeCorrect`, `StaysArmed` and `Ordered` for buffers and FIFOs
of every size, every interrupt threshold, calls of every length and every timeout.  On a ring buffer, order is
`Numbered`: the k-th cell from the oldest holds the k-th number.  `RingTakes` and
`RingPuts` say what n characters out and in do to it, and rest on sums that wrap at
most once (`WrapsOnce`).  `ReadPiece` and `WritePiece` are why nobody needs a lock: what
a call saw between the indices when it looked is still there, or still free, when it
moves, because the routine only moves the other index, and only away.  `SpaceIsLeft`
says the same of the FIFO's space, which the host only adds to.  `Armed` strengthens
`InterruptsStayArmed`: a read that finds the buffer empty with its interrupt off has
moved characters in this call and will turn the interrupt on.

Only model-checked: liveness under fairness (`InstructionCompletes` and the like),
which is out of the prover's reach.

## 6. Not modelled, and the plan

1. `HPI`: `io_handler.c`'s strobes against `hpi_io_intf.sv`; `USBHost` takes a read or
   write of the chip as one step.
2. `Ball`, `VGA`, `Adders`, `AESBytes`: the ball on the screen, and the combinational
   parts (carry schemes, tables and index arithmetic) against reference functions.
   They share little or nothing with the programs above.

In the hash table, copying and destruction are left out, and `lphashtable.h`, which the
file includes, is not in the repository.

Not planned: the hexadecimal displays, pin assignments and top levels without
state, Qsys output, simulation netlists and reports, and the board support packages but
for the JTAG UART driver: headers of register offsets, macros and start-up code copied
from the vendor, where no logic of this repository is.  Most of the C in the repository
is of that kind (twice, as each application has its own copy), while the logic of the
laboratories is SystemVerilog; a count of modelled C lines therefore says little about
what is modelled here.
