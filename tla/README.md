# Verification of the RISC-V console boot program

The repository is a bare-metal program for SiFive-style RISC-V chips: the
start-up code of all harts, a main program that reads the device tree the boot
ROM left, copies it and patches the copy, and small polled drivers (UART, PLIC,
I2C, TRNG, timer), with libfdt and a handful of C library functions. It has no
operating system, no tests and no threads other than the harts and the trap
handler. This directory holds TLA+ models of it, the TLC runs that check them
on small instances, and TLAPS proofs.

Paths and line numbers are those of the repository; `PROJECT.json` maps each
definition to the lines it stands for.

## 1. Inventory

| Component | State | Operations | What is hard, and what makes it correct |
|---|---|---|---|
| start-up (`src/start.S`, `linker/link.lds`) | program counter of each hart, `.data`, `.bss`, stacks | load and zero memory, let the harts go, take a stack, call `main`/`slave_main` | all harts run it at once: nobody may start before memory is ready, everybody must start, stacks must not meet |
| SMP macros (`include/smp.h`) | MSIP registers of the CLINT, `mie` of each hart | `smp_pause`, `smp_resume`, `smp_disable` | a rendezvous built from interrupt bits: early leavers, stale interrupts, everybody waiting; a second use |
| barrier (`include/barrier.h`) | `gen`, `entered[2]`, `wait[2]` | `Barrier_Wait` | a spinning barrier that is used again: threads of two meetings are inside at once |
| libfdt reading (`fdt.c`, `fdt_ro.c`, `fdt_addresses.c`) | none: the blob | tags, nodes, paths, properties, parents, cells | walks over a flat structure with gaps, offsets that need not be nodes |
| libfdt changing (`fdt_rw.c`, `fdt_wip.c`) | header, reservations, structure and strings blocks of a blob | add, set, append, rename, delete, nop, open, pack | every change moves the blocks behind it; little room; a change that fails half way |
| libfdt checking (`fdt_check.c`) | none | `fdt_check_full` | agrees with what a tree means |
| libfdt sequential writing (`fdt_sw.c`, `fdt_empty_tree.c`) | a blob under construction | create, reserve, begin and end nodes, add properties, finish, resize | structure and strings grow towards each other; calls in the wrong state; names counted from the end until the blob is finished |
| libfdt overlays (`fdt_overlay.c`) | two blobs that change together | `fdt_overlay_apply` | seven passes, each of which may fail; phandles renumbered; offsets kept over changes. The program neither calls nor links it |
| libfdt messages (`fdt_strerror.c`) | none | a table | |
| main (`src/main.c`) | registers read from the tree, the tree's copy | find devices, open the copy, patch, pack, start the application | any of the tree may be missing; offsets must not outlive a change; addresses are translated bus by bus |
| traps and PLIC (`src/main.c`, `src/start.S`, `plic/plic_driver.c`) | PLIC registers, table of handlers, `mie`, `mstatus` | set up, enable, disable, priority, threshold, claim, complete; timer handler | a trap may come between any two accesses of the program |
| I2C driver (`i2c/driver.c`) | controller registers, a timeout | set the rate, write, read, transfer | a controller that answers late or never; a clock that wraps around; an error half way |
| clock utilities (`clkutils/`) | `mtime`, `mcycle` | read 64 bits in two halves, seconds, delay | a carry between the two reads |
| TRNG driver (`trng/trng.c`) | control, status, random registers | set up, wait, get a number | bounded wait, a number read twice, errors told apart from numbers |
| UART and kprintf (`uart/`, `kprintf/`) | TX and RX FIFO registers | put, get, numbers to text, baud divisor | harts that print at once into a FIFO that may be full; the lowest number of a width; rounding |
| C library (`lib/`) | none | `memmove`, `memcpy`, `memset`, `strcmp`, ... | overlapping regions, ends of strings |
| register maps, build, `lib/version.c` | none | constants | |
| demo application (`app/`) | none | a host program, not linked | |

How they interact: start-up calls the SMP macros and then `main` on hart 0,
and `slave_main` (a `wfi` loop) on the others. `main` calls libfdt, the PLIC
driver's `PLIC_init`, the UART and the TRNG driver. `trap_entry` interrupts any
code once interrupts are enabled and calls the handlers of `main.c`, which use
the PLIC driver. The I2C driver uses the clock. The barrier is offered to
applications. Harts share memory, the CLINT and the UART.

## 2. Plan

Done, in this order, most important behaviour first:

1. `Rendezvous`, `Smp`, `SmpBoot` and their proofs: what every boot goes through.
2. `Fdt`, `FdtRw`, `FdtBlob`, `DeviceTree`: the bulk of the code.
3. `FdtAddr`, `BootMain`: what main does with it.
4. `Barrier`, a second implementation of `Rendezvous`, and its proofs.
5. `I2c`: the driver with time-outs, and its proofs.
6. `Interrupts` and its proofs: traps against the PLIC driver.
7. `FdtSw`, `FdtWriter`, `FdtPhandle`, `FdtOverlay`, `FdtStrings`, `FdtMake`: trees
   written from scratch and overlays merged into them.
8. `Kprintf`, `Console`, `Clock`, `Trng`, and `Program`, which composes them with
   `Smp` into what the harts do after start-up; `ProgramProofs`.
   `Boot`, `Chip` and `Drivers`, which compose what comes one after another or
   shares nothing, so that one run checks it.
9. `FdtWriterProofs`: the layout of a blob while it is written.
10. `FdtProofs`: the layout of a blob that is changed, by any caller and by `main`.
11. `FdtReadProofs`: what a blob means; and that a finished one is the tree described.
12. `FdtReadProofs`, `FdtProofs` again: what a change in place does to the tree a blob
    stands for, and that `FdtBlob` implements `DeviceTree`; what look-ups find; and
    that the copy `main` patches is the tree it was given with two properties put in.

Left:

1. `Lib`: `memmove` against its definition, the string functions. They are
   sequential and have no state.
2. A store buffer for each hart in `SmpBoot`, for a bus that is weakly ordered.

Abstract specifications: `Rendezvous` (implemented by `Smp` and `Barrier`),
`DeviceTree` (implemented by `FdtBlob`), `Smp` itself (implemented by
`SmpBoot` and by every `Program`).

## 3. Modules

**`Rendezvous`** is the specification of a meeting: parties arrive and leave
once per round, and nobody leaves a meeting that somebody is still missing from.

**`Smp`** models `smp_pause`/`smp_resume` on every hart. A step is one access to
an MSIP register or CSR and the register instructions around it. `pc` names the
loops: `work` between the macros, `raise` the loop that stores 1 to each MSIP,
`wait` the `wfi` loop at label 42, `clear`, and `scan` the loop at label 41.
`smp_disable` is `Pause` with no `Resume`. Accesses reach the CLINT in program
order: the macros hold no fence, so this is an assumption on the bus.

**`SmpBoot`** extends it with the work between the macros in `start.S` (one step
per word loaded or zeroed) and with the stacks and calls that follow (`Launch`).
**`Boot`** goes on with `main`: hart 0 calls it, and `BootMain` takes over. `main` reads
and writes nothing that the start-up of another hart uses, so it is run when all
have started; which tree the boot ROM left is chosen when `main` first reads it.

**`Barrier`** models `Barrier_Wait` one access to shared memory at a time
(`LeaveLast`, `LetGo`, `Spin`, `ClearFlag`, ...). `BarrierMeeting` is the refinement of
`Rendezvous`.

**`Fdt`** holds the walks of libfdt over a structure block, which is a sequence of
words: tags, words of a name, lengths, offsets into the strings and values
(`BlobWords`); `Blobs` is the set of everything that may be in a buffer. The loops of
the walks that only pass over tags are one operator, `Skip`.
`TreeOf` is the meaning of a blob, what `fdt_check_full` walks: a cursor goes from tag to
tag (`Onto`), and each tag it comes to says a node or a property. **`FdtRw`** holds
every operation of `fdt_rw.c` and `fdt_wip.c` as an operator from a blob to a
return value and a blob, with the header offsets, sizes and splices of the code.
**`FdtBlob`** is the state machine of a caller that applies them in any order, at
offsets that are right or stale, to a blob delivered as `BlobAssumption` says: its
blocks apart, in any order, its reserve map ended, and its structure as compilers
write it (`WellFormed`: it can be walked to its last word, no two nodes have one
path and no two properties of a node one name, and the properties of a node come
before the nodes in it). The caller does not give a node the name of a sibling
(`MayRename`): `fdt_set_name` would do it.
**`DeviceTree`** is the abstract tree. **`FdtAddr`** holds the readers and address
helpers `main` uses (a `device_type` is one word, so `strncmp` with a length is
equality with `cpu`; `mem_base`, which `main.c:324` does not initialise, may hold any
value when no address is stored); **`BootMain`** is `main` up to the application, one action for
each numbered section of the code, with what each does when it fails. The trees it
may find are those of `FdtBlob`, and nothing but `/chosen` and `/cpus` bears these
names (`PlainlyNamed`): `fdt_subnode_offset` would take `/chosen@0` for `/chosen`. (Its
specification is `MainSpec`, so that one module of proofs can speak of it and of
`FdtBlob`.)

**`FdtSw`** holds `fdt_sw.c` and `fdt_empty_tree.c`, again as operators from what is in
the buffer to a return value and a buffer. The record is that of `FdtRw` with
the magic word and `size_dt_strings`; as in the code, the state of an unfinished
blob is told from `off_dt_strings`. **`FdtWriter`** is a program that calls them:
properly nested, but in the wrong state too (`Early`), in buffers that are too
small, and again after a resize. **`FdtPhandle`** adds phandles, paths of nodes and
the loops over children; **`FdtStrings`** the lists of strings, where a word is a
character; **`FdtOverlay`** is `fdt_overlay_apply`, pass by pass. In an overlay a path is
as many equal words as it has characters, and an entry of `__fixups__` is one word
that says which cell of which property is meant: splitting the text at its
colons is left out. The overlays are such as a compiler delivers: fixups and
local fixups name places in the overlay, though perhaps ones that are not there.
**`FdtMake`** is the program that writes a tree, opens it and merges overlays, the
last one again too.

**`Console`** models a call that prints as the characters it has still to put
(`todo`) and those that went into the FIFO (`out`); `PutAtomic` is `uart_putc` of a
build with atomics, one `amoor`, and `PollFifo`/`StoreFifo` that of a build without.
**`Kprintf`** says what the characters are, conversion by conversion and with the
code's buffers. **`Clock`** is the counter in nanoseconds with the calls that read
it, one action per load. **`Trng`** is the driver as the end of `main` uses it, and a
generator that drops its valid bit when NEXT goes up or on reset: the waits of the
driver say so, the device's manual is not in the repository. **`Program`** composes
`Smp` with these: which job the harts do after `smp_resume` and how they were built
is chosen at the start (`program`). In the build without atomics only
`NONSMP_HART` prints, as in the repository, where the other harts do nothing.
**`Chip`** adds the program in which the harts meet at the barrier of `Barrier` after
`smp_resume`.

**`I2c`** models the driver register access by register access. `legs` are the
parts of a call still to do (`i2c0_transfer` writes, then reads), `log` the
commands given, each with its acknowledgement, and `waited` the ticks since the
time-out was set, which no code reads. `Complete` is the controller.

**`Interrupts`** models the PLIC driver, `trap_entry` and `handle_m_ext_interrupt`
under a program that calls the driver. One thing is left to the program, and it
does it: it installs a handler before it enables a source (the table is called
without a test). `main` itself only calls `PLIC_init` and leaves interrupts off.
Nothing is assumed of how the devices lie in the bytes of enable bits. A handler
that disables its own source between the read and the write back of the byte it
lies in is undone by the write back (`plic_driver.c:77`, `89`), and is then called
again: the model does so, `Exposed` are the sources it can happen to, and
`EnableAsAsked` and `NoStray` say that it happens to no other and that no source
that is asked for is ever lost. `Pending`, `Claimable` are the PLIC's own.
**`Drivers`** is a program that uses the I2C driver or the PLIC's, which share no
register and no memory.

**`MC...`** modules give the constants of a run. **`...Proofs`** hold the proofs.

## 4. Runs

Expected to pass:

| Run | What it shows | Bounds, and why they are enough |
|---|---|---|
| `boot` | memory is ready before anybody starts and is not written after, everybody starts, the macros are a rendezvous that leaves no interrupt pending; what main reads is what the tree says, the blocks of the copy are apart and it packs, the copy is the tree with two properties put in, main stops only for a tree it cannot use | harts 0, 1, 3 of five registers, so absent harts lie between and behind; two words of `.data` and `.bss`: a first and a last; image in place or not; whole trees and trees with each single node or property missing, with and without a translating bus, wide cells, `/chosen` absent, first or last, the strings block behind or in front of the structure, and more or less room; cells below 16, so that sums wrap around. A bus has one entry of `ranges` and as many cells as the bus above it |
| `fdt_rw` | blocks never overlap and the reserve map keeps its end, failures change nothing, each operation leaves a blob that can be walked and does what its name says to the tree, look-ups find what the tree holds | two delivered layouts (blocks in order with gaps, strings first), three node names two of which match by base name, two properties, two buffer sizes of which one soon fills up, three offsets that are no node |
| `fdt_make` | structure and strings never meet, a finished blob is the tree described and can be read before it is finished, a call fails only for lack of room or in the wrong state and then changes nothing; an overlay is merged whole or leaves a tree nobody reads, references and labels mean the same nodes as before, merging fails only for a cause; paths, phandles, string lists and appended ranges read back exactly | three nodes below the root, four properties, buffers in which the tree does and does not fit; six overlays (a new node with references both ways, labels of base tree and overlay, the root renumbered, two that fail early or late), merged twice in any order; cells below 8, so that phandles and ranges run out |
| `drivers` | what success of an I2C call means, that an answer belongs to its own command, when a call gives up and that it returns; the rate set is the slowest that is not slower than asked; the enable bits are what was asked for but for the sources exposed to a write back, the trap handler calls only what is there, nobody waits for ever | ten calls with up to two bytes each way (first and last), clock of four seconds of two ticks, so time-outs straddle the wrap; rates too slow, made exactly, between two that can be made, and too fast. Three devices, two in one byte of which one disables itself, four sources of two to a byte (the last has a byte of its own), two priorities |
| `programs` | the macros used again never let a hart get two rounds ahead, even with harts that print in between; every call prints exactly what it means; the 64-bit counter is read right; no number of the generator is printed twice; `main` gets to its last loop; the barrier is a rendezvous nobody is left in, ready for its next use | harts 0, 1, 3, four MSIP registers (one absent), 3 rounds: one more than the property speaks of; a FIFO of one character; two bits to a nibble, three nibbles to an int, digits to the base 3, and the numbers at which a sign or digit more begins; a counter of two halves of one bit that carries between any two loads; two polls before the TRNG is given up and two numbers; four meetings of three threads (first, middle, last): each of the two generations twice |

Expected to find a violation; each is a finding of `PROJECT.json`:

- `smp_reuse_stop`: the comment at `smp.h:29-34` presents the macros as a block
  to put single-threaded work in. Used twice in a row they can stop all harts: a
  hart still scanning for the first time finds its own bit raised for the second.
- `boot_trng`: main looks the TRNG up in one tree and reads its address at that
  offset in the other, where nodes have moved; it stops with a message that is
  not true.
- `boot_unmapped`: the upper bound of a bus's range is tested the wrong way
  round, so an address behind it is translated.
- `i2c_nack`: `i2c0_transfer` returns success although a byte it wrote was not
  acknowledged, when there are bytes to read.
- `i2c_rate`: a rate faster than a fifth of the clock is out of range, as
  `driver.c:82` says, and is set with a prescaler of -1, 0xFFFF: the slowest one.
- `boot_stack`: `start.S:95` speaks of 4 KiB of stack for each hart, and line 99 puts
  the stacks 1 KiB apart. `link.lds` guarantees 4096 bytes in all: with harts 0, 1
  and 4, which the run has, the last one starts at the end of `.bss`. (Its
  `_heap_end`, 2 KiB below `_sp`, lies in the stacks of harts 2 and 3.) How deep the
  calls of a hart really go is not modelled.
- `clock_delay`: `clkutils.h:59-61` promises a delay of at least the time asked for.
  The loop counts ticks from wherever within one it starts, and adds one: up to
  a period may be missing of a time that is not a whole number of periods. (The
  run has periods of four nanoseconds and delays with and without a rest.)
  `WholePeriods` says how much is not missing, and is proved.

Deadlock is checked except where the program really ends: after the last round
of the macros or the barrier, after start-up, in the last loop of `main`, when the time of
`MCClock` ends, and when `FdtMake` has merged its last overlay.

**Fairness.** `Smp`, `SmpBoot`, `Barrier`: a hart or thread keeps executing, since
nothing preempts it; a hart in `wfi` wakes only for an interrupt it has enabled;
nobody has to call the barrier again. `I2c`: the driver and the clock run, and
the second in which a time-out can be seen is long enough for the driver to
poll (strong fairness of a step while the time is up); nothing is assumed of the
controller. `Interrupts`: the hart takes an interrupt it may take and its handler
runs on; the program need not do anything. `Program`: every hart goes on with what it
has begun (`GoesOn`; nobody has to begin another call that prints), and the UART
sends what its FIFO holds; the generator may never have a number, nor need the
counter count. `FdtBlob`, `FdtMake` and `BootMain` are sequential and only have
safety properties. `Boot`, `Chip` and `Drivers` have the fairness of the modules they
compose and no other.

**`Returns`** of `drivers` has an exception: a call that begins to wait in the last two
seconds before `metal_time()` wraps around waits for a time that never comes,
and with a controller that does not finish it waits for ever.

## 5. Proofs

TLC checks the instances above. TLAPS proves, for every value of the constants
the modules' assumptions admit:

- **`SmpProofs`**, all with the lowest hart id as `NONSMP_HART`: types; for one use of
  the macros (`Once`) that no interrupt is left pending and that nobody wakes
  early; and for any number of uses that they implement `Rendezvous` and that no
  hart gets two rounds ahead. The inductive invariant of one use, `OnceInv`, says
  how far the raising loop is, that a bit reads 1 exactly while its hart is raised
  and not yet awake, and that a scanning hart has seen everybody below its index
  awake. With more uses a bit may be raised for the next round before a scan has
  passed it; `RoundsInv` therefore counts what has been raised for whom: a hart's
  bit is set exactly when it has been raised more often than it has woken, and a
  scanning hart has seen each hart below its index awake in this round or
  later. With a higher `NONSMP_HART` a hart could scan past a register that is raised
  later. That a second use may stop for ever (`smp_reuse_stop`) does not
  contradict this: it is a matter of liveness.
- **`BarrierProofs`**: for any finite set of threads and any number of meetings the
  barrier implements `Rendezvous`, changes `gen` only when everybody waits, and
  is as new whenever nobody is inside. The inductive invariant `InGeneration`
  says that one generation is under way and gives, for a thread at each place,
  its call and return counts, with the counters as the numbers of threads on the
  way in and out.
- **`InterruptsProofs`**: for any number of sources, priorities and devices,
  wherever these lie, no source asked for is lost and what is enabled beyond them
  is exposed to a write back (`Exposed`), and the trap handler never fails. The
  inductive invariant says what `PLIC_init` has cleared, that a byte between its
  read and its write back holds all that is asked for and besides only exposed
  sources, and that a hart about
  to claim has something pending; that a claim then finds a source that outranks
  the others is proved from well-foundedness of the natural numbers.
- **`I2cProofs`**: types, for calls of any length; that no command is given during
  another; that no call gives up within a second of waiting, for a clock of any
  period; and that of the rates the divider can make the slowest is set that is
  not slower than the one asked for, if there is one (`5 * baud <= ClockRate`; for
  the others see `i2c_rate`). The inductive invariant says that
  the driver acts only on a controller at rest, and that until a second has
  passed the clock is less than `waited` ticks beyond the start of the second
  `timeout`: a clock that wraps around only falls further behind. And a call that
  returns success has put the address and every byte of its legs on the bus,
  acknowledged and with the STOP: `BusInv` says that the log is that of the legs
  done and of the bytes done of the present one, whatever earlier calls left, and
  that the flag the driver reads is the answer to its last command.
- **`ProgramProofs`**: every `Program` is a behaviour of `Smp`, of `Clock` and of `Trng`,
  so that what is proved about those holds whatever else the harts do. A value read
  in halves is one the counter had during the call, for a counter of any width and
  period (`ClockReadsExact`), and a delay outlasts the whole periods in it
  (`DelaysWholePeriods`), though not all of what it promises: the invariant keeps, behind
  the second load, a witness, the value the counter had then, whose upper half lies
  between the two upper halves read. No number of the generator is printed twice:
  while `main` waits, a valid bit can only be that of a number made since NEXT went
  up. And no character of a call that prints is lost or out of order, whoever prints
  meanwhile: the invariant says that what went into the FIFO and what is still to
  come make up the call, and that a hart that has found room is the only one to
  take it. That the characters of a call are those meant is the theorem's hypothesis
  (`Spells`, in `Program`): the conversions are sequential, and TLC evaluates it,
  as an assumption of `MCChip`, for every call run `programs` makes.
  It also holds the proofs about `SmpBoot`: start-up is a behaviour of `Smp`; with
  `WorkInv` (what the two loops have passed is initialised, and nobody is raised
  before both are done) it follows that no program starts before memory is ready
  and that nothing is written after anybody was let go.
- **`FdtReadProofs`**: what the proofs about blobs need to know of the walks of `Fdt`.
  No walk takes an error code for an offset, and an offset returned lies in the
  structure with all that belongs to it (`NextTagOn`, `SkipOn`, `NextNodeOn`,
  `NodeEndOn`, `PropOffsetOn`). The walks are recursive functions that call themselves
  last; that there are such functions, and that what they return is of the kind
  every stop returns, is proved once (`WalkExists`, `WalkEnds`), from a measure that
  gets smaller with every tag, by the least counterexample. `TreeOf` gathers what it
  returns from its calls, so `TreeIs` gives it a meaning without recursion: the
  cursors a walk from the start visits (`Visited`) form a chain, and the tree is what
  each of them says (`MeaningOf`). `Grow` then says what a structure means that has
  one tag more at its end. The second half is about blobs that are in order
  (`Whole`): a cursor is visited for every tag there is; the cursors of a node and of
  all that is in it are those from its begin tag to its end tag (`Closes`); so
  `fdt_node_end_offset_` finds that end (`NodeEndIs`), `fdt_subnode_offset` the child of a
  name and `fdt_get_property` the property of a name, and where they fail there is none.
  `fdt_next_node` comes to the next begin tag with the depth of its path
  (`NextNodeIs`), so `fdt_supernode_atdepth_offset`, which keeps the last node of the
  depth asked for, has the ancestor when it arrives (`SupernodeIs`), and
  `fdt_parent_offset` and `fdt_path_offset` find what they should (`ParentIs`, `PathIs`).
  It ends with what a change of the structure block does to the meaning, whatever
  words give way to whatever others (`Pasted`): what lies before stays, what lies
  behind moves (`Mends`), and what is new says what its own cursors say.
- **`FdtWriterProofs`**: for any names, values, sizes of buffers and order of calls,
  structure and strings never meet, a call that fails changes nothing (but for the
  empty tree, which is made of several calls) and a call runs out of space only when the buffer is full. The inductive invariant
  `SoundBlob` adds to `NeverMeet` what each phase needs: every word of the
  structure is of a kind, so that `fdt_finish` renumbers names and nothing else,
  and while the reserve map is open there is nothing behind it, because
  `fdt_add_reservemap_entry` looks at the end of the buffer only. Each function has
  a lemma of its own (`GrabSafe`, `AddStringSound`, `PropertySafe`, ...): from a sound
  blob it makes a sound one, or fails and leaves what it got. Rests on
  `SwAssumption` (no name longer than the header, below) and on
  `WriterAssumption`. And the blob `fdt_finish` leaves means the tree described
  (`FinishedTreeAlways`). `Describing` says more than that, at every moment: the
  structure written so far, with the strings where they are before they are
  renumbered, is a walk that ends at its edge (`Told`), inside the node that is
  open, and has seen the nodes and the properties described. Every call that
  writes a tag makes that walk one tag longer (`Grow`); an empty tree that ran out of
  room half-way has described nothing; and renumbering the strings changes no
  word a walk reads (`FinishTold`). These are theorems of `FdtWriter`; what `FdtMake` adds
  never changes the blob that was written.
- **`FdtProofs`**: for any delivered blobs, names, values, buffers and offsets and any
  order of operations, the blob of `FdtBlob` stays one, its header and blocks never
  overlap nor leave the buffer, and an operation that fails has changed nothing.
  The inductive invariant is `Sound`: the blob is of words, entries and strings, its
  blocks are apart and its reserve map ends. The operations of `fdt_rw.c` shift
  offsets as if the blocks were in order (`Ordered`); the lemma `InOrder` shows that
  a sound blob which passes the probe `FDT_RW_PROBE` is. Each operation has a lemma
  (`SetPropSafe`, `AddSubnodeSafe`, ...): `Safe`, a sound blob, in order if it was, and
  the same one after a failure. They rest on what the walks return
  (`FdtReadProofs`). Assumed are `FdtAssumption` and `BlobAssumption`.
  And it implements `DeviceTree`: every change of the blob is one change of the tree
  (`TreeImplemented`), the one the operation is named for, on the node and the property
  it was given (`OpsExactAlways`). The inductive invariant is `TreeInv`: the blob is
  sound, it is `Whole`, and `tree` is what it means. Being sound is not enough: with
  two nodes of one path, or a property behind a child, removing or adding one
  would not be the change its name says, and a blob whose last words no walk reads
  could mean something else after a splice. That the blob stays `Whole` is where
  the code has its reasons: the look-up before an insertion (no second node or
  property of a name), the search for the end of the properties (a new node goes
  behind them), nops written over all of a node. An operation at an offset where
  no node begins, on a name that is not there, or in a blob that fails the probe
  changes nothing (`NoNodeFails`, `DoAt`, `DoRwAt`). In every such blob look-ups find
  what the tree holds (`LookupsExactAlways`).
  With the same lemmas, for `main`: any tree the boot ROM leaves with its blocks
  apart is opened into blocks in order, which stay so, and `fdt_pack`, whose return
  value `main.c:458` ignores, cannot fail (`MainInv`). What it packs is the tree it
  was given, with the bootargs and the timebase-frequency put in, `/chosen` made if
  there was none, and nothing else changed (`CopyIsPatchedAlways`). `CopyInv` says
  section by section what the copy means by then, and that the offset of `/chosen`
  is the node's own where the bootargs are written: `main.c` looks `/cpus` up again
  after that change, and an offset kept over it would be stale. This
  rests on `MainAssumption`. And the divisor `main` sets for the
  UART is the smallest that keeps it within any rate, for every clock whose sum
  with the rate fits an unsigned long.

Only model-checked:

- all liveness, and that an implementation may always go on: the provers have
  neither fairness nor ENABLED;
- `ReadsExact` and `StopsForCause` of `BootMain`. They do not hold for all values of
  the constants: with an address that no range of a bus maps, or one whose sum
  wraps around, `main` reads something else or gives up (`boot_unmapped` is the
  first of these). They are statements about the trees of run `boot`,
  whose buses map the addresses below them;
- all `FdtMake` says of overlays, paths and lists: `FdtOverlay` walks trees with
  RECURSIVE operators, which the provers cannot use. With it the reading of an
  unfinished blob (`UnfinishedTree`);
- that `Boot`, `Chip` and `Drivers` leave alone what they compose, beyond what their
  runs check of it;
- what the conversions of `Kprintf` print, which is induction over digits.

## 6. Observations

Met while modelling, without a run of their own:

- `smp_pause` does not make other harts stop what they do: it sends only those
  that reach it to sleep (`smp.h:29-36`).
- A write that is not acknowledged sends no STOP, and neither does a call with
  no bytes that asks for one (`driver.c:159`, `178`).
- On a 32-bit hart the timer handler writes only the low half of `mtimecmp`
  (`main.c:65-67`), which does not clear the interrupt once `mtime` is past 2^32.
- `fdt_rw.c:353` calls a check one that never fails; it does for parent offset -1,
  the value of a failed look-up.
- `fdt_sw.c:258`: for a name longer than all of the buffer in front of the strings the
  test for room wraps around; the model assumes that no name is longer than the
  header (`SwAssumption`).
- `fdt_addresses.c:76`: `UINT32_MAX + 1` is zero in 32 bits, so with one cell for
  addresses the address 0 is refused with any size but 0, which is not what
  `libfdt.h:1973` says, and no end of a range is. `AppendPropAddrRange` does so;
  `ValuesRead` is asked of the other addresses.
- `fdt_stringlist_contains` compares one character more than it should look at: it
  may find an empty string behind the list, or take a last one without its NUL
  for ended. `StringlistContains` does so; `ValuesRead` asks for strings that are
  not empty in lists that end with a NUL.
- `fdt_translate_address` takes the cells of the bus above for as many as the bus's
  own, and looks at the first entry of `ranges` only (`main.c:114-150`): a tree in which
  they differ, or which needs a second entry, is read wrong. The trees of run
  `boot` have one entry and equal cells, as those of the generator of such chips.
- An overlay may set a new phandle on a node of the base tree; nothing corrects
  the references that meant it (`Renumbered` is the exception of `RefsResolve`).
- `kprintf` negates the lowest long, which C leaves undefined; an int that is as
  wide as a long has that number too (`Printable`).
- `trng_setup` has no return statement for success (`trng.c:57`): `main` compares
  whatever is left in the register, and may report a set-up that went well as an
  error. The model lets it be any value.

## 7. Not modelled, and why

- Stores that reach memory or the CLINT late (no store buffers); the caches.
- A string found as the tail of a longer one (`fdt_find_string_`): strings are whole
  words, found or not.
- Two error returns and a read that blobs and overlays in order do not reach: that
  of the tag walk of `fdt_finish` (`fdt_sw.c:373-374`), whose structure the writer has
  made, and the copy of a value in front of the test of its length
  (`fdt_overlay.c:266`). Where the code takes a string back off the blob after a
  failure (`fdt_rw.c:222-226`, `fdt_sw.c:312-316`) the model returns the blob it had:
  nothing else has changed by then.
- The bytes of overlapping buffers in `fdt_open_into`; its size checks are there.
- In libfdt: header versions before the last, aliases, messages; the characters of
  paths and fixups in overlays; overlays no compiler delivers.
- `handle_m_timer_interrupt`: `main` turns its interrupt off and nothing turns it on.
  `uart_getc` and `remove_from_dtb`, which nothing calls.
- The C library, by whose promises the models use it (plan, section 2).
- Exceptions, which all end in `boot_fail`; `abort` and `exit` of `start.S`.
- The delay in `trng_setup`, which only the generator could tell; the messages of
  the TRNG driver and of `main` after a failure are one.
- The bytes the I2C driver sends and receives; what disabling the controller to
  set a rate does to a command in progress.
- The wording of messages, register maps and the build, whose values are the
  constants of the models; the demo application, a host program.
