# A verification of the Valeo kernel in TLA+

Valeo is a small kernel for one x86 processor, in C and assembly: it starts
from a multiboot loader, builds its page tables and heap, takes over interrupts
and the timer, and then idles, ready for drivers. The modules here model its
logic, TLC checks them on small instances, and TLAPS proves the invariants of the
page manager, the heap, interrupts, timers, the console, memory initialisation, the
library (areas, strings, numbers, printing, scanning, the command line) and the descriptor tables, and that the page manager and the
heap implement their abstract specifications, for all parameters. Paths below are relative to the repository.

## 1. The system

| Part | State | Operations | Hard behaviour |
|---|---|---|---|
| Boot code, `src/boot.S` | first page tables, stack, interrupt entries | `multiboot`, `halt`, `IRQ_00`..`IRQ_0F` | what it leaves mapped while `MM_Init` runs |
| Memory initialisation, `src/mm.c` | memory map, counts, free page stack (FPS) | `MM_Init`, the calls that take the memory manager's lock | holes, odd ends, rounding, frames that are already in use |
| Page manager, `src/mm_page.c` | page directory, page tables, FPS and its index, the processor's TLB | `MM_Page_GetFree`, `MM_GetPTAddress`, `MM_GetPTValue`, `MM_Page_Map`, `MM_Page_MapZeroFill`, `MM_Page_Unmap`, `MM_Page_Allocate`, `MM_Page_Free`, `MM_Page_AddFree` | faults in the middle of a walk, table crossings, stale translations, memory running out |
| Page faults, `src/arch/x86/exception.c` | none of its own | `Exception_Page` allocates for zero-fill and heap pages | comes between any two pages of a walk |
| Heap, `src/mm_allocator.c` | lists of free regions and of blocks, kept in the heap's own words | `MM_AllocInit`, `MM_Alloc`, `MM_Free`, `MM_Expand`, `MM_Coalesce` | orders of freeing, exact fits, wrong pointers |
| Interrupts, `src/interrupt.c` | a list of handlers per interrupt, a lock | `Interrupt_Init`, `_AttachHandler`, `_Handle`, `_EnableIRQ` | interrupts between any two steps of a driver, deadlock on one processor |
| Locks, `include/locking.h`, `include/arch/x86/atomic.h` | one word each, no-ops before `g_bKernelInitDone` | `Lock_Lock`, `Lock_Unlock` | a spin that never ends |
| Controllers, `src/arch/x86/8259a.c` | `l_nPICMask`; the two chips | `PIC_Init`, `PIC_EnableIRQ`, `PIC_DisableIRQ`, `PIC_MaskAndAcknowledge` | mask in memory against mask in the chips, order of mask and end of interrupt |
| Timers, `src/timer.c` | list of timers with the ticks they have left, a lock | `Timer_Init`, `Timer_AttachTimerHandler`, `Timer_Handler` | off by one at the reload, a tick while a timer is attached |
| Console, `src/arch/x86/textmodevideo.c` | frame buffer, position, colour | `_Init`, `_Cls`, `_WriteChar`, `_DeleteChar`, `_PostMMInit` | wrapping and scrolling in the last cell |
| Log, `src/syslog.c` | quiet mode | `Syslog_Entry` | padding by an unsigned difference |
| `Kernel_Main`, `src/kernel-main.c` | order of initialisation, parameters | `Kernel_Main`, `Kernel_ParseParameters` | what is already initialised when |
| Library, `src/lib`, `include/lib/string.h` | none of its own: the caller's buffers | string and memory operations, `strtol`, `strtoul`, `vsnprintf`, `vsscanf` | overlapping areas, the end of a buffer, the end of a text, numbers that wrap around |
| Descriptor tables, `src/arch/x86/descriptor.c` | `l_sGDT`, `l_sIDT` | setters of a base, a limit, the access bits, a gate | fields that share parts of two settings |
| Interval timer `8254.c`, CMOS, process and resource stubs | none | port writes | none |

How they interact: `Kernel_Main` initialises the parts in order and then runs
as the one thread. Drivers (external to the repository) would call the
allocator, attach handlers and timers and enable interrupts from it. The
hardware interrupts that thread between any two instructions once `sti` has
run: `Interrupt_Handle` calls the handlers of that line, `Timer_Handler` among
them, with further interrupts off. Any touch of a page that has no translation
enters `Exception_Page`, from the thread or from a handler, and that may take a
frame, a page table and change the TLB while a walk of the page manager stands
still. Heap pages only get frames this way. Fatal errors of the memory manager are
logged under the log's lock, with interrupts as the caller left them, and so are interrupts
that nobody handles.

`PROJECT.json` lists for each part what is modelled, and under `hazards` the
places where something can go wrong that a test would hardly reach, with the
property that would catch it. Those that no caller in the repository can meet
are under 6.

## 2. The modules

### PageManager: page tables, free page stack, TLB, page faults

`mm` is the page state in `g_sKernel`: `pd` (page directory), `pte` (entries),
`fps`/`idx` (the free page stack), `halt`. `dropped` is history: frames whose last mapping was overwritten. `tlb` is what the processor caches. `op` holds the locals of the walk
in progress.

The four calls over a run of pages have the same shape in the code, and here:
`Begin` looks up the first page table, `Turn` is one turn of the loop (with
`AtTable` for "Check we haven't moved to a new page table entry"), and `Finish`
is `ReloadCR3`. Between these steps `Touch` (the processor caches a
translation) and `Exception_Page` may run. `Exception_Page` itself is one step,
because it comes through an interrupt gate. `GetPT` stores the new table in the
directory and clears it in one step; the moment between the two is not visible. Frames are numbers by their first place on the FPS, and contents of
a frame before it is cleared are `Junk`, an entry that looks alive.

- `FramesPartition`: each frame of the pool is exactly one of free, a page
  table, the frame of one mapped page, or dropped by an unmap.
- `NoStaleTranslation`: a cached translation is the page table's, except on the
  pages that a walk has already changed and will flush at its end.
- `TableBacked`: an entry is only written in a table that exists.
- `FramesOwned`: the page manager implements the abstract `FramePool`, below.

### FramePool: the promise of the page manager

Four sets: frames that are free, page tables, mapped, or lost. A frame becomes a
table or goes to a page only from the free ones (`TakeTable`, `TakePage`, and `TakeBoth`
for a fault that needs the two), a table stays one for ever, and the frame of a page is
given back or lost, never handed to another page. `PageManager` maps these sets to
the slots of the FPS, the page directory, the entries and the history of dropped frames.
Each step of a walk, and each fault in the middle of one, is one of these steps or
changes no set.

### HeapAllocator and HeapSpec: the kernel heap

Headers of blocks and of free regions are words of the heap, and lists are
followed through those words, as in the code. Each turn of a loop is one step: `Fit*` (`MM_Alloc`), `Find*`
and `Order*` (`MM_Free`, `MM_Expand`), `Merge*` (`MM_Coalesce`). Clients free
and expand any pointer at all, live or not.
`live` (blocks that clients hold) and `damage` (the first harm done to the
lists) are history. Two errors of the code, below, do such harm. The properties of the
list structure hold up to the first harm. In the code a spilled header makes the
words of the heap meaningless, so nothing is modelled after it.

- `HeapTiled`: each word is in exactly one live block or free region.
- `FreeListSound`: regions in descending order, none touching the next, the
  head above each live block. This last fact is why the missing NULL test at
  `src/mm_allocator.c:169` does no harm.
- `LiveBlocksListed`, `InvalidFreeHalts`: the list of allocations tells live
  pointers from all others.
- `SpillsOnlyWithoutRoom`: finding 3 is the only way a block comes to reach into
  what is not its own. With room for the header behind it no order of calls does it.
- `CallReturns`: each call comes to its end.

`HeapSpec` is the promise to clients: a block lies in the heap and overlaps no
live one. `HeapAllocator` implements it (`KeepsPromise`, by mapping `live` and
the heap's words) in each step up to the first harm to the lists, in any order of
calls.

### PIC and Interrupts

`PIC` is the driver of the two 8259A chips as operators on a record of
`l_nPICMask` and the chips, with a byte as the set of its bits. The chips
(initialisation words, mask, request and service registers, priority, cascade)
are modelled from how they are programmed; they are marked external.

`Interrupts` puts a thread and an interrupt on one processor. The thread goes
through `PIC_Init`, `Timer_Init`, `g_bKernelInitDone` and `sti`, and then makes
the calls drivers make, one statement at a time: `Attach*` are the steps of
`Interrupt_AttachHandler`, with the interrupt lock, `cli`, the memory manager's
lock and `sti` in the code's order. Any call to the memory manager may end in a fatal error:
`Fatal`, `FatalLock`, `FatalUnlock` and `Halt` are its log entry under the log's lock, and `halt()`.
Drivers may enable and disable any line of `Devices` and line 2, the cascade: an interrupt of
the slave gets through only when both its line and the cascade are enabled, and is ended
at both chips. `TakeInterrupt` may come between any two steps of the thread
while `iflag` is set. The `Handle*`, `Call*`, `Timer*`, `NoHandler*` and `Unhandled*` actions are the
steps of `Interrupt_Handle` with `Timer_Handler` and its log entries inside. Each call to the
controllers is one step.

- `ListsNotTorn`: no list is walked while the interrupted thread is changing it, and no
  entry is logged in the middle of the thread's.
- `LocksAccounted`: each of the four locks is set exactly while its holder is inside.
- `ServedOutsideController`: while handlers run, their interrupt is masked, and nothing is in
  service at either chip.
- `MaskAgrees`: the chips mask what `l_nPICMask` says, once interrupts are on. The
  slave, whose mask is first written when one of its interrupts is changed, may
  mask nothing before that.
- `ServiceEnds`: an interrupt that got past the first lock comes to the end of
  its handlers, unless it comes to the timer's lock or the log's while the thread
  it interrupted holds that.

### Timer

The list of timers, with a tick as one step (the lock is in `Interrupts`).
`FiresOnTime` counts with history variables: a timer with a time-out of n is called once in
each n ticks since it was attached, one without a time-out on each tick.

### MemoryInit

`MM_Init` over a memory map: one step per entry to count, one per page to fill.
Addresses count units of 256 bytes, because the code scales the high halves of
64-bit values by 256 (`<< 8`). `StackIsFreeRAM` says the FPS and what was taken
from it are exactly the whole pages of RAM but those in use, each once.
`StackFits` says that filling never passes the pages mapped for it.
`IdentityTableKept` says the table that the page directory still uses, though it is on
the FPS, is not handed out while it is used.

Maps are any that the module assumes, and what it assumes is about the boot loader, not
the code. `MapsAssumption`: entries with usable RAM do not overlap and lie below 4 GB, as a
boot loader reports them; above, `MM_Init` halts or folds the address (see 4).
`ReachAssumption`: the RAM around the table goes on for two pages after it, and the FPS is behind
them. The loader puts the kernel at 1 MB, in one piece of RAM with these pages, or there is no
kernel to run.

### Console

The frame buffer, cell by cell, with `Syslog_Entry` writing one character at a
time. `ShowsLastRows` compares the screen with the text since it was cleared,
kept as history row by row. `CursorAtRowStart` is about the hardware cursor. The
texts of drivers are any sequences over `Characters`; `\n` and `\r` both start a new row.

### Library: Strings, Numbers, Format, Scan, Parameters, Descriptors

`mem` is a short memory of bytes that the five modules of the library share. Pointers
are addresses in it, and `Library` composes them: one program that copies, joins and
searches strings, prints into a buffer with `snprintf`, reads the text back with
`sscanf`, parses a command line, or sets descriptors.

- `Strings` has the operations of `string.h` as operators from a memory to the memory they leave or
  the value they return, with the loads and stores in the processor's order. That order is what
  distinguishes `memmove` from `memcpy`. The variants `by4`, `by2` and `g` are chosen by
  the count as the macros do. `strncat` and `strncmp` test their count as a signed word (`Rounds`), the
  others as an unsigned one.
- `Numbers` has `strtoul` and `strtol` modulo a small `Word`, with the code's
  test for overflow. It does not notice every overflow. As in `Scan`, the loop over digits is a function of the place and then of
  the value so far, up to the NUL.
- `Format` is `vsnprintf`: a step takes an item of the format, with `number`, `do_div` and the
  arguments cut to their type, or puts one character (`Put`), with the test for the end of the buffer. The pointer
  is an address: behind the last one it is 0 again, below any end, and the code writes there. A
  string is measured when its turn comes, and each character read when it is put.
- `Scan` is `sscanf`, one item per step, always one character ahead of what it has used. In the floating point
  directives the text of a number, without its sign as in the code, stands for the value.
- `Parameters` is `Kernel_ParseParameters`, one word of the command line per step.
- `Descriptors` has the setters of `descriptor.c`, over entries whose fields are digits of a small
  base, and what the processor reads of an entry.

Formats are sequences of parsed items, `Items` for `vsnprintf` and `ScanItems` for `sscanf`: a conversion with
the flags, width, precision and qualifier that parsing can leave. The characters of a directive are abstracted,
except where `sscanf` tests for the end of the text on each. The loop over digits in `Scan` is a function of the place and
then of the value so far; its places end one behind the NUL, where the test for the end of the text always stops it.

- `CopiesExactly`, `StringsJoined`: the bytes that were asked for, terminated, and
  no other byte changed, for each count, place and variant.
- `SearchesAgree`: comparisons and searches against their definition on sequences.
- `BufferKept`, `TextTruncated`: `snprintf` writes in its buffer only, at each
  moment, for each size including 0 and one that wraps around. What fits is there and ended
  by a NUL, and the result is the full length. Both are about texts that have not reached the end of
  the memory (`InMemory`). Longer ones are in the runs, and the model writes them from address 0 on
  as the code does.
- `FieldFilled`: a width only adds blanks or zeros, as many as fill the field.
- `RoundTrip`: `sscanf` reads what `snprintf` wrote as the same values.
- `ReadsInText`: `sscanf` never fetches a byte behind the NUL, but for two cases that it names: a
  character 255 in the format, and a floating point directive with a text that ends in the letter of an
  exponent (see 4).
- `NumbersConverted`: digits of a number, with blanks, sign, prefix and zeros before
  and something else behind, convert to it, and the pointer is left behind them. It is about
  the texts that fit in the memory.
- `QuietAsked`: quiet mode is on exactly if a word of the command line after the first begins with
  "quiet".
- `DescriptorsRead`: whatever order the setters are called in, on one entry or on several, the processor
  finds base, access and handler as they were last set, and a limit that is the one asked for, or the end
  of the page of 4 KB in which it lies. `wanted` keeps, as history, what each entry was last asked to be.

The assumptions are about the callers, in each case what a call of the function in C requires.

- `LibraryAssumption`: addresses and limits are words of 32 bits, since the setters
  take `unsigned int`; the areas of `memcpy`, `memmove` and `memset` lie in the memory. That
  two areas of `memcpy` overlap only downwards is a guard of `Memcpy`: the one overlapping call
  in the repository is the scroll of the console.
- `PrintAssumption`: memory goes from 0 to its last address and holds bytes, the size of a buffer is a word, the buffer does not begin at 0 (the NULL of the code); a format has
  an argument for each of its directives, and a string among the arguments is ended by a NUL outside the buffer (an argument inside it would be
  overwritten while it is read). When a text has gone round the end of the memory and overwritten the end of a
  string, the call is not followed further. `PointerBytes`, the size of a pointer in bytes, gives `%p` its width.
- `TextAssumption`: strings are ended, and behind each there is room for another one and for a count, which
  `strcat` and `strncpy` leave to their callers.
- `CommandAssumption`: the command line is ended, as the boot loader must, and "quiet" is a literal of five characters.
- `ScanAssumption`: texts for `sscanf` are ended.

## 3. The runs

| Run | Bounds | Shows |
|---|---|---|
| `PageSafety` | 2 tables of 2 entries, pool of 3 frames, 2 device frames, runs of 0 to 2 pages | the properties of PageManager, and that it implements `FramePool` |
| `PageFree` | pool of 2, 1 device frame | finding 1 |
| `HeapAnyOrder` | 15 words, blocks of 3 and 4 words, any pointer freed or expanded | the list properties, the cause of a spill, `CallReturns`, and `HeapSpec` is implemented up to the first harm |
| `HeapRelink`, `HeapSpill` | 18 words | findings 2 and 3 |
| `IrqSafety` | lines 0 (timer), 1 and 8 (slave), and the cascade, 2 handlers on each, 1 timer, fatal errors | the properties of Interrupts |
| `IrqReturns` | line 0 | finding 4 |
| `PicInit` | lines 0, 1, 8 | finding 5 |
| `TimerTicks` | 3 timers, time-outs 0 to 3, 7 ticks | `FiresOnTime` |
| `MemInit` | 48 pages; 17 maps from a memory that ends with the FPS to one that needs three pages for it, 4 with other shapes | the FPS is right |
| `ConsoleText` | 4 columns, 2 rows, 5 rows of text | the screen is right |
| `Library` | 28 bytes, `Word` 256, `Short` 16, counts up to 7 and `LongCounts` (128, 129 and 255, around the sign of a word), texts that go round the end of the memory, formats of up to 5 items, descriptors with digits of two bits | the properties of Library |

Why these bounds are enough. Two tables of two entries and runs of two give
each position of a run against a table's end: inside, up to it, over it. The runs
of no page matter, because they look up a table all the same. Three frames let
memory run out at a table, at a page, and in a fault between the two. The second table
is half heap, half not. The heap has room for three blocks below a free
region, so that regions merge at the head, in the middle and at the end of the
free list, and a merged hole is split again. Line 0 goes through
the timer's lock, line 1 does not, and line 8 comes through the cascade, which
drivers open and close; two handlers on a line
are the least that pass an interrupt on. Without a handler on a line, or with none that handles
the interrupt, its service takes the log's lock, which a fatal error of the thread may hold. Seven ticks are two reloads of the
longest time-out. The memory maps cross the size where the FPS needs one more page in
both directions, with whole pages and halves. Five rows on a
screen of two scroll three times. Counts up to 7 leave each remainder of a move by
words, at each distance of two overlapping areas. Buffers of 0, 1, 4, 23 and 27
bytes at address 4 of 28 are: none, room for the NUL only, shorter than most texts, up to the
last byte but one of the memory, and one whose end wraps around. `MC_Long` has texts of a
number, a character, a string and a count that end before the end of the memory, on it and
behind it. The widths and precisions
are below and above the lengths of the numbers, and an 8-bit word has a least and a largest
number, and products that wrap around, within three digits. The texts read are all of up to three
pieces out of blanks, signs, prefixes, digits and letters. Limits of descriptors lie at the
largest that counts bytes, one more, inside a page and at the end of the address space.
Two selectors or one make no difference to the arithmetic, but two share the table.

Deadlock is not checked where `halt()` or a spinning lock really stops the
system, or where a bound ends the run; each `.cfg` says so.

Fairness. `HeapAllocator`: a call goes on to its
end, as nothing else runs in the allocator. `Interrupts`: the processor
executes its current context, thread or interrupt. No device is assumed to
raise anything, and no driver to call anything.

## 4. Where code and comments disagree

Each of these is a run that TLC ends with a counterexample.

1. `src/mm_page.c:247`: `MM_Page_Free` tests the low twelve bits of the whole
   entry, flags included, so it halts on each present page.
2. `src/mm_allocator.c:248`: a merge of the first two regions that `MM_Coalesce`
   looks at does not relink the region before them when they are not at the head
   of the list. The absorbed region stays on the list.
3. `src/mm_allocator.c:74`: a region that fits exactly leaves no room for the
   free header, which is then written on the next block or region.
4. `src/interrupt.c:179`: at "Release" the code locks again. The first interrupt
   after initialisation never returns.
5. `src/arch/x86/8259a.c:50`: the last two `outb` of `PIC_Init` have port and
   value swapped, so the chips mask nothing.

Read in the code while modelling, present in the models, and without a run:

- `Interrupt_AttachHandler` takes its lock two statements before `cli`
  (`src/interrupt.c:185`): an interrupt in between waits forever.
- Enabling a line of the slave does not unmask the cascade
  (`src/arch/x86/8259a.c:59`); a driver has to enable line 2 itself.
- An interrupt that comes while the thread logs a fatal error waits forever for the
  log's lock if it has no handler or none handles it (`src/interrupt.c:150`, `:169`).
- Memory at 4 GB is folded to address 0x100 and halts the system as not on a
  page boundary (`src/mm.c:74`).
- The table of the identity mapping is on the FPS while in use
  (`src/mm.c:148`); `IdentityTableKept` holds because the last frames of the stack
  are handed out first.
- The number of free pages in the log is one too few (`src/kernel-main.c:91`).
- `strtol`, `strtoul`: the test `w < v` (`src/lib/strtol.c:73`) misses some products
  that wrapped around, and `sscanf` has the same test.
- `sscanf`: with a width, `%i` and `%u` read no digits, because the base stays 0
  (`src/lib/scanf.c`), and without one a leading zero makes `%u` octal. A
  character 255 of the format matches the end of the text, and reading goes on behind it
  (`src/lib/scanf.c:387`). `ReadsInText` excludes such formats by name.
- `sscanf`, floating point: the sign is read and forgotten (`src/lib/scanf.c:214`). An exponent needs a sign, and
  without one the value is 0. If the text ends behind the letter of an exponent, that end is not put
  back (`src/lib/scanf.c:243`): `sscanf("1e", "%f%s", ..)` fetches behind the NUL.
- `vsnprintf`: a text that reaches the last address is written from address 0 on, whatever the
  size of the buffer (`src/lib/printf.c:177`).
- `strncat` and `strncmp` take a count above 2^31 for one that is used up: nothing is
  appended, and all strings are equal (`include/lib/string.h:94`, `:135`).
- `Exception_*` for vectors 1, 6, 8 and 12 log that they halt, and return.
- `PIT_Init` writes the counts for counter 1 to the port of counter 2
  (`src/arch/x86/8254.c`); not in a model.
- The `InvalidatePage` after an allocation names the pointer's own stack slot
  (`include/arch/x86/processor.h:31`). `NoStaleTranslation` holds all the
  same, because each walk ends with a full flush.

## 5. What is proved

All theorems are about the modules that TLC runs, with the constants left open
under the named `ASSUME` of the module.

`PageManager_proofs` proves `TypeCorrect`, `FramesPartitioned`,
`TranslationsFresh` and `EntriesBacked` (the four properties of
`PageSafety`) for any number of tables, entries, frames, heap pages and pages
in a run. The inductive invariant is

    IInv == Good(mm) /\ TLBType /\ WalkInBounds /\ TableReady /\ NoStaleTranslation

`FramesPartition` speaks of sets of frames and is not inductive in that form.
`Good` says the same frame by frame (`StackUse`, `TableUse`, `PageUse`,
`Used`), so that an update of one slot of the stack, one directory entry or one
page entry can be followed. `WalkInBounds` bounds the walk by the pages, and
`TableReady` says that a walk with pages left has its table, or stands at a crossing where `AtTable`
will look it up; without them a turn might write where there is no table.
One lemma per helper (`GetPTGood`, `SetEntryGood`, `AllocateGood`,
`FreeEntryGood`) carries `Good` through it, one per action carries `IInv`,
and `PageArithmetic` has the facts on division that a crossing needs.

The same module proves `ImplementsFramePool` for the same constants: every behaviour
of the page manager is one of `FramePool` under the mapping. It rests on `IInv`. `UsesByFrame`
turns the four sets into four predicates of a frame (`OnStack`, `AsTable`, `AsPage`, and dropped),
one lemma per helper says for which frames it changes them (`TopTaken`, `GetPTUses`,
`SetEntryUses`, `AllocateUses`), `StepSimulated` turns such a change into the
step of the pool, and the lemmas per action follow (`WalkUses`, `FaultUses`, and
`NextSimulated` for all). The point of difficulty is a turn of a walk that makes a table and writes
an entry at once. `TurnUses` shows the new table maps nothing, so no frame is lost in the
same step; a fault may take two frames, and `FaultUses` needs that the second is not
the first.

`Timer_proofs` proves `TypeCorrect` and `TimersOnTime` for any time-outs and any
number of timers. `FiresOnTime` is strengthened to `Accounted`: the calls so
far times the time-out, plus the ticks counted down since the last one, are the
ticks seen. `Quotient` turns that into the division.

`HeapAllocator_proofs` proves `TypeCorrect`, `NothingLost`, `ListInOrder`, `BlocksOnList`,
`LookupsDecided`, `SpillsLackRoom` and `PromiseKept` for a heap of any size, any requests and any
pointers. The lists are what a recursive function finds over the heap's words, and that is
no form to follow an update of a word in. The invariant therefore says it without the
recursion:

    HeapInv == damage = "none" => \E F, key : Sound(mem, F, live, key, freeHead, allocHead, call)

There is a set `F` of free regions, and each entry of the two lists has a key, such that a link
leads to the entry with the next smaller key (`Chain`). For the free list the key is the address, for
the list of allocations some order of age. Regions and blocks fill the heap without overlap
(`Layout`), and regions that touch are only those `MM_Coalesce` has not come to (`Apart`). `Place`
says for each loop where its two pointers are, and what the turns so far have found out: that no
entry passed is the one that is looked for (`Finding`), that the block lies below the regions passed
(`Ordering`). Four lemmas follow a chain through the changes that are made to it (`ChainPush`, `ChainUnlink`,
`ChainInsert`, `ChainReplace`), four the layout (`LayoutKept`, `LayoutFreed`, `LayoutSplit`,
`LayoutMerged`), and one lemma per action carries the whole (`FitTakes`, `FindRemoves`,
`OrderInserts`, `MergeJoins` are the ones that write). `ChainFound` goes back
to what the recursive function finds, by induction on the number of links, and so to
the properties as the runs state them. `RoomForHeader` is the argument of `SpillsLackRoom`. Like the properties,
the invariant ends with the first harm: after finding 2 or 3 a link may
lead anywhere. For `TypeOK` the theorem says so in its statement, and the state after a harm stays with TLC.

`NaturalFacts` has what several of these proofs need of the naturals: two forms of induction, over sets
(`LeastNumber`, `SetInduction`), since one over predicates cannot be cited, and the facts on
quotient and remainder of which the provers know nothing for a divisor that is not a literal (`Division`,
`DivUnique`, `ModUnique`).

`Interrupts_proofs` proves the four properties of `IrqSafety` and its types for any drivers, devices
and bounds. The inductive invariant is

    IInv == TypeOK /\ Control /\ Controllers /\ Service /\ LocksAccounted /\ ListsNotTorn

`Control` says where thread and interrupt can be at once: an interrupt stands only on a
statement of the thread that can be interrupted, and the thread of a fatal error stays in the call that found it. `Controllers` says how far the chips are from `PIC_Init` on, and
that the request line of the cascade belongs to no device. `Service` has the point of difficulty, that from
the acknowledgement on nothing is in service and the interrupt is masked. It rests on what the chips
make of each byte: `EOIEndsLevel` (the end of an interrupt names the level), `WritesMask`,
`MaskAndAcknowledgeEnds`, `WordsMakeFresh`, `TakenIsInService`. Two theorems are the reasons for findings
and hold for any drivers: `NeverReturns` (finding 4, no step leaves the interrupt) and
`PICInitUnmasks` (finding 5, `PIC_Init` ends with both chips unmasked, from any state of them).

`Console_proofs` proves `CellInFrameBuffer`, `LastRowsShown` and `CursorOnLastRow` for a screen of any size and
any texts. `TextInv` strengthens `ShowsLastRows` by the place of the position: its column is the
length of the last row, its row is that row's place on the screen (`OnScreen`). `NewRow` is the scroll,
`PutChar` and `TakeBackChar` the two changes of one cell (`OneCellChanged`), and `CellsOfScreen` says that no two
positions are the same cell.

`MemoryInit_proofs` proves `TypeCorrect`, `StackHasRoom`, `FreeMemoryOnStack` and `TableNotTaken` for any memory map of any
length, any page size and layout. Four invariants build on each other. `Control` has the counters' ranges
and that what was handed out is what lies over the index. `Room` compares what was pushed with the
partial sums of the map (`Sums`), the same sums that were counted before, so the fill
cannot pass what the count made room for. `Contents` says the stack has exactly the pages seen so far, each
once; `OwnPages` needs `MapsAssumption` there. `TableDeep` says that two frames at least
lie over that of the identity table when the fill is done, which needs `ReachAssumption`.

`Library_proofs` proves ten properties of the run `Library` and its types, for memories, strings, buffers, formats, texts and
counts of any size. The functions of the library are loops until a NUL, a count or a mismatch, written as
recursive functions. Nothing about such a function can be cited before it is known to exist, and what it gives is by
induction on the distance to where it stops. `SetInduction` does that once: `SeekExists` and `SeekFirst` for searches
that give their own place, `FindsExists` and `FindsFirst` for those that give anything else. The loops of the library are instances.

- *Areas* (`AreasCopied`). A copy is a loop of moves by one, two or four bytes, each of which reads the memory the one before left.
  `LoopUp`, `ChunksUp` and `ChunksDown` follow such a loop: after k moves the bytes moved are
  the old ones, as long as no move overwrites what a later one will read (`MoveUpCopies`,
  `MoveDownCopies`; the second is the direction `memmove` takes when its areas overlap upwards). `Remainders` and
  `RestCopied` join the loop of words and what is left of the count, `MemcpyCopies`, `MemmoveCopies` and
  `MemsetSets` the variants of the macros.
- *Strings* (`StringsEnded`). Counts are any numbers; `strncat` sees those beyond half of a word as 0
  (`Rounds`), and so does `strncmp` below. The four operations are one: a move of k bytes to behind what is kept, and z
  NULs behind that (`Result`). `FitsMove` says that the areas share nothing, so the move reads old
  bytes only; from that the text and its end follow (`StrcpyJoins`, `StrcatJoins`, `StrncpyJoins`, `StrncatJoins`).
- *Comparisons and searches* (`StringsSearched`). A comparison stops where the strings first differ (`Differs`), and
  `OrderFound` says what the order of sequences is then, for each way the strings can end. A NUL differs from all other characters
  and is the least, so the bytes at the end of the shorter string decide it (`StrncmpOrders`). `strrchr` counts down, and is a search from the
  other end. `strstr` stops where `memcmp` of the rest is zero, which is a match (`MemcmpMatches`).
- *Printing* (`BufferRespected`, `TextsTruncated`). `PrintInv` says, between two characters: the text so far and
  the place `str` agree, round the end of the memory too (`Behind`), and `Distance` is what the code counts; as long as
  the text has not reached that end (`Unbroken`), bytes outside the buffer are those of `old`, and what fits of
  the text is in the buffer (`PutPrints`); the items still to come are a suffix of the format, and the arguments left are those that
  `Taken` counts for it. The last part is what makes the next argument one that `PrintAssumption` speaks of: a string that
  ends outside the buffer, so that its end is still there when it is read.
- *Number fields* (`NumbersFilled`). `NumberShape` takes the text of `number` apart: blanks, sign, prefix, zeros, digits, blanks, and says how many
  of each there are; `FieldsFilled` compares the shapes with and without a width, for any number,
  precision and width, the bases of the conversions and flags without the space.
- *Reading numbers* (`NumbersReadBack`). The digits of a number are those of its quotient and one more, and the loop that reads them is in
  the place behind the quotient's digits with the quotient as its value. `DigitsRead` says that for any loop that takes digits in this
  way (`Follows`), by the least number for which it fails. For `strtoul` it remains that the loop is one of those (`TurnAtDigit`): below `Word` no product wraps around,
  so the test for overflow lets all of them pass, and zeros in front too. `UnsignedRead` decides the base in each case
  of `TakenIn`; no digit is an x in base 16, and the first digit of a number other than 0 is no zero.
- *Command line* (`QuietWhenAsked`). `QuietInv`: quiet mode is on exactly if a word up to the current index asked for it, and between words the
  index is at a white space. The step is that `strncmp` with "quiet" is zero exactly if the five characters are there, and that a word that has them has no white space to
  skip over.
- *Scanning* (`TextsBounded`). `ScanInv`: memory does not change; the text ends at the first NUL at or after where it began; unless the
  format has a character 255, or a floating point directive while the text ends in the letter of an exponent, the place is at most one behind that NUL, and not behind it while the loops go on. Each loop
  of `sscanf` reads one character ahead and stops at the -1 that stands for the NUL (`SkipBlanks`, `SkipDigits`, `ScanDigits`, `Span`).
  A floating point number has up to three such loops (`FloatStops`), and puts a character back only
  where the letter of an exponent is not the last of the text. With 255 the argument breaks where
  the code does: `(unsigned char) tpch` makes 255 of the -1.
- *Types* (`LibraryTypes`) need these invariants together: `sscanf` may read what `snprintf` wrote, so memory must be one of bytes, ended, after it.
- *Descriptors* (`DescriptorsReadBack`). `TablesInv` says of each entry that the
  fields put together are what was asked for. `BaseRead`, `HandlerRead` and `LimitRead` are the arithmetic of
  splitting and joining; for a limit, that the granularity bit can be told from the four bits of the limit beside
  it (`LimitHighRead`) and that a limit in pages fits in 20 bits (`TwentyBits`).

Only model-checked:

- All liveness (`CallReturns`, `ServiceEnds`), which TLAPS does not reach.
- What the heap is after its first harm, and the properties that are expected to fail, each by
  a counterexample.
- `RoundTrip`: that the conversions of `sscanf` invert those of `vsnprintf`. It relates two calls item by item through the text
  between them; `DigitsRead` is the part of it that is about numbers.
- What a number converts to that does not fit in a word. `NumbersConverted` does not speak of it: the code misses some
  overflows (see 4), and the set of numbers for which it notices one has no closed form.

## 6. What is not modelled

- Drivers, devices and the chips, but for what the code relies on.
- CMOS, the interval timer's ports, process and resource
  stubs: no state that another part relies on (`PROJECT.json` has each).
- The values of floating point numbers in `sscanf`, and its character classes, which are not compiled in;
  `memset_gg`, which asks for one register for both its address and its character
  (`include/lib/string.h:502`) and has no caller; `memcpy` and `memset` with a
  constant count of 0, whose loop would run 2^32 times (no caller has one); the classes of `ctype.c` but white space.
- The free page stack beyond the kernel's own page table, which needs almost
  4 GB of memory.
- Widths: sizes in the allocator are not bounded to 32 bits. The callers in the
  repository ask for the sizes of two structures.
- What only callers outside the repository could do: a request of almost 4 GB to `MM_Alloc`
  (`src/mm_allocator.c:64`, the size wraps around), two callers in the allocator at once
  (`src/timer.c:67`), a timer handler that attaches a timer (`src/timer.c:99`), deleting
  at the start of a row (`src/arch/x86/textmodevideo.c:138`), a log name of more than 11
  characters (`src/syslog.c:61`, four billion spaces).
- Memory maps whose entries are not 24 bytes long (`src/mm.c:62`): boot loaders write these.
- `MM_Page_GetFree` and `MM_GetPTAddress` between their instructions (one step each here), and
  the PIC driver between its own.
- Memory maps with usable RAM at or above 4 GB. `MM_Init` in the model has the code's sums with the high halves
  (`src/mm.c:74`), but no property is about such maps.
- What the initialisation logs before interrupts are on, in `Interrupts`.
- The texts of log entries in `Console`. Messages are what `vsnprintf` made, and `Format` is where
  that is checked.

## 7. Plan

What is left, in order of what it would add:

1. Proofs: `RoundTrip`, by an invariant of `sscanf` that says which piece of the text each item of the format
   wrote, from `NumberShape` and `DigitsRead`.
2. `HeapAllocator` with callers that hold the memory manager's lock and callers that do
   not (`src/timer.c:67`), once the repository has a second caller.
3. `MM_Page_GetFree` and the PIC driver instruction by instruction, with a handler in between,
   once interrupts return to the thread (finding 4).
