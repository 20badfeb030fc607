# systemcommander in TLA+

systemcommander is an x86-64 kernel in C. It is started by the Limine boot
protocol, reads a disk through AHCI, mounts the partitions it knows as ext2 or
FAT32, loads one ELF program from `/bin` and runs it in ring 3, where the program
comes back through `syscall`. This directory holds TLA+ modules of its components, the
TLC configurations that check them on small instances, and TLAPS proofs of the
theorems that matter most so far. Paths below are relative to `src/src` of the
repository, unless they begin with `src/`.

## 1. The system

### 1.1 Components

| Component | State it keeps | Operations | Used by |
|---|---|---|---|
| Physical page allocator: `memory/phys_allocator.c`, `utils/bitmap.c`, `memory/memory.c` | bitmap of pages, three counters, `initialized` | `read_memory_map`, `request_page(s)`, `free_page(s)`, lock and reserve | paging, heap, AHCI, ELF loader, entry |
| Paging: `memory/page_map.c` | four-level tables in granted pages, the processor's cache of translations | `map_virtual_memory` | heap, AHCI, ELF loader, PCI, entry |
| Kernel heap: `memory/heap.c` | doubly linked segment list, `last_segment`, `heap_end` | `heap_init`, `malloc`, `free`, `expand_heap` | all drivers and file systems |
| AHCI driver: `drivers/ahci.c` | ports, command list, FIS area, command tables; the controller's registers | probe and configure ports, `ahci_read(_virt)`, `ahci_write(_virt)` | GPT |
| GPT partitions: `fs/partitions/gpt.c` | register of partitions | `is_gpt`, `gpt_register_partition`, `gpt_read_partition`, `gpt_write_partition_offset` | ext2, FAT32, entry |
| File system switch: `fs/fs.c` | table of mountpoints, their handlers; paths | `create_path`, `mount`, `unmount`, `fopen`, `fread`, `fwrite`, `fclose`, `fstat` | entry, ELF loader |
| ext2: `fs/ext2.c` | superblock per mountpoint, inode per file, seek position | mount, open, read, read directory, stat, close | file system switch |
| FAT32: `fs/fat.c` | boot sector per mountpoint, directory entry per file | the same, and write | file system switch |
| ELF loader: `programs/elf.c` | the program's pages and table entries | `elf_load` | entry |
| System calls, user mode: `cpu/syscalls`, `cpu/ring3.asm`, `cpu/gdt.c` | STAR, LSTAR, FMASK, `user_rsp_saved`, the kernel stack | `init_syscalls`, `jump_usermode`, `syscall_entry`, `syscall_handler` | the program |
| Boot: `entry/entry.c` | chosen driver, port and partition table | `kenter` | the boot loader |
| PCI and ACPI: `drivers/pci.c`, `drivers/acpi.c` | table of drivers | `pci_enumerate`, `acpi_find_table` | boot |
| CPU tables: `cpu/idt.c`, `interrupts.c`, `msr.c`, `ports.c`, `tss.*` | descriptors | written once; handlers print and halt | boot |
| Console, fonts: `console/console.c`, `graphics/` | lines, cursor, pixels | `console_init`, `console_write` | logging |
| Logging, format, panic, serial: `utils/`, `drivers/serial.c` | log mode, console | `log`, `logf`, `panic`, `panic_interrupt` | all |

### 1.2 How they interact

`kenter` runs top to bottom: console, `read_memory_map`, GDT, TSS and IDT,
`init_syscalls`, the page map, `heap_init`, ACPI to find the PCI configuration space, PCI
enumeration, which calls the AHCI driver's init for each controller it finds, the first
port with a GPT disk, the partition table, `mount` of the second partition as ext2, `fopen` and
`fread` of `/bin/dash`, `elf_load`, `jump_usermode`. After that the kernel runs only inside
system calls.

- **Calls.** The layers call downwards: file system switch → ext2/FAT32 → GPT →
  AHCI → registers. Handlers of file systems are reached through a table of
  function pointers in the mountpoint.
- **Shared state.** The allocator's bitmap is behind paging, heap, AHCI and the
  loader; the page tables are behind every kernel address; the mount table is
  behind every path.
- **Concurrency.** There is one processor and no interrupt source is enabled: the
  kernel's own code never interleaves with itself. Two actors do run beside it:
  the **AHCI controller**, which fetches commands from memory and moves data while
  the driver polls, and the **user program**, whose registers the kernel must give
  back. The processor's translation cache is a third, quieter one.

### 1.3 What is hard, and what must hold

- *Ownership over long runs.* A page, a heap byte, a table entry has one owner
  through any mix of requests and releases; a slip shows up many calls later.
- *Exhaustion.* NULL is both "out of memory" and page 0's address; most callers
  do not look at it.
- *DMA against polling.* No buffer may go back while the controller can still use it,
  on success, on timeouts and on errors; a call must return.
- *Boundaries.* Whole-page sizes, runs that end past the bitmap, names of 255
  characters, 22-bit and 24-bit fields of the hardware, pointer blocks that are full.
- *Sequences.* Mounts at the same place, unmounts in another order, a file read in
  pieces, an address that is mapped twice.
- *Partial failure.* A read that fails in the middle of a pointer walk, a mount
  that fails after it has taken its place in the table, a write at an offset that reads, patches
  and writes back, a FAT sector that cannot be read.
- *A machine that is not the developer's.* Tables, buses, disks and partitions in other places
  than the ones tried; a log longer than the screen.

`PROJECT.json` lists each hazard at its line with the properties that
would catch it.

## 2. Modules

| Module | Models | Abstract specification |
|---|---|---|
| `PhysAlloc` | page allocator, bitmap, counters | `PageOwnership`, by refinement |
| `Heap` | kernel heap | stated as invariants of the segment list and the callers' blocks |
| `Paging` | page tables | `want`: a function from virtual to physical pages |
| `Ahci` | driver and one port of the controller | `BlockDevice`, by refinement |
| `BlockDevice` | what `ahci_read_virt` and `ahci_write_virt` promise | it is one |
| `GptTable` | header, entries and register of a partition table | |
| `Gpt` | accesses to a partition, the read-modify-write; extends `BlockDevice`, `GptTable` | |
| `Fat` | the FAT32 driver; extends `Gpt` | the volume as it was made: `Follow`, `Files`, `TrueName`, `Reached`, `Place` |
| `Vfs` | mount table and file calls | `Belongs`: the deepest, newest mount above a path |
| `Paths` | `create_path` | `NamesOf`: the k-th name is what stands behind the k-th slash that a name follows |
| `Ext2Data` | reading a file's blocks | blocks 0, 1, 2, … in order |
| `Ext2Dir` | opening and listing | `Lookup`, `Reached`: the tree walked name by name |
| `ElfLoad` | the program loader | the file's segments at their addresses |
| `Syscall` | entry to and return from user mode | the program's own registers (`origin`) |
| `Program` | `ElfLoad`, then `Syscall`, on the same processor | |
| `Console` | log, console, screen | the text the serial port was sent |
| `Pci` | search of the XSDT, walk over buses | |
| `Boot` | `kenter`; extends `Console`, `Pci`, `GptTable` | `Bootable`: the machines that must come up |
| `MC…` | one per checked module: instance values for TLC | |
| `…_proofs` | theorems, checked by TLAPS | |

What composes what: `Fat` runs on the disk that `Ahci` is shown to implement, through `Gpt`. `Boot`
puts the console, the PCI walk and the partition table together and takes of the disk what
`BlockDevice` promises. `Program` is the loader followed by system calls, one state after the other.

Each module begins with a comment that says what its values stand for; the
definitions keep the C names where there is one, and `PROJECT.json` "map" gives the
source lines of each.

### 2.1 State and actions against the code

**PhysAlloc.** `mem.bitmap` is the set of indexes whose bit is 1, `bm_bits` the size
of the bitmap, `slack` the bits behind it that happened to be set, since `bm_get` and
`bm_set` do not look at the size. `ReadMemoryMap` is the whole of `read_memory_map`: choice of the
largest usable entry, the clearing, the locking of the bitmap's own pages, the reservation of
entries and of page 0. `RequestPages(n)` with `n = 1` is `request_page` (its scan is
the scan for a run of one); `FreePages(B)` is
`free_pages` by the owner of a run. The counters are integers of which the C values
are residues modulo 2^64; that they add up is `CountersMatchBitmap`.

**Heap.** `h.seg` maps the address of each reachable header to its fields. `Malloc` is the
entry of `malloc` (rounding), and then one step per segment:
`Take` (split and return), `Advance` (next segment), `Expand` (`expand_heap` and the recursive
call). `Free` is `free` with both combinations. Pages are taken as granted.

**Ahci, BlockDevice.** `hba` has the bits of PxCMD, PxCI, PxTFD and PxIS that the driver touches, `base` and `cmd`
what it wrote for the controller to fetch. Driver: `ProbePort`, `ConfigurePort`,
`StartPort`, `ReadVirt`, `WriteVirt`, `SpinTimeout`, `Prepare`, `Issue`, `PollCi`,
`PollIs`. Controller: `EngineFollows` (CR follows ST), `ReceiveFollows` (FR follows FRE), `BecomeReady`,
`Fetch`, `Transfer` (one sector), `Complete`, `Fail`. A sector's content is the number
of where it came from, so a sector at the wrong place is seen. `FisLba` is the six
bytes as `ahci_read` fills them, with `Radix` values to a byte; `Described` is the count that the
22 bits of the PRDT entry keep (the FIS has 16 bits for sectors, which never say fewer). What a
controller does when the FIS names more sectors than the PRDT has room for is external: it moves those
there is room for, and completes or fails. The refinement mapping
(`diskCall`, `diskAnswer`) takes a call of the abstract disk to last from `ReadVirt` or `WriteVirt` to
`Return`, its place and length what the command says (`SaidStart`, `SaidCount`), its content to be the
caller's buffer, and its answer what `op` holds after it. So a call that the command's fields cannot hold
is a call for another sector or for fewer, which `CommandNames` makes exact.

**Gpt, GptTable, Fat.** A cell of a sector is a boot sector, a FAT entry, a directory entry or a byte of
a file, with its kind; names are lists of parts. A call of the driver is `Open`, `ReadDir`,
`ReadFile`, `WriteFile` or `WriteDirectory`, the loop over clusters `SearchCluster`, `ListCluster`,
`ReadCluster` or `WriteCluster` with `NextCluster` and `ChainRead`, the loop over entries
`Search` and `List`, one step per entry. `gpt_write_partition_offset` is the read in `WriteCluster` and
`PatchCluster`. Every access waits for the disk's answer and may fail, a write after some
sectors; a FAT entry that was not read is any cluster (`AnyCluster`), and behind the buffer of
a full directory cluster lies an end or a junk entry (`EntriesAt`). Of a short name's characters an entry has
what the copying depends on, the lengths of `base` and `extension`: `ReadsWhole` says when
`fat_format_filename` gives the name back.

**Syscall, Program.** `regs` maps register names to named contents. `Pushes`, `Pops` and `Moved` are the
instruction lists of `syscalls.asm` in order; `syscall_handler` may overwrite every scratch
register. SYSCALL, SYSRET and the System V calling convention are external. `Program` takes
`kenter`'s `init_syscalls`, the steps of `elf_load`, its jump and the calls one after the other, with
`ElfLoad`'s memory and `Syscall`'s registers in one state.

**Console.** A message is the list of its lines; `console_write` counts them, scrolls by one row when
they are too many and draws from the cursor on. `outside` says that a glyph was drawn behind the
framebuffer. The framebuffer is taken to be blank at first, since `console_init` does not clear what the boot
loader left there.

**Pci, Boot.** `acpi_find_table` is an operator: tables do not change while it runs. `Boot` has a step per
stage of `kenter` and per iteration of its loops: of `pci_enumerate` one per segment (`NextSegment`, which
takes what is `Visited` there) and one per function (`FunctionEnumerate`), of `ahci_probe_ports` one per
port (`ProbePort`); `AddDriver` is the entry in the table of drivers. A message logged in a step is in `pending` until `Logs`, one step per call of `log`, has sent it to the
screen and the serial port. `Open` is `fopen`: when it finds no file it logs what the driver says of it
(`NotFound`), and `UseFile` is where `kenter` then follows the NULL. The console, a variable of a block that
`kenter` has left, is taken to keep its contents. Undefined behaviour goes to `Wild`, an exception to `Fault`.

**Vfs.** `mounted_filesystems` is the table, `mp` the allocated mountpoints.
`Mount`, `MountFails` and `MountPanics` are the three outcomes of `mount` with the
handlers' mount functions; `Resolve` is one iteration of `resolve_mountpoint`; `Open` strips the
mountpoint and calls the handler. An address may be allocated again after it was freed.
`fault` names what the kernel stops at: the code's own panic, a NULL or a stale mountpoint,
the NULL `dirent` of an ext2 root.

**Paths.** `Separate`, `Collect` and `Finish` are the branches of `create_path`'s loop and its end;
`highest` is the highest index written to in the block that `malloc(255)` returned. The specification is called
`ParseSpec`, as that of `Ext2Dir` is `DirSpec`: one module of proofs extends `Vfs` and `Paths`, another
`Ext2Data` and `Ext2Dir`.

**Ext2Data.** A block is `<<level, k>>`; the walk over `i_block` runs with the same counters as
`ext2_get_inode_data` (`i`, `remaining_blocks`, the loops' indexes), including where it runs over the
end of a pointer block or follows a pointer that is 0 to the first block of the
partition. `ReadFile` … `Finish` is one call of `ext2_read_file`.

**Ext2Dir.** `SearchNext`, `SearchFound`, `SearchEnds` are the iterations and the exits of
`ext2_search_dir`, `OpenInode` and `Failed` the ends of `ext2_open`, `ListNext` and `ListEnds` the
loop of `ext2_read_dir`. A directory has its entries and, behind them, `tail`: the room the buffer has left when
`sectors_used` counts a block of pointers or of attributes. There each record that is read is one of
`Junk`, what malloc's memory held: its name may match, its inode may be of the tree or none (`Stray`, of
which a directory may be made with junk alone), its size may be 0, with which the search is `Endless`. `InodeAt(PlaceOf(number))` is the code's
arithmetic on group descriptors and inode tables, against the disk's layout.

**Paging.** `memory` is what each page holds when it is read as a table, all of it dirt until
the code clears it; `map_virtual_memory` is the whole function, with the tables it makes on the way
down. The specification is called `PagingSpec`, so that one module of proofs can extend `PhysAlloc` and `Paging`.

**ElfLoad.** One step per program header: `Skip` or `LoadSegment` (request, map, clear,
read), then `MapStack` with the loop over `USER_STACK_SIZE` and the jump. Memory holds the
file's bytes by name.

## 3. Runs

Each run answers one question. State counts are of the complete search.

| Run | Question | Properties and what they show |
|---|---|---|
| `phys_alloc` | Does a page have one owner through any requests and releases? (18 thousand states) | `GrantsDisjoint`, `BitmapExact`, `CountersMatchBitmap` on maps with holes, overlaps and dirt behind the bitmap; `ImplementsOwnership`: the refinement of `PageOwnership` |
| `heap` | Does the segment list survive every order of `malloc` and `free`? (136 thousand) | `WellFormed` (tiled and linked), `Coalesced`, `BlocksDisjoint`, `GrowsOnlyWhenFull`, `MallocReturns` |
| `paging` | Does every address lead to the page it was mapped to? (556) | `MapsExactly`, `TablesApart`, on dirty memory that runs out |
| `ahci` | Can driver and controller get in each other's way? (17 thousand) | `DmaOwned` and `CommandStable`: nothing changes under a running command; `ImplementsDisk`: the refinement of `BlockDevice`, so the sectors that the command names, in order, and no others, for calls beyond three bytes of sector number and beyond a PRDT entry, too; `ReadsKeepNothing`; `CallsReturn` |
| `fat` | Does the FAT32 driver read, write and list what is on the volume, whatever the disk fails to do? (237 thousand) | `OpensWhatIsNamed` against `Reached`, `TransfersMatch` against the file's chain, `ListsEntries` against `Files`, in their order, `WritesOnlyTheFile`, `TimestampsArePosix`, `CallsReturn` |
| `vfs` | Which file system does a path belong to after any mounts and unmounts? (678 thousand, symmetric) | `TableExact`; `OpensUnderDeepest` against `Belongs`; `OthersUndisturbed` |
| `paths` | Are strings parsed right, and within their buffers? (7 thousand) | `Parsed` against `NamesOf`; `StaysInBlock` |
| `ext2_data` | Does the walk over block pointers return the file and end inside its buffer? (10 million) | `Sequential`; `StaysInBuffer`, also after failed reads and over junk |
| `ext2_large` | *Violation*: is a file with a doubly indirect block read like others? | `LargeFilesToo` |
| `ext2_dir` | Is what is opened what the path names, and what is listed there? (174 thousand) | `OpensWhatIsNamed` against `Lookup`, both ways, for a name that is not there only where nothing but entries is searched (`LeadsIntoJunk`); `ListsEntries`: the entries in order, and junk only behind all of them and only in a directory with a tail |
| `program` | Does the program find its segments, in its own pages, and its state again after every call? (75 thousand) | `SegmentsLoaded`, `OwnPages`; `ContextKept`, `HandlerCalled` |
| `boot` | Does the kernel come up where it should, with the right partition, and does the screen show why not? (87 thousand) | `BootsIfItCan`, `FromSecondPartition`, `ScreenShowsLog` |

`TypeOK` is kept in `PhysAlloc` and `Heap`, where theorems rest on it. Each property is broken by a faulty
form of one of the definitions (the `Mut…` operators, which stand before what they mutate);
`PROJECT.json` "mutants" pairs them.

### 3.1 Bounds, and why they are enough

- **PhysAlloc.** Seven counted pages, so that the bitmap is one byte with one bit more than
  there are pages; the maps have a hole, a framebuffer above the bitmap, unaligned
  entries that share a page, an entry shorter than a page, two equally large usable entries. `MaxCount = 2`
  has runs next to single pages; `MaxIndex = 10` leaves room for dirt past the
  bitmap that a run may end in.
- **Heap.** Pages of six units of 16 bytes with headers of two. Sizes 5, 40 and 96: one unit,
  one that leaves a remainder too small to split, one whole page, which needs two expansions.
  `MaxEnd` is four pages: up to nine segments.
- **Ahci.** Two sectors to a page, transfers of 0, 1 and 3 sectors (none, part of a page, a page and
  a half) and of 4, nine pages, of which the port takes four and two writes of three sectors use up the rest, so
  requests also fail. `Radix = 2` and a disk of ten: calls begin at sectors 0, 1 and 8, and 8 needs a fourth
  byte (section 5, item 4). `PrdtSectors = 3`, so of a call for four sectors one is left (item 29).
- **Program.** Two addresses to a page, segments of up to three: empty, part of a page, one
  page, more than one; pages left in one piece, scattered or scarce. Two contents tell the registers
  of one call from those of another, 60 is the call that ends the program.
- **Fat.** Four volumes of five clusters of two sectors of two cells, one sector into the disk: so a
  directory cluster has four entries and is soon full, and a file of six bytes ends inside its second
  cluster. Between them the roots have deleted entries, a label with a file's name, a long name,
  one that the end of a cluster cuts off, extensions behind six characters and behind seven, one with an attribute, and a directory with
  `.`, `..` and a deleted entry. `PastBound = 1` entry is read behind a full cluster;
  `Sizes` are inside the first and the second cluster. No call begins after a write that missed
  a FAT sector (`Begins`): it may have written anywhere.
- **Boot.** 4032 machines, each combination of: six XSDTs (MCFG third, first, third behind
  a table alike, absent, fifth without and with a size that matches), seven sets of functions, twelve
  sets of ports, with and without framebuffer and clean memory. Five rows and two drivers, so
  that the screen scrolls and the table of drivers overflows.
- **Vfs.** Three mountpoints at a time, so that an unmount in the middle moves another one; two
  names and depth two give mounts inside mounts and paths that are shorter than
  a mountpoint. `Symmetric` permutes addresses and names, which no definition
  tells apart. One open file: files do not meet in the code.
- **Paths.** Names of three characters, a block of four: strings of six go past both. `PathsAssumption` has
  `MAX_NAME`, 255 in the code, no multiple of `ALIGN`, 16 there, which is where the terminating zero fits.
- **Ext2Data.** Two direct pointers, two to a block: nine blocks reach the triply indirect
  level. Contents depend on the levels and on where a block ends, not on how many
  pointers there are in between.
- **Ext2Dir.** Names `a`, `ab`, `.`, `..`, `.a` begin one another in all ways; inode 300 is in a
  group whose descriptor is not in the first block. One of the two directories, or none, has two records of junk behind
  its entries, each one of four: a file of the tree, the number of no inode, an entry of size 0, the end. Two
  are enough for one that begins behind the first and for one that runs past the buffer.
- **Paging.** Two entries to a table; four addresses that share all tables, all but one, or
  only the root. Six pages for tables, seven needed: memory is filled exactly and runs out.

### 3.2 Where deadlock is not an error

`CHECK_DEADLOCK FALSE` appears where the code really stops: `Ahci` (no port, or the kernel
has faulted on an unmapped buffer), `Program` (`exit` halts; a file that is no ELF file is not loaded),
`Vfs` (a panic or a fault), `Paths` (one string is one run), `Ext2Data` (the end of the file; a walk past
its buffer), `Paging` (nothing is mapped after a NULL from the allocator), `Fat` (a listing past its
buffer), `Boot` (a panic, a fault, or the program that runs). The other runs check for deadlock.

### 3.3 Fairness

Liveness is claimed in four modules, and nowhere is a caller assumed to call.

- `Heap`: weak fairness of `Take`, `Advance` and `Expand`. `malloc` is a loop on the only
  processor and nothing suspends it.
- `Ahci`: weak fairness of the driver's own steps for the same reason, and of the controller's:
  it follows ST (`EngineFollows`) and FRE (`ReceiveFollows`), becomes ready, and moves on or reports an error. The driver waits
  for CI without a limit, so it relies on exactly that. No strong fairness is
  used. `CallsReturn` excepts calls on a port that an earlier error has halted: the
  driver never clears ST, and such a call does wait for ever.
- `Fat`: weak fairness of the driver inside a call, which is a loop on the only processor, and of
  steps while the disk has a call: it succeeds or gives up, as `Ahci`'s `CallsReturn` says.
  `CallsReturn` excepts calls in which a FAT sector could not be read (the next cluster may be one that
  leads back) and listings that have overrun the caller's buffer.
- `Boot`: weak fairness of the next step. There is one thread of control and no interrupt is enabled.

## 4. Proofs

TLAPS checks the following for every value of the constants that the named assumptions allow.

**`Memory_proofs`**, for the allocator from `PhysAllocAssumption` (positive page size; maps whose pages
have an index within `MaxIndex`). The inductive invariant `IInv` joins the run's
invariants with `BootInv`, which ties what is not changing after boot (the bitmap's size,
the pages withheld, that `slack` lies behind the bitmap) to the memory map. No
conjunct is inductive alone: that a granted run is free of owners follows from the bitmap being exact,
that the bitmap stays exact on `free_pages` follows from runs being disjoint, and the
counters need both. Lemmas `LockPages`, `ReservePages` and `FreePagesLemma` say what the loops over pages,
which are folds, do to a bitmap and its counters, `RunIsClear` what the scan for a run returns.
Theorems: `TypeCorrect`, `ExclusiveGrants`, `ExactBitmap`, `ExactCounters`,
`NullIsExhaustion`, and `Refinement`: every step is one of `PageOwnership` or a stutter, so the
bitmap allocator implements exclusive ownership.

For page tables, from `PagingAssumption` (a page for the root; nothing is mapped to page 0, whose
address means "unmap"). The properties alone are not inductive: that an address leads
where it was mapped says nothing of the tables that a later mapping will add. `PagingInv` says that memory is a
`Tree`, in which every link leads to a page of its own that is not the allocator's, and that every address leads
(`Walk`) to what it was mapped to. `LevelsApart`: no page is a table on two levels. `GrownTree` and
`GrownWalk`: a granted, cleared page below an empty entry keeps the tree and every way
down. `OnePath` and `PutWalk`: an entry of a last table belongs to one address. `MapSound` puts the three tables and the entry
together. Theorems: `MapsAreExact`, `TablesStayApart`.

**`Heap_proofs`**, from `HeapAssumption` (positive sizes, a page has room for a header
and one unit). `IInv` is the tiling, the links, coalescing, and the correspondence of
blocks and segments, strengthened by `SearchInv`: while `malloc` walks, every free segment it has
passed is too small, and its rounded size covers what was asked. Tiling and links depend on one another (a segment's end is its next's
address), which is why they are proved together, as one statement about a well-formed list, for
each of the four operations: `CombineFwd`, `CombineBwd`, `Split`, `AppendPages`.
Theorems: `TypeCorrect`, `ListIsWellFormed`, `FreeIsCoalesced`,
`BlocksMatchSegments`, `BlocksStayApart`, `HeapGrowsOnlyWhenFull`.

**`Ahci_proofs`**, from `AhciAssumption` (positive sizes, pages enough for the port, and calls whose bytes fit the 32 bits that the driver counts them in). `DmaInv` has
types and three parts. `Handshake`: a command is issued, and the controller not halted, only while the driver
polls for it. It needs the case of the command that failed, which stays issued: `tfes` and an
active engine are tied to `halted`. `Commanded`: slot 0 holds the call under way. `Ownership`: the
port's pages and the buffer of that call are in runs the driver holds. From it follow
`DmaStaysOwned`, `CommandsAreStable`, `ReadsGiveBack`. For the refinement, `Transferring` says that the
first `dev.done` sectors of the call are the same on the disk and in the buffer, which covers both
directions, and that all of them are when CI is clear. `DriverImplementsDisk` is for every call there is: every step of
driver or controller is one of `BlockDevice` or a stutter, for the sectors that the command names. `CommandNames` says
which these are: those asked for, when the sector number has three bytes and the PRDT entry has room; otherwise
a sector before the one asked for, or fewer sectors than were asked for (section 5, items 4 and 29). It rests on `FisLbaIs`, the arithmetic of the
six bytes, and on `DescribedIs`. `CeilGrows` is why the pages of a buffer hold the fewer sectors, too. `Fat` asks for a
few sectors of a disk below 2^24, and may rest on `BlockDevice`.

**`Vfs_proofs`**, from `VfsAssumption`. `IInv` is types, `TableExact` and `LoopInv`: the mountpoint that
`resolve_mountpoint` holds is the best of the entries it has passed. `TableExact` is needed for it, since an entry that
is not NULL must lead to a mountpoint. `BestIsChosen` and `BestExists` show that `Belongs` is well defined
(the least-number principle on depths and then on indexes). Theorems: `ExactTable`;
`DeepestOpens`; `MountsAreIndependent`, whose hard case is `unmount`: the entries behind the one that goes move
down, and what is best among them stays so (`WhereEntriesWere`). For `Paths`, from `PathsAssumption`, `ParseInv` joins
`Parsed` with `Split`: the components collected are the names before the character that is next, and the
one under way is the beginning of the name there. `RankNext` and `CountIs` count the slashes that begin a name (a name
ends, and the count grows, where a character follows a slash), `NameIs` and `FullIsLong` say where the present one
ends and when it is too long. Theorems: `PathsAreParsed`, `NamesStayInBlock`.

**`Program_proofs`**, from `ElfLoadAssumption` and `FilesAssumption` (programs are linked below their stack), is about the loader and then about
the whole machine.
`Geometry` is the arithmetic of a segment that begins at a page: the pages of its addresses are
the ones that are mapped, to the run that was granted. `SegmentPages`: no other segment has an address on them.
`KthPage`: the stack's pages exist, since a finite set of numbers has a member with k below it.
`LoadInv` is `Granting` (what is left and what was granted are apart) and, for aligned files, `Mapping`:
`OwnPages`, and `Loaded` of every segment before the next. `SegmentsLoaded` needs `OwnPages`, or a later
segment could be written over an earlier one. Theorems: `PagesAreOwn`, `SegmentsAreLoaded`; with the lemma `ProgramLoads`,
that every step of the composed machine is one of the loader or a stutter for it, they become `ProgramOwnsPages` and
`ProgramIsLoaded`. For the calls, `CpuInv` says in every part of one where the program's registers are: where SYSCALL
put them (`Entered`), in the handler's time in the preserved registers, in `user_rsp_saved` and on the stack
(`Saved`; pushed and popped in opposite orders); `Selectors` are STAR's and the segment registers'. `PushedWords`, `MovedArguments` and
`PoppedWords` run through the instruction lists one by one. Theorems: `ProgramKeepsContext`, `CallsReachHandler`, for any
number of calls with any contents of the registers.

**`Fat_proofs`**, from `FatAssumption`, `VolumesAssumption`, `IntactAssumption` (a FAT that covers the clusters,
sector numbers that do not wrap, plain files that are whole and own their clusters: `Holds`) and `DirectoriesAssumption`
(chains of directories that end, clusters of directories that only such clusters lead to, entries with names; and two
clusters of sectors before the data, which a FAT of the 65525 clusters that FAT32 begins with takes several times over, so that
clusters 0 and 1, where `..` and an empty file lead, are no directory's either). `IInv` says where the call
stands (`Control`), that the open file is one of the volume's (`FileOpen`), and, until a write has
missed a FAT sector (`Damaged`), that nothing but bytes of files differs from the disk as it was made
(`Sound`), that the driver has the volume's own boot sector (`Located`), that the open file owns the
clusters of its chain (`Whole`), and how far the loop over them is: `Asked`, the access under way, and `Progress`, the part before the present cluster done and no other begun.
`FollowIs` shows that the recursive function `Follow` has what its equation says as values, `Apart` that
places of different clusters are different, `TwoLevels` the arithmetic of a sector in a cluster
and a cell in a sector. Theorems: `Transfers`, `WritesOnly`, and `VolumeKept`, which is `Sound` itself: no
write changes what the volume is found by.

For directories, `Reading` and `EntriesRead` say what an entry in the buffer is: one of the cluster, its end, or, behind a full
buffer, junk (`JunkFile`). `WalkAt(d, m)` says that the driver stands in the m-th cluster of the chain of the directory d
and, by `Gathered`, that `lfn_entry` is what the long-filename entries right before the present one spell; `Here` is the place
of the entry that comes next. `WalkEnters`, `WalkSkips`, `WalkTurns`, `WalkAsks` and `WalkLeads` take these through the steps of
the loop, `NameIs` shows that `NameOf` is then `TrueName`, `NextEntry` and `AllBehind` that no place is
jumped over. `OpensWhatIsNamed` needs `OnTheWay`: the names found so far lead to what `Reached` says and no entry before `Here` has
the next one (`Onto`), or what was found is no directory and its clusters have no names to be found (`Stray`);
`ListsEntries` needs `OnTheList`: what the buffer has, junk apart, are the files before `Here`, as many, in order
(`Told`), and no more entries of junk than `PastBound` for each cluster passed (`Over`), which bounds the overrun.
`Reached` is shown to have a solution by the least-number principle on the path's length (`ReachedIs`). Theorems:
`Opening`, `Listing`.

Timestamps need no invariant but what the sums of days are: `SumIs`, that the months before the present one add up to the same
in whatever order `MapThenSumSet` takes them, `YearDayIs`, that this is the calendar's day of the year, `LeapsAre`, that
the quotients of the year by 4, 100 and 400 count its leap days one by one, and `DateFields` and `TimeFields`, that the
fields of a date and of a time are what was put there. The three inductions are over numbers, by `Least`. Theorems: `Posix`, for
every date and time of every year that is no leap year, and `Timestamps`, for those that the run looks at.

**`Ext2_proofs`**, for reading from `Ext2DataAssumption` and its `FilesAssumption` (no file has as many blocks as
the counter's type has values). `StaysInBuffer` needs `Counted`: blocks that are still to come and blocks that are stored
add up to the inode's total at every level of the walk, whatever a failed read left in the pointer
blocks. `Sequential` needs of short files, those without a doubly indirect block, that what is stored is a
prefix of the blocks in order (`Prefix`) and that the loops' indexes stand at the next one (`OnTheWay`). For
directories from `Ext2DirAssumption` (an inode table large enough for a group's inodes, trees
whose directories name their inodes): `InodeIsFound` is the arithmetic on group descriptors and records, for every
inode number; `ReachedIs` that `Reached` has a solution, by the least-number principle on the path's length; `MatchIsNamed` and
`NotThere` that the search over entries opens the one of that name, or none. `DirInv` adds that the
entries passed were others (`Passed`), that those listed are the ones before the next (`InOrder`), and that the inode held is the one reached so far (`OnWay`), or that a
name on the way is not there in a directory with a tail (`Astray`), from where anything may be opened. Nothing is assumed of the
junk: its names, inodes and sizes are any. `AllPassed` is what keeps junk apart from entries: it is read only
when no entry has the name. Theorems:
`WalkStaysInBuffer`, `FilesAreSequential`, `PathsOpen`, `ListingsAreTrue`.

**`Boot_proofs`**, from `ConsoleAssumption`, `PciAssumption` and `BootAssumption` (a screen of five rows or more, tables and
headers of the kinds the firmware makes). `MountsSecondPartition` needs to know at every stage what earlier ones
have left, `PartitionInv`: the drivers' ports are ports of the machine (`Found`), the driver is the last one
and the port one of its own with a GPT header (`Chosen`), and while the table is gone through, its first four entries
are the disk's and of those before the next the second that is used is second in the register (`InOrder`, `TableRead`).
`RegisterEntry` is the step of that loop; `SecondIsMounted` says that what is second among all entries
is so among the first four if two of these are used. `ScreenIsLog` needs `LogInv`: the cursor is where the log ends
(`Shows`), and what is still to be logged is made of messages (`IsMessage`) which, while the kernel runs, are single
lines, but for the sizes of memory, which are logged third (`Detected`). `InRoom` is a message for which there is
room, `ScrollsOnce` one for which there is none, `StaysInside` says which are not drawn behind the screen. `ScrollsOnce` rests on a property of the kernel's
messages that `IsMessage` has and the code nowhere states: of three or more lines the second is not
empty. The rows move up by one whatever the number of lines, so with an empty second line the screen would
lose its place and nothing would have been drawn behind it.
Theorems: `MountsSecondPartition`, `ScreenIsLog`, for every machine and every outcome of every read.

`NullIsExhaustion`, `BlocksMatchSegments`, `CommandNames`, `VolumeKept` and `Posix` are proved and not among the runs' properties: they
are parts of what the others rest on, or, as `CommandNames`, say what the terms of one mean.

Only model-checked: the liveness properties (`MallocReturns`, both `CallsReturn`, `BootsIfItCan`), which with
ENABLED are outside the prover. Every invariant and every action property that a passing run checks is
stated by a theorem.

## 5. Where the code is wrong

One run shows a disagreement as a counterexample; `PROJECT.json` "findings" quotes the lines.

1. `fs/ext2.c:122` (`ext2_large`): the loop over the singly indirect block does not end with the
   block, so a file that needs a doubly indirect one is read wrong.

The following were met while translating. The modules have them as the code has them; properties
say in their precondition, or the bounds, where they leave them out:

2. `memory/page_map.c:54`: `invlpg` is given the place of the variable on the stack, so the processor may use
   the old translation of an address that is mapped again. `Paging` leaves the cache out.
3. `memory/phys_allocator.c:132`: pages of RESERVED entries, holes of the map and the bits that round
   the bitmap up are granted like memory. `PhysAlloc` is about ownership and says nothing of what a page is.
4. `drivers/ahci.c:135`: bytes 0 to 2 of each half of the sector number are sent, so from sector 2^24
   on another one is read (`FisLba`, `SaidStart`).
5. `drivers/ahci.c:238` and `:241`: `ahci_write_virt` maps the first page of its buffer only and never
   frees any (`WriteMaps`, `GivenBack`).
6. `drivers/ahci.c:148`: after an error the port is never started again; `CallsReturn` leaves such
   calls out.
7. `cpu/syscalls/syscalls.asm:27`: the parameter that `syscalls.h:8` calls r9 is the saved r15
   (`Parameters`); `HandlerCalled` speaks of the first six.
8. `cpu/syscalls/syscalls.c:15`: STAR's user base 0x20 makes SYSRET load CS = 0x33, the TSS
   descriptor, where `ring3.asm:14` uses 0x23 (`Leave`).
9. `fs/fs.c:70`: `mount` does not look at the size of its table (`VfsAssumption` keeps it inside), and
   leaves a NULL there when it fails; the next `fopen` or `unmount` faults.
10. `fs/ext2.c:209`: names are compared over the length of the entry's name, so an entry that begins the name
    asked for is opened (`Matches`; `NoPrefixes` in the properties).
11. `fs/ext2.c:207`: the search ends at an entry whose inode is 0, though others follow
    (`NothingDeleted`).
12. `fs/ext2.c:114`: a short symbolic link counts no blocks; the count wraps and the walk leaves its
    buffer (`StaysInBuffer`).
13. `programs/elf.c:38`: `physical_aligned` is not aligned for a segment that begins inside a page, which
    is written to the page before those requested (`Target`; `Aligned` in the properties).

14. `fs/fat.c:268`: nothing moves `seek`, so two reads of a file return the same bytes (`Begins` starts
    at 0), and a write of more than one cluster repeats the beginning of the caller's buffer in each
    (`PatchCluster`; `TransfersMatch` speaks of the first).
15. `fs/fat.c:85`: a FAT sector that cannot be read makes the next cluster what the stack held, and a write goes
    there (`ChainRead`; "fat" in `failures`).
16. `fs/fat.c:124`: a directory cluster that is full is read past its buffer (`EntriesAt`), and a listing
    overruns the caller's buffer within a cluster (`ListFile`, "corrupt").
17. `fs/fat.c:143`: a short name with an extension is garbled when the entry has an attribute, when the
    base has seven or eight characters, and when the extension has fewer than three (`ShortName`,
    `ReadsWhole`); long names split over two clusters are lost. `PlainVolume` excludes both.
18. `fs/fat.c:185`: in leap years a timestamp is a day ahead (`TimestampsArePosix` leaves them out).
19. `fs/fat.c:383`: a file that is read-only, or was opened for reading, is written all the same; a short
    write changes the size that `stat` then tells (`WriteEnds`).
20. `entry/entry.c:209`: one sector of the partition table is read whatever the number of entries
    (`Leftover`, `ReadTable`).
21. `entry/entry.c:185` and `:194`: `ahci_driver` and `best_port` are not initialised, so what follows when
    there is none is undefined (`Wild`). `is_gpt` keeps the buffer it allocates.
22. `drivers/acpi.c:14`: byte `i` instead of byte `j` of the signature is compared, four times (`Alike`).
23. `drivers/pci.c:294`: the last bus of a segment is not visited, nor a bus without a device 0 or a device
    without a function 0; neither the table of drivers nor that of class names has its bound looked at.
24. `console/console.c:45`: a message of several lines at the bottom of the screen is drawn behind the
    framebuffer (`DrawsOutside`): that of an exception, for one.
25. `cpu/interrupts.c:10`: the page of the IDT is not cleared and the IST fields not written (`Fault`); the
    double fault has a handler and no entry (`Vectors`).
26. `fs/fat.c:217`: the entry `..` of a directory in the root holds the cluster 0, which stands for the root and
    which the driver searches and lists as a cluster, so `/bin/../x` is not found (`Found`; `PastParent` in
    `OpensWhatIsNamed`, the cluster 0 in `ListsEntries`).
27. `fs/fat.c:351`: the mode of an entry is set bit by bit in memory that nobody cleared, so a file may be listed as
    a directory (`fs_file_info`, whose `directory` is the set of what may be there).
28. `entry/entry.c:220`: `ext2_mount` looks for no magic number, and nobody looks at what `mount` and `fread`
    return (`Mount`, `Open`, `UseFile`, `Load`).
29. `drivers/ahci.c:124`: the byte count of the PRDT entry has 22 bits, so of a call for more than 8192 sectors only
    what is left of the count modulo 8192 is moved (`Described`), while the caller's buffer is copied as a whole.
30. `fs/ext2.c:205` and `:302`: the loops over a directory go on to `sectors_used` sectors, which count the blocks of pointers and of
    attributes, over a buffer that nobody cleared. Behind the last entry they read what malloc's memory held:
    a file may be found under a name that is not there, or listed though there is none, and with a size of 0 the search
    does not end (`Behind`, `Junk`; `LeadsIntoJunk` in `OpensWhatIsNamed`, `tail` in `ListsEntries`).
31. `entry/entry.c:113`: the console is a variable of a block that ends before most of the log is written. `Boot` takes
    it to stay, as it does in a build without optimisation.
32. `console/console.c:11`: the framebuffer is not cleared; `Console` takes it to be blank.

## 6. What is not modelled

- **String and memory functions, formats**: library replacements and wording; the modules use what they do.
- **Boot loader protocol** (`limine.h`): third-party declarations; `Boot` chooses what the loader answers.
- **CPU tables**: the instructions that load them. Which vectors have an entry is in `Boot`, the selectors
  are in `Syscall`. Every handler prints and halts, so there is no interleaving to explore.
- **Pixels and the UART**: `Console` has rows of text; colours, widths and registers of the serial port
  are left out.
- **`fat32_stat`, `ext2_stat`, `get_mount_points`**: change nothing; what they fill in is `fs_file_info`
  in `Fat`. `gpt_write_partition`, `console_clear`, `free_path`, `release_page(s)`: no caller.
- **The allocator, paging and heap composed**: each is checked with pages as granted or, in `Paging`,
  followed up to the first NULL. Their composition would add only the states after a
  NULL, and there nothing is promised: no caller looks at it (hazard at `memory/heap.c:114`).
- Left out of the modelled parts: page flags (`Paging`, `ElfLoad`), tables made by the boot
  loader and the cache of translations (`Paging`), heap blocks that ext2 loses on the way down a path
  (`Ext2Dir`), more than one port (`Ahci`: they share only the allocators), file offsets and the
  entry point (`ElfLoad`), the heap (`Fat`).

## 7. Plan

Every component with logic of its own is modelled. What is left, in this order:

1. `Ext2Data` with a file's blocks as bytes, so that a seek may stand inside a block.
2. More than one port in `Ahci`, with the allocator's exhaustion between two of them.

## 8. Running

    tlasany Heap.tla                                 # parse
    tlc -workers 2 -config MCHeap.cfg MCHeap         # one run; PROJECT.json names them all
    tlapm Heap_proofs.tla                            # proofs
