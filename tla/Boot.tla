-------------------------------- MODULE Boot --------------------------------
(***************************************************************************)
(* The boot sequence: kenter of entry/entry.c, from the boot loader to the   *)
(* program /bin/dash, on a machine chosen at the start, with every read of a *)
(* disk free to fail.  Finding devices is Pci's, the partition table         *)
(* GptTable's, what is written for the user to read Console's; of ahci_init, *)
(* ext2_mount, fopen, fread and elf_load, which have modules of their own,   *)
(* only what kenter sees of them is here.  Page allocations are granted.     *)
(***************************************************************************)
EXTENDS Console, Pci, GptTable, FiniteSetsExt

CONSTANTS Machines, NULL

\* A port: what is plugged in, the disk's header, the first sector of its table, and
\* what lies where a partition starts: a file system and, if it is ext2, /bin/dash.
EntriesPerSector == 4           \* 512 bytes of 128 each
Volume == [fs : {"ext2", "panics", "other"}, file : {"elf", "text", "short", "missing"}]

IsPort(port) ==
    /\ port.type \in {"SATA", "SATAPI", "other"}
    /\ port.header \in gpt_header
    /\ port.table \in [1..EntriesPerSector -> gpt_partition_entry]
    /\ \A s \in DOMAIN port.volume : port.volume[s] \in Volume

\* supported: the loader knows the base revision; framebuffer: it found one;
\* clean_page: the first page that is free holds zeros.
ASSUME BootAssumption ==
    /\ MaxLines >= 5
    /\ \A m \in Machines :
          /\ {m.supported, m.framebuffer, m.clean_page} \subseteq BOOLEAN
          /\ Len(m.xsdt) <= 5 /\ \A k \in DOMAIN m.xsdt : m.xsdt[k] \in sdt_header
          /\ \A k \in DOMAIN m.mcfg : m.mcfg[k] \in acpi_device_config
          /\ m.headers \subseteq pci_device_header
          /\ \A h \in m.headers : h.class = "ahci" =>
                \A k \in DOMAIN m.ports[h] : IsPort(m.ports[h][k])

VARIABLES machine,
          con, serial,          \* what the console and the serial port have shown
          pending,              \* messages that the step under way has still to log
          idt,                  \* vectors with a handler
          pc,
          segment, todo,        \* pci_enumerate: next segment, functions left of this one
          controller, ahci_info,    \* ahci_init: for which function, the ports it keeps
          pci_drivers,          \* of each AHCI driver the ports it keeps
          ahci_driver,
          best_port,
          partitions,           \* the buffer the table is read into
          i,                    \* the loops' counter
          gpt_partitions,
          mounted,              \* the partition mounted at the root
          file,                 \* what fread is to read
          failed                \* a read of a disk or the loading of a program has failed

pci == <<segment, todo, controller, ahci_info, pci_drivers>>
gpt == <<ahci_driver, best_port, partitions, gpt_partitions>>
found == <<idt, pci, gpt, i>>
vars == <<machine, con, serial, pending, pc, mounted, file, failed, found>>

Init == /\ machine \in Machines
        /\ con = NULL /\ serial = << <<>> >> /\ pending = <<>>
        /\ idt = {}
        /\ pc = "start"
        /\ segment = 1 /\ todo = {} /\ controller = NULL /\ ahci_info = <<>>
        /\ pci_drivers = <<>>
        /\ ahci_driver = NULL /\ best_port = NULL
        /\ partitions = <<>> /\ i = 1 /\ gpt_partitions = <<>>
        /\ mounted = NULL /\ file = NULL
        /\ failed = FALSE

-----------------------------------------------------------------------------
\* Where kenter is, everything logged that was to be logged on the way there.
At(place) == pc = place /\ pending = <<>>
GoesTo(place) == pc' = place

Log(messages) == pending' = messages /\ UNCHANGED <<con, serial>>
Quiet == Log(<<>>)

\* log: to the console if there is one, and to the serial port.
Logs ==
    /\ pending # <<>>
    /\ con' = IF con = NULL THEN NULL ELSE console_write(con, Head(pending))
    /\ serial' = Joined(serial, Head(pending))
    /\ pending' = Tail(pending)
    /\ UNCHANGED <<machine, pc, mounted, file, failed, found>>

\* panic: a message, then hlt for ever.
Panic(msg) == Log(<<msg>>) /\ GoesTo("panicked")

\* An exception, a page fault if not said otherwise.  Only the type, the selector and the
\* offset of an IDT entry are written; what the page held before may name a stack of
\* the TSS, which has none, and the processor resets.
Fault ==
    IF 14 \in idt /\ machine.clean_page
    THEN Panic(FaultMessage)
    ELSE Quiet /\ GoesTo("reset")

\* Memory is overwritten or read that is nobody's: anything may follow.
Wild == Quiet /\ GoesTo("wild")

-----------------------------------------------------------------------------
\* The console is a variable of a block of kenter that ends before most of the log is written;
\* its memory is taken to stay as it is, as it does without optimisation.
Start ==
    /\ At("start")
    /\ IF machine.supported
       THEN /\ con' = IF machine.framebuffer THEN console_init ELSE NULL
            /\ GoesTo("memory")
       ELSE GoesTo("halted") /\ UNCHANGED con
    /\ UNCHANGED <<machine, serial, pending, mounted, file, failed, found>>

DetectMemory ==
    /\ At("memory")
    /\ Log(<<Line(<<"version">>), Line(<<"memory">>),
             << <<"Free">>, <<"Used">>, <<"Reserved">>, <<>> >> >>)
    /\ GoesTo("tables")
    /\ UNCHANGED <<machine, mounted, file, failed, found>>

\* The vectors that kenter registers: 8, the double fault, has a handler and no entry.
Vectors == {0, 5, 6, 7, 10, 11, 12, 13, 14, 16, 17, 19, 20, 21, 28, 29, 30}

\* GDT, TSS and IDT, system calls, the page map, whose address in CR3 is never 0, and
\* the heap.
InitProcessor ==
    /\ At("tables")
    /\ idt' = Vectors
    /\ Log(<<Line(<<"page_map">>)>>)
    /\ GoesTo("acpi")
    /\ UNCHANGED <<machine, mounted, file, failed, pci, gpt, i>>

\* Another table taken for MCFG is read as one: its rest as segments anywhere.
FindMcfg ==
    /\ At("acpi")
    /\ LET place == acpi_find_table(machine.xsdt)
       IN  IF place = 0
           THEN Panic(Line(<<"no_MCFG">>))
           ELSE IF machine.xsdt[place].signature # MCFG
           THEN Wild
           ELSE Quiet /\ GoesTo("pci")
    /\ UNCHANGED <<machine, mounted, file, failed, found>>

NextSegment ==
    /\ At("pci") /\ todo = {} /\ segment \in DOMAIN machine.mcfg
    /\ todo' = Visited(machine.mcfg[segment], machine.headers)
    /\ segment' = segment + 1
    /\ UNCHANGED <<machine, con, serial, pending, pc, mounted, file, failed, idt, controller,
                   ahci_info, pci_drivers, gpt, i>>

\* Nobody looks whether the table of names has the function's class.
FunctionEnumerate ==
    /\ At("pci")
    /\ \E header \in todo :
          /\ \A other \in todo : ~Before(other, header)
          /\ LET name == Line(<<"pci", ToString(header.bus), ToString(header.device),
                                ToString(header.function)>>)
             IN  \/ /\ header.class = "unclassed"
                    /\ Wild /\ UNCHANGED <<controller, ahci_info, i>>
                 \/ /\ header.class = "other"
                    /\ Log(<<name>>) /\ UNCHANGED <<pc, controller, ahci_info, i>>
                 \/ /\ header.class = "ahci"
                    /\ Log(<<name, Line(<<"ahci_init">>)>>)
                    /\ GoesTo("probe")
                    /\ controller' = header /\ ahci_info' = <<>> /\ i' = 1
          /\ todo' = todo \ {header}
    /\ UNCHANGED <<machine, mounted, file, failed, idt, segment, pci_drivers, gpt>>

\* ahci_probe_ports: of the ports there are the driver keeps those with a drive, and
\* configures them afterwards.
ProbePort ==
    /\ At("probe") /\ i \in DOMAIN machine.ports[controller]
    /\ LET port == machine.ports[controller][i]
       IN  IF port.type \in {"SATA", "SATAPI"}
           THEN /\ ahci_info' = Append(ahci_info, port)
                /\ Log(<<Line(<<port.type, ToString(i)>>)>>)
           ELSE Quiet /\ UNCHANGED ahci_info
    /\ i' = i + 1
    /\ UNCHANGED <<machine, pc, mounted, file, failed, idt, segment, todo, controller, pci_drivers,
                   gpt>>

\* Nobody looks whether the table of drivers is full.
AddDriver ==
    /\ At("probe") /\ i \notin DOMAIN machine.ports[controller]
    /\ IF Len(pci_drivers) < PCI_MAX_DRIVERS
       THEN pci_drivers' = Append(pci_drivers, ahci_info) /\ Quiet /\ GoesTo("pci")
       ELSE Wild /\ UNCHANGED pci_drivers
    /\ UNCHANGED <<machine, mounted, file, failed, idt, segment, todo, controller, ahci_info,
                   gpt, i>>

\* The last driver.  Without any the pointer is what the stack held: perhaps NULL.
ChooseDriver ==
    /\ At("pci") /\ todo = {} /\ segment \notin DOMAIN machine.mcfg
    /\ IF pci_drivers = <<>>
       THEN /\ \/ Panic(<< <<"no_AHCI_driver">>, <<"no_other_disks">>, <<>> >>)
               \/ Wild
            /\ UNCHANGED ahci_driver
       ELSE /\ ahci_driver' = Last(pci_drivers)
            /\ Quiet /\ GoesTo("disk")
    /\ i' = 1
    /\ UNCHANGED <<machine, mounted, file, failed, idt, pci, best_port, partitions,
                   gpt_partitions>>

-----------------------------------------------------------------------------
\* Reading a disk, as BlockDevice promises it: all of it, or failure.  A SATAPI drive
\* does not know the command.
Reads(port, ok) ==
    /\ ok \in IF port.type = "SATA" THEN BOOLEAN ELSE {FALSE}
    /\ failed' = (failed \/ (port.type = "SATA" /\ ~ok))

\* The first port whose header can be read and is a GPT disk's; the buffer is kept.
TryPort ==
    /\ At("disk") /\ i <= Len(ahci_driver)
    /\ \E ok \in BOOLEAN :
          /\ Reads(ahci_driver[i], ok)
          /\ IF ok /\ is_gpt(ahci_driver[i].header)
             THEN best_port' = ahci_driver[i] /\ GoesTo("header") /\ UNCHANGED i
             ELSE i' = i + 1 /\ UNCHANGED <<pc, best_port>>
    /\ UNCHANGED <<machine, con, serial, pending, mounted, file, idt, pci, ahci_driver,
                   partitions, gpt_partitions>>

\* best_port, too, is what the stack held.
NoDisk ==
    /\ At("disk") /\ i > Len(ahci_driver)
    /\ \/ Panic(<< <<"no_GPT_disks">>, <<"no_MBR">>, <<>> >>)
       \/ Wild
    /\ UNCHANGED <<machine, mounted, file, failed, found>>

ReadHeader ==
    /\ At("header")
    /\ \E ok \in BOOLEAN :
          /\ Reads(best_port, ok)
          /\ IF ok THEN Quiet /\ GoesTo("table") ELSE Panic(Line(<<"no_GPT_header">>))
    /\ UNCHANGED <<machine, mounted, file, found>>

\* What malloc's memory may hold where the table's second sector belongs.
Leftover == [type_guid : {"zero_first", "other"}, start_sector : {0}]

\* One sector is read, whatever the number of entries: of fewer than four the block is
\* too small for it, of more the rest of the block is as malloc gave it.
ReadTable ==
    /\ At("table")
    /\ \E ok \in BOOLEAN :
          /\ Reads(best_port, ok)
          /\ IF ~ok
             THEN Panic(Line(<<"no_partition_table">>)) /\ UNCHANGED partitions
             ELSE IF best_port.header.entry_count < EntriesPerSector
             THEN Wild /\ UNCHANGED partitions
             ELSE /\ \E rest \in [1..best_port.header.entry_count - EntriesPerSector -> Leftover] :
                        partitions' = best_port.table \o rest
                  /\ Quiet /\ GoesTo("register")
    /\ i' = 1
    /\ UNCHANGED <<machine, mounted, file, idt, pci, ahci_driver, best_port, gpt_partitions>>

\* Faulty: unused entries are registered too.
MutRegistered(register, entry) == gpt_register_partition(register, entry)

Registered(register, entry) ==
    IF gpt_is_unused_partition(entry) THEN register ELSE gpt_register_partition(register, entry)

Register ==
    /\ At("register") /\ i <= Len(partitions)
    /\ gpt_partitions' = Registered(gpt_partitions, partitions[i])
    /\ Log(IF gpt_is_unused_partition(partitions[i]) THEN <<>>
           ELSE <<Line(<<"partition", ToString(i)>>)>>)
    /\ i' = i + 1
    /\ UNCHANGED <<machine, pc, mounted, file, failed, idt, pci, ahci_driver, best_port,
                   partitions>>

-----------------------------------------------------------------------------
\* The volume where an entry says that one starts.
VolumeAt(entry) ==
    IF entry.start_sector \in DOMAIN best_port.volume
    THEN best_port.volume[entry.start_sector]
    ELSE [fs |-> "other", file |-> "missing"]

\* Which of the registered partitions is mounted at the root: index 1 in the code.
Root == 2

\* mount of the second partition.  Where nothing is registered its entry is NULL.
\* ext2_mount looks for no signature; a volume that asks for it makes it panic.
Mount ==
    /\ At("register") /\ i > Len(partitions)
    /\ IF Len(gpt_partitions) < Root
       THEN Fault /\ UNCHANGED <<mounted, failed>>
       ELSE \E ok \in BOOLEAN :
               /\ Reads(best_port, ok)
               /\ IF ok /\ VolumeAt(gpt_partitions[Root]).fs = "panics"
                  THEN Panic(Line(<<"ext2_has_errors">>)) /\ UNCHANGED mounted
                  ELSE /\ mounted' = IF ok THEN gpt_partitions[Root] ELSE NULL
                       /\ Quiet /\ GoesTo("open")
    /\ UNCHANGED <<machine, file, found>>

\* What ext2_search_dir and ext2_open say of a file that they do not find: a name on the way
\* is not there, or belongs to what is no directory.
NotFound == {<<Line(<<"no_file">>)>>, <<Line(<<"no_directory">>), Line(<<"no_file">>)>>}

\* fopen of /bin/dash.  After a mount that failed it follows a NULL of the table of mounts.
\* On what is not ext2 and after a failed read there may be anything, and so there may for a
\* name that is not there, which is looked for behind the entries, too.
Open ==
    /\ At("open")
    /\ IF mounted = NULL
       THEN Fault /\ UNCHANGED <<file, failed>>
       ELSE \E ok \in BOOLEAN :
               /\ Reads(best_port, ok)
               /\ LET volume == VolumeAt(mounted)
                  IN  \/ /\ ok /\ volume.fs = "ext2" /\ volume.file # "missing"
                         /\ file' = volume.file
                         /\ Quiet /\ GoesTo("load")
                      \/ /\ ~ok \/ volume.fs # "ext2" \/ volume.file = "missing"
                         /\ Wild \/ \E said \in NotFound : Log(said) /\ GoesTo("unopened")
                         /\ UNCHANGED file
    /\ UNCHANGED <<machine, mounted, found>>

\* kenter follows the NULL that fopen returned.
UseFile == At("unopened") /\ Fault /\ UNCHANGED <<machine, mounted, file, failed, found>>

\* What elf_load says of data that is no program, four characters one by one.
NotElf == << << <<"not_ELF">> >>, << <<"c1">> >>, << <<"c2">> >>, << <<"c3">> >>,
             << <<"c4">> >>, <<<<>>, <<>>>> >>

\* fread, whose result nobody looks at: after a failure the buffer is as malloc gave it.
\* elf_load goes on with data that is too short for a header.  It returns, faults when
\* memory is short, or becomes the program; after it kenter halts.
Load ==
    /\ At("load")
    /\ \E ok \in BOOLEAN, enough \in BOOLEAN :
          /\ failed' = (failed \/ ~ok \/ ~enough)
          /\ IF ok /\ file = "elf"
             THEN IF enough THEN Quiet /\ GoesTo("user") ELSE Fault
             ELSE \/ /\ Log((IF file = "short" THEN <<Line(<<"too_small">>)>> ELSE <<>>) \o NotElf)
                     /\ GoesTo("halted")
                  \/ ~ok /\ Wild
    /\ UNCHANGED <<machine, mounted, file, found>>

Next == \/ Logs \/ Start \/ DetectMemory \/ InitProcessor
        \/ FindMcfg \/ NextSegment \/ FunctionEnumerate \/ ProbePort \/ AddDriver
        \/ ChooseDriver
        \/ TryPort \/ NoDisk \/ ReadHeader \/ ReadTable \/ Register
        \/ Mount \/ Open \/ UseFile \/ Load

\* Nothing else runs: the processor goes from instruction to instruction.
Spec == Init /\ [][Next]_vars /\ WF_vars(Next)

-----------------------------------------------------------------------------
\* As long as nothing was drawn behind the framebuffer, the rows are the last lines of
\* what the serial port was sent, in order and none left out; and before the kernel
\* stops, whatever it has logged, nothing is drawn there.
ScreenShowsLog ==
    con # NULL =>
        /\ con.outside => pc \in {"panicked", "halted"}
        /\ ~con.outside =>
              LET above == IF Len(serial) - 1 > MaxLines THEN Len(serial) - 1 - MaxLines ELSE 0
              IN  \A r \in 1..MaxLines :
                     con.rows[r] = IF above + r \in DOMAIN serial THEN serial[above + r] ELSE <<>>

\* The entries of a disk's table that are used.
UsedIn(table) == {k \in DOMAIN table : table[k].type_guid = "other"}

\* What is mounted, and with it the program that is loaded, comes from a GPT disk of the
\* AHCI controller found last, from the second used entry of the disk's table, unless
\* that is not among the entries that were read.
FromSecondPartition ==
    mounted # NULL =>
        /\ is_gpt(best_port.header)
        /\ \E k \in DOMAIN Last(pci_drivers) : Last(pci_drivers)[k] = best_port
        /\ LET used == UsedIn(best_port.table)
           IN  Cardinality(used) >= 2 =>
                   mounted = best_port.table[Min(used \ {Min(used)})]

\* A machine on which the kernel should come up: MCFG is in its place and no table before
\* it has MCFG's letter of that place; there is one AHCI controller, on a bus that is
\* not its segment's last, and every device, every function of which has a known class,
\* has a function 0; the first GPT disk has its two first partitions in the first sector,
\* the second of them ext2 with the program.
Bootable ==
    /\ machine.supported
    /\ \E k \in 1..4 \cap DOMAIN machine.xsdt :
          /\ machine.xsdt[k].signature = MCFG
          /\ \A j \in 1..k - 1 : machine.xsdt[j].signature[j] # MCFG[j]
    /\ \A h \in machine.headers :
          /\ h.class # "unclassed"
          /\ Present(machine.headers, h.base, h.bus, h.device, 0)
          /\ Present(machine.headers, h.base, h.bus, 0, 0)
    /\ \E h \in machine.headers :
          /\ \A g \in machine.headers : g.class = "ahci" <=> g = h
          /\ \E c \in DOMAIN machine.mcfg :
                /\ machine.mcfg[c].base = h.base
                /\ h.bus \in machine.mcfg[c].start_bus..machine.mcfg[c].end_bus - 1
                /\ h.bus < BusLimit
          /\ LET disks == {k \in DOMAIN machine.ports[h] : /\ machine.ports[h][k].type = "SATA"
                                                           /\ is_gpt(machine.ports[h][k].header)}
                 disk  == machine.ports[h][Min(disks)]
                 used  == UsedIn(disk.table)
                 start == disk.table[Min(used \ {Min(used)})].start_sector
             IN  /\ disks # {}
                 /\ disk.header.entry_count >= EntriesPerSector
                 /\ Cardinality(used) >= 2
                 /\ start \in DOMAIN disk.volume
                 /\ disk.volume[start] = [fs |-> "ext2", file |-> "elf"]

\* Such a machine ends in the program, or a read or the loading of the program fails.
BootsIfItCan == Bootable ~> (pc = "user" \/ failed)
=============================================================================
