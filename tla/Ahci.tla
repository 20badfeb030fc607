-------------------------------- MODULE Ahci --------------------------------
(***************************************************************************)
(* The AHCI driver, drivers/ahci.c, and one port of the controller it      *)
(* drives.  The driver is one thread of control that polls; the controller  *)
(* runs beside it, fetches the command of slot 0 from memory and moves the  *)
(* data by DMA, one sector per step.  The controller is external: its steps *)
(* are what the driver's polling assumes of it (registers PxCMD, PxCI, PxIS *)
(* and PxTFD).                                                              *)
(*                                                                         *)
(* Physical pages are numbers; page 0, whose address is NULL, is never      *)
(* granted.  A sector's content is a number: s for what sector s held at    *)
(* boot, DiskSize + k for the k-th sector of a caller's buffer, ZERO for    *)
(* memory that memset cleared.                                              *)
(***************************************************************************)
EXTENDS Integers, FiniteSets

CONSTANTS NPages,               \* bound on physical memory, in pages
          Slots,                \* command slots, 32
          TablesPerPage,        \* command tables (256 bytes) in a page, 16
          SectorsPerPage,       \* 8
          Radix,                \* values of a byte, 256
          PrdtSectors,          \* sectors that a PRDT entry has room for, 8192
          DiskSize,             \* bound on the sectors of the disk
          Starts, Counts        \* what calls ask for; their bytes fit 32 bits

Page == 1..NPages
Sector == 0..DiskSize - 1
ZERO == -1
Content == {ZERO} \cup 0..2 * DiskSize - 1
NULL == 0

ASSUME AhciAssumption ==
    /\ {NPages, Slots, TablesPerPage, SectorsPerPage, Radix, PrdtSectors, DiskSize}
          \subseteq Nat \ {0}
    /\ Slots + 2 <= NPages
    /\ Starts \subseteq Sector /\ Counts \subseteq 0..DiskSize

VARIABLES port_type,            \* port->type, "" before the ports are probed
          hba,                  \* [st, fre, cr, fr, ci, busy, tfes]
          base,                 \* pages of the command list, FIS area, command tables
          cmd,                  \* header and table of slot 0: [write, buf, count, lba]
          dev,                  \* the controller: [active, done, halted]
          disk,
          pool,                 \* pages the physical allocator has left
          held,                 \* runs the driver holds: [pages, for]
          mapped,               \* pages mapped at their own address
          pc,
          op,                   \* the call: [kind, start, count, buf, ok, data]
          data                  \* the DMA buffer, by sector

vars == <<port_type, hba, base, cmd, dev, disk, pool, held, mapped, pc, op, data>>

NoOp == [kind |-> "none", start |-> 0, count |-> 0, buf |-> NULL, ok |-> FALSE,
         data |-> [k \in Sector |-> ZERO]]
NoCmd == [write |-> FALSE, buf |-> NULL, count |-> 0, lba |-> 0]
NoBase == [list |-> NULL, fis |-> NULL, tables |-> [i \in 0..Slots - 1 |-> NULL]]

-----------------------------------------------------------------------------
\* Ports.

ahci_get_port_type(det, ipm, signature) ==
    IF det # "present" \/ ipm # "active" THEN "NOTYPE"
    ELSE IF signature \in {"SATA", "SATAPI", "PM", "SEMB"} THEN signature
    ELSE "NOTYPE"

\* request_pages: the first run of n pages that are left, {} for NULL.
FirstRun(n) ==
    LET starts == {i \in Page : i..i + n - 1 \subseteq pool}
    IN  IF starts = {} \/ n = 0 THEN {}
        ELSE LET i == CHOOSE i \in starts : \A j \in starts : i <= j
             IN  i..i + n - 1

CeilDiv(n, d) == (n + d - 1) \div d

\* The pages that ahci_read_virt asks for.
ReadPages(count) == CeilDiv(count, SectorsPerPage)

\* ahci_write_virt takes a page per sector, and an even number of them.
WritePages(count) == IF count % 2 = 0 THEN count ELSE count + 1

First(run) == CHOOSE p \in run : \A q \in run : p <= q

\* The pages of its buffer that each call maps.
ReadMaps(run) == run
WriteMaps(run) == {First(run)}

\* The LBA that the FIS carries: bytes 0 to 2 of the low word of start_sector,
\* then bytes 0 to 2 of its high word.  Byte 3 of the low word is not sent.
FisLba(start) ==
    (start % (Radix * Radix * Radix))
        + (start \div (Radix * Radix * Radix * Radix)) * (Radix * Radix * Radix)

\* The sectors that a command moves.  A PRDT entry has 22 bits for the bytes, less one; the
\* 16 bits for the sectors in the FIS never say less.
Described(count) == ((count - 1) % PrdtSectors) + 1

HeldPages == UNION {r.pages : r \in held}

-----------------------------------------------------------------------------
\* At boot the firmware may have left the port running.
Init ==
    /\ port_type = ""
    /\ \E s, f, b \in BOOLEAN :
          hba = [st |-> s, fre |-> f, cr |-> s, fr |-> f, ci |-> FALSE, busy |-> b,
                 tfes |-> FALSE]
    /\ base = NoBase
    /\ cmd = NoCmd
    /\ dev = [active |-> FALSE, done |-> 0, halted |-> FALSE]
    /\ disk = [s \in Sector |-> s]
    /\ pool = Page
    /\ held = {}
    /\ mapped = {}
    /\ pc = "probe"
    /\ op = NoOp
    /\ data = NoOp.data

\* ahci_probe_ports: the driver takes the port only if a disk is there, then
\* ahci_port_stop_cmd clears ST and FRE.
ProbePort(det, ipm, signature) ==
    /\ pc = "probe"
    /\ port_type' = ahci_get_port_type(det, ipm, signature)
    /\ IF port_type' \in {"SATA", "SATAPI"}
       THEN pc' = "stopping" /\ hba' = [hba EXCEPT !.st = FALSE, !.fre = FALSE]
       ELSE pc' = "absent" /\ UNCHANGED hba
    /\ UNCHANGED <<base, cmd, dev, disk, pool, held, mapped, op, data>>

\* Faulty: waits for one of the two.
MutStopped == ~hba.fr

\* What ahci_port_stop_cmd waits for.
Stopped == ~hba.fr /\ ~hba.cr

\* Once the port has stopped: a page for the command list, one for received
\* FISes and one per slot.  Slot i's table begins i * 256 bytes into its page.
ConfigurePort ==
    /\ pc = "stopping" /\ Stopped
    /\ LET p(k) == CHOOSE a \in pool : Cardinality({b \in pool : b < a}) = k
           got == {p(k) : k \in 0..Slots + 1}
       IN  /\ base' = [list |-> p(0), fis |-> p(1),
                       tables |-> [i \in 0..Slots - 1 |-> p(i + 2) + i \div TablesPerPage]]
           /\ pool' = pool \ got
           /\ held' = held \cup {[pages |-> got, for |-> "port"]}
           /\ mapped' = mapped \cup got
    /\ pc' = "starting"
    /\ UNCHANGED <<port_type, hba, cmd, dev, disk, op, data>>

StartPort ==
    /\ pc = "starting" /\ ~hba.cr
    /\ hba' = [hba EXCEPT !.fre = TRUE, !.st = TRUE]
    /\ pc' = "idle"
    /\ UNCHANGED <<port_type, base, cmd, dev, disk, pool, held, mapped, op, data>>

-----------------------------------------------------------------------------
\* The calls.

\* request_pages found no run: the call returns false.
OutOfPages(kind, start, count) ==
    /\ op' = [NoOp EXCEPT !.kind = kind, !.start = start, !.count = count]
    /\ UNCHANGED <<port_type, hba, base, cmd, dev, disk, pool, held, mapped, pc, data>>

\* The buffer is taken from the pool and, in part or in full, mapped.
Begin(kind, start, count, run, map, content) ==
    /\ pool' = pool \ run
    /\ held' = held \cup {[pages |-> run, for |-> kind]}
    /\ mapped' = mapped \cup map
    /\ op' = [NoOp EXCEPT !.kind = kind, !.start = start, !.count = count,
                          !.buf = First(run)]
    /\ data' = [k \in Sector |-> IF k < count THEN content[k] ELSE ZERO]
    /\ UNCHANGED <<port_type, hba, base, cmd, dev, disk>>

\* Touching an unmapped page raises a page fault, whose handler halts.
Touch(bytes) == pc' = IF bytes \subseteq mapped' THEN "spin" ELSE "fault"

\* ahci_read_virt up to its call of ahci_read.
ReadVirt(start, count) ==
    /\ pc = "idle" /\ start + count <= DiskSize
    /\ LET run == FirstRun(ReadPages(count))
       IN  IF run = {} THEN OutOfPages("read", start, count)
           ELSE /\ Begin("read", start, count, run, ReadMaps(run), [k \in Sector |-> ZERO])
                /\ Touch(run)

\* ahci_write_virt up to its call of ahci_write.  Only the buffer's first page
\* is mapped; memcpy touches as many pages as the sectors fill.
WriteVirt(start, count) ==
    /\ pc = "idle" /\ start + count <= DiskSize
    /\ LET run == FirstRun(WritePages(count))
       IN  IF run = {} THEN OutOfPages("write", start, count)
           ELSE /\ Begin("write", start, count, run, WriteMaps(run),
                         [k \in Sector |-> DiskSize + k])
                /\ Touch(First(run)..First(run) + CeilDiv(count, SectorsPerPage) - 1)

\* Faulty: the buffer is kept when the read failed, as in the version that is
\* commented out.
MutGivenBack(ok) == {r \in held : r.for = "read" /\ ok}

\* The runs a call frees when it returns: ahci_read_virt its buffer, whatever the
\* outcome, ahci_write_virt none.
GivenBack(ok) == {r \in held : r.for = "read"}

Return(ok) ==
    /\ pc' = "idle"
    /\ held' = held \ GivenBack(ok)
    /\ pool' = pool \cup UNION {r.pages : r \in GivenBack(ok)}
    /\ op' = [op EXCEPT !.ok = ok, !.data = IF ok THEN data ELSE @]
    /\ data' = NoOp.data
    /\ UNCHANGED <<port_type, base, cmd, dev, disk, mapped>>

-----------------------------------------------------------------------------
\* ahci_read and ahci_write.

\* The loop of 1000000 reads of PxTFD ends before the device is ready.
SpinTimeout ==
    /\ pc = "spin" /\ hba.busy
    /\ Return(FALSE)
    /\ UNCHANGED hba

\* Faulty: PRDT and FIS describe one sector less.
MutCommand == [write |-> op.kind = "write", buf |-> op.buf, count |-> Described(op.count) - 1,
               lba |-> FisLba(op.start)]

\* The header, PRDT and FIS that a call writes into slot 0.
Command == [write |-> op.kind = "write", buf |-> op.buf, count |-> Described(op.count),
            lba |-> FisLba(op.start)]

\* The device is ready: PxIS is cleared and slot 0's header, table and FIS are
\* written.
Prepare ==
    /\ pc = "spin" /\ ~hba.busy
    /\ hba' = [hba EXCEPT !.tfes = FALSE]
    /\ cmd' = Command
    /\ pc' = "issue"
    /\ UNCHANGED <<port_type, base, dev, disk, pool, held, mapped, op, data>>

Issue ==
    /\ pc = "issue"
    /\ hba' = [hba EXCEPT !.ci = TRUE]
    /\ pc' = "poll_ci"
    /\ UNCHANGED <<port_type, base, cmd, dev, disk, pool, held, mapped, op, data>>

\* The loop that waits reads PxCI, then PxIS.
PollCi ==
    /\ pc = "poll_ci"
    /\ IF ~hba.ci THEN Return(TRUE) /\ UNCHANGED hba
       ELSE /\ pc' = "poll_is"
            /\ UNCHANGED <<port_type, hba, base, cmd, dev, disk, pool, held, mapped, op, data>>

\* Faulty: the loop gives up without an answer.
MutPollIs ==
    /\ pc = "poll_is"
    /\ Return(FALSE) /\ UNCHANGED hba

\* Faulty: the error is not looked at.
MutPollIsBlind ==
    /\ pc = "poll_is"
    /\ pc' = "poll_ci"
    /\ UNCHANGED <<port_type, hba, base, cmd, dev, disk, pool, held, mapped, op, data>>

PollIs ==
    /\ pc = "poll_is"
    /\ IF hba.tfes THEN Return(FALSE) /\ UNCHANGED hba
       ELSE /\ pc' = "poll_ci"
            /\ UNCHANGED <<port_type, hba, base, cmd, dev, disk, pool, held, mapped, op, data>>

Driver ==
    \/ \E d \in {"present", "none"}, i \in {"active", "partial"},
          g \in {"SATA", "SATAPI", "PM", "SEMB", "other"} : ProbePort(d, i, g)
    \/ ConfigurePort
    \/ StartPort
    \/ \E s \in Starts, n \in Counts : ReadVirt(s, n) \/ WriteVirt(s, n)
    \/ SpinTimeout
    \/ Prepare
    \/ Issue
    \/ PollCi
    \/ PollIs

-----------------------------------------------------------------------------
\* The controller (external).

driverVars == <<port_type, base, cmd, pool, held, mapped, pc, op>>

\* FR follows FRE.
ReceiveFollows ==
    /\ hba.fr # hba.fre
    /\ hba' = [hba EXCEPT !.fr = hba.fre]
    /\ UNCHANGED <<driverVars, dev, disk, data>>

\* CR follows ST.  Stopping forgets the commands issued.
EngineFollows ==
    /\ hba.cr # hba.st
    /\ hba' = [hba EXCEPT !.cr = hba.st, !.ci = @ /\ hba.st]
    /\ dev' = IF hba.st THEN dev ELSE [dev EXCEPT !.active = FALSE, !.halted = FALSE]
    /\ UNCHANGED <<driverVars, disk, data>>

\* The device becomes ready after it was powered up.
BecomeReady ==
    /\ hba.busy /\ ~dev.active
    /\ hba' = [hba EXCEPT !.busy = FALSE]
    /\ UNCHANGED <<driverVars, dev, disk, data>>

Running == hba.cr /\ hba.fr /\ ~dev.halted

Fetch ==
    /\ Running /\ hba.ci /\ ~dev.active /\ ~hba.busy
    /\ hba' = [hba EXCEPT !.busy = TRUE]
    /\ dev' = [dev EXCEPT !.active = TRUE, !.done = 0]
    /\ UNCHANGED <<driverVars, disk, data>>

\* One sector.  Behind the last there is room for, a command completes or fails.  A packet
\* device does not take the READ and WRITE DMA commands.
Transfer ==
    /\ dev.active /\ dev.done < cmd.count
    /\ port_type = "SATA" /\ cmd.lba + dev.done \in Sector
    /\ dev' = [dev EXCEPT !.done = @ + 1]
    /\ IF cmd.write
       THEN disk' = [disk EXCEPT ![cmd.lba + dev.done] = data[dev.done]] /\ UNCHANGED data
       ELSE data' = [data EXCEPT ![dev.done] = disk[cmd.lba + dev.done]] /\ UNCHANGED disk
    /\ UNCHANGED <<driverVars, hba>>

Complete ==
    /\ dev.active /\ dev.done = cmd.count
    /\ hba' = [hba EXCEPT !.ci = FALSE, !.busy = FALSE]
    /\ dev' = [dev EXCEPT !.active = FALSE, !.done = 0]
    /\ UNCHANGED <<driverVars, disk, data>>

\* A task file error.  The controller takes no command until ST is cleared.
Fail ==
    /\ dev.active
    /\ hba' = [hba EXCEPT !.tfes = TRUE, !.busy = FALSE]
    /\ dev' = [active |-> FALSE, done |-> 0, halted |-> TRUE]
    /\ UNCHANGED <<driverVars, disk, data>>

Work == Fetch \/ Transfer \/ Complete \/ Fail

Next == Driver \/ ReceiveFollows \/ EngineFollows \/ BecomeReady \/ Work

\* The driver's code runs on, and the controller does what it is asked or
\* reports an error.  Nobody need call the driver.
Fairness ==
    /\ WF_vars(ConfigurePort \/ StartPort)
    /\ WF_vars(SpinTimeout \/ Prepare \/ Issue \/ PollCi \/ PollIs)
    /\ WF_vars(ReceiveFollows) /\ WF_vars(EngineFollows) /\ WF_vars(BecomeReady) /\ WF_vars(Work)

Spec == Init /\ [][Next]_vars /\ Fairness

-----------------------------------------------------------------------------
Calling == pc \in {"spin", "issue", "poll_ci", "poll_is"}

\* Whenever the controller may fetch or move data, the command list, the FIS
\* area, slot 0's table and every page of the buffer belong to the driver:
\* no buffer goes back to the allocator under a running command.
DmaOwned ==
    (Running /\ hba.ci) \/ dev.active =>
        {base.list, base.fis, base.tables[0]}
            \cup (cmd.buf..cmd.buf + CeilDiv(cmd.count, SectorsPerPage) - 1)
            \subseteq HeldPages

\* The addresses of the command list, of the tables and of the area for FISes do not change
\* as long as the engine that uses them runs, nor slot 0's table under an issued command.
CommandStable ==
    [][/\ hba.cr => base'.list = base.list /\ base'.tables = base.tables
       /\ hba.fr => base'.fis = base.fis
       /\ Running /\ hba.ci => cmd' = cmd]_vars

\* Where a call starts and how many sectors it is for: what was asked, if three bytes and a
\* PRDT entry can say it, or else what they do say.
SaidStart(start) == IF start < Radix * Radix * Radix THEN start ELSE FisLba(start)
SaidCount(count) == IF count <= PrdtSectors THEN count ELSE Described(count)

\* What BlockDevice sees: a call from when it begins to when it returns, which it does
\* not after a fault, and its answer.
diskCall ==
    IF ~(Calling \/ pc = "fault")
    THEN [kind |-> "none", start |-> 0, count |-> 0, content |-> <<>>]
    ELSE [kind |-> op.kind, start |-> SaidStart(op.start), count |-> SaidCount(op.count),
          content |-> IF op.kind = "read" THEN <<>>
                      ELSE [k \in 0..SaidCount(op.count) - 1 |-> DiskSize + k]]

diskAnswer ==
    [ok |-> op.ok, data |-> IF op.ok /\ op.kind = "read"
                            THEN [k \in 0..SaidCount(op.count) - 1 |-> op.data[k]] ELSE <<>>]

\* The driver and the controller implement the disk that the file systems take
\* for granted: a call that returned true read what the disk holds, or made the
\* disk hold what the caller passed, in every sector and in order; nothing but a
\* running write changes the disk, only in the sectors it names and from the first
\* one on; also when the call fails.  A call for more than the PRDT has room for does
\* that for the sectors that are left of it, one whose sector number has a fourth byte
\* for another sector.
BlockDev == INSTANCE BlockDevice WITH call <- diskCall, answer <- diskAnswer
ImplementsDisk == BlockDev!DeviceSpec

\* No read keeps pages after it has returned, also when it failed.
ReadsKeepNothing == pc = "idle" => \A r \in held : r.for # "read"

\* A call returns unless the controller had stopped on an error of an earlier
\* call, after which the driver waits for ever: it never restarts the port.
CallsReturn == (Calling /\ ~dev.halted) ~> (pc = "idle")
=============================================================================
