----------------------------- MODULE Boot_proofs -----------------------------
(***************************************************************************)
(* For every machine that BootAssumption allows, what is mounted is the       *)
(* second partition of a GPT disk of the controller found last, and the       *)
(* screen shows the end of the log.                                          *)
(***************************************************************************)
EXTENDS Boot, FiniteSetTheorems, SequenceTheorems, TLAPS

IsSequence(s) == \E S : s \in Seq(S)

-----------------------------------------------------------------------------
\* Invariants.

IsPorts(ports) == IsSequence(ports) /\ \A k \in DOMAIN ports : IsPort(ports[k])

\* A controller that is being initialised is one of the machine's, and of the ports kept
\* each is one of a controller's.
Found ==
    /\ machine \in Machines
    /\ todo \subseteq machine.headers
    /\ pc = "probe" => controller \in machine.headers /\ controller.class = "ahci"
    /\ IsPorts(ahci_info)
    /\ IsSequence(pci_drivers)
    /\ \A d \in DOMAIN pci_drivers : IsPorts(pci_drivers[d])

AfterChoice == {"disk", "header", "table", "register", "open", "unopened", "load",
                "user"}
AfterDisk == AfterChoice \ {"disk"}

Chosen ==
    /\ pc \in AfterChoice => pci_drivers # <<>> /\ ahci_driver = Last(pci_drivers)
    /\ pc = "disk" => i \in Nat /\ i >= 1
    /\ pc \in AfterDisk => /\ is_gpt(best_port.header)
                           /\ \E k \in DOMAIN ahci_driver : best_port = ahci_driver[k]

\* The used entries among the first n.
UsedUpTo(table, n) == {k \in 1..n : ~gpt_is_unused_partition(table[k])}

IsFirst(a, used) == a \in used /\ \A k \in used : a <= k

\* Of a register what is second is the second used entry among the first n of a table.
InOrder(register, table, n) ==
    LET used == UsedUpTo(table, n)
    IN  /\ Len(register) = 0 => used = {} \/ MaxPartitions = 0
        /\ Len(register) = 1 => MaxPartitions <= 1 \/ \E a : used = {a}
        /\ Len(register) >= 2 => \E a, b : /\ IsFirst(a, used) /\ IsFirst(b, used \ {a})
                                         /\ register[2] = table[b]

Early == {"start", "memory", "tables", "acpi", "pci", "probe", "disk", "header", "table"}

TableRead ==
    /\ IsSequence(gpt_partitions)
    /\ pc \in Early => gpt_partitions = <<>>
    /\ pc \in Early \cup {"register"} => mounted = NULL
    /\ pc = "register" =>
          /\ IsSequence(partitions) /\ Len(partitions) >= EntriesPerSector
          /\ \A k \in 1..EntriesPerSector : partitions[k] = best_port.table[k]
          /\ i \in 1..Len(partitions) + 1
          /\ InOrder(gpt_partitions, partitions, i - 1)

PartitionInv == Found /\ Chosen /\ TableRead /\ FromSecondPartition

-----------------------------------------------------------------------------
\* Sequences whose members are of no interest.

LEMMA EmptyIsOne == IsSequence(<<>>) /\ Len(<<>>) = 0
<1>1. <<>> \in Seq({})
  OBVIOUS
<1> QED  BY <1>1 DEF IsSequence

LEMMA Appending ==
  ASSUME NEW s, IsSequence(s), NEW x
  PROVE  /\ IsSequence(Append(s, x)) /\ Len(s) \in Nat
         /\ Len(Append(s, x)) = Len(s) + 1
         /\ DOMAIN s = 1..Len(s) /\ DOMAIN Append(s, x) = 1..Len(s) + 1
         /\ \A k \in 1..Len(s) : Append(s, x)[k] = s[k]
         /\ Append(s, x)[Len(s) + 1] = x
<1>1. PICK S : s \in Seq(S)
  BY DEF IsSequence
<1>2. s \in Seq(S \cup {x}) /\ x \in S \cup {x}
  BY <1>1
<1> HIDE DEF IsSequence
<1>3. Append(s, x) \in Seq(S \cup {x})
  BY <1>2
<1>4. IsSequence(Append(s, x))
  BY <1>3 DEF IsSequence
<1>5. DOMAIN s = 1..Len(s)
  BY <1>1
<1>6. DOMAIN Append(s, x) = 1..Len(Append(s, x))
  BY <1>3
<1>7. /\ Len(s) \in Nat /\ Len(Append(s, x)) = Len(s) + 1
      /\ \A k \in 1..Len(s) : Append(s, x)[k] = s[k]
      /\ Append(s, x)[Len(s) + 1] = x
  BY <1>2
<1> QED  BY <1>4, <1>5, <1>6, <1>7

LEMMA AppendedPorts ==
  ASSUME NEW ports, IsPorts(ports), NEW port, IsPort(port)
  PROVE  IsPorts(Append(ports, port))
<1>1. IsSequence(ports) /\ \A k \in DOMAIN ports : IsPort(ports[k])
  BY DEF IsPorts
<1> DEFINE t == Append(ports, port)
<1>2. /\ IsSequence(t) /\ Len(ports) \in Nat
      /\ DOMAIN ports = 1..Len(ports) /\ DOMAIN t = 1..Len(ports) + 1
      /\ \A k \in 1..Len(ports) : t[k] = ports[k]
      /\ t[Len(ports) + 1] = port
  BY <1>1, Appending
<1> HIDE DEF t
<1>3. \A k \in DOMAIN t : k \in DOMAIN ports \/ k = Len(ports) + 1
  BY <1>2
<1>4. \A k \in DOMAIN t : IsPort(t[k])
  BY <1>1, <1>2, <1>3
<1> QED  BY <1>2, <1>4 DEF IsPorts, t

LEMMA AppendedDrivers ==
  ASSUME NEW drivers, IsSequence(drivers), \A d \in DOMAIN drivers : IsPorts(drivers[d]),
         NEW ports, IsPorts(ports)
  PROVE  /\ IsSequence(Append(drivers, ports))
         /\ \A d \in DOMAIN Append(drivers, ports) : IsPorts(Append(drivers, ports)[d])
<1> DEFINE t == Append(drivers, ports)
<1>2. /\ IsSequence(t) /\ Len(drivers) \in Nat
      /\ DOMAIN drivers = 1..Len(drivers) /\ DOMAIN t = 1..Len(drivers) + 1
      /\ \A k \in 1..Len(drivers) : t[k] = drivers[k]
      /\ t[Len(drivers) + 1] = ports
  BY Appending
<1> HIDE DEF t
<1>3. \A k \in DOMAIN t : k \in DOMAIN drivers \/ k = Len(drivers) + 1
  BY <1>2
<1>4. \A k \in DOMAIN t : IsPorts(t[k])
  BY <1>2, <1>3
<1> QED  BY <1>2, <1>4 DEF t

LEMMA LastOne ==
  ASSUME NEW s, IsSequence(s), s # <<>>
  PROVE  Len(s) \in DOMAIN s
<1>1. PICK S : s \in Seq(S)
  BY DEF IsSequence
<1>2. Len(s) \in Nat /\ DOMAIN s = 1..Len(s) /\ Len(s) # 0
  BY <1>1
<1> QED  BY <1>2

-----------------------------------------------------------------------------
\* Finding the controller and the disk.

LEMMA FoundStep ==
  ASSUME Found, [Next]_vars
  PROVE  Found'
<1>0. SUFFICES ASSUME Next PROVE Found'
  BY DEF vars, found, pci, Found
<1>1. CASE NextSegment
  <2>1. /\ todo' \subseteq machine.headers /\ machine' = machine /\ pc' = pc /\ pc = "pci"
        /\ UNCHANGED <<controller, ahci_info, pci_drivers>>
    BY <1>1 DEF NextSegment, Visited, At
  <2> QED  BY <2>1 DEF Found
<1>2. CASE FunctionEnumerate
  <2>1. PICK header \in todo :
           /\ \/ Wild /\ UNCHANGED ahci_info
              \/ UNCHANGED <<pc, ahci_info>>
              \/ header.class = "ahci" /\ controller' = header /\ ahci_info' = <<>>
           /\ todo' = todo \ {header}
    BY <1>2 DEF FunctionEnumerate
  <2>2. UNCHANGED <<machine, pci_drivers>> /\ pc = "pci"
    BY <1>2 DEF FunctionEnumerate, At
  <2>3. header.class \in {"ahci", "other", "unclassed"} /\ header \in machine.headers
    BY BootAssumption DEF Found, pci_device_header
  <2>4. IsPorts(<<>>)
    BY EmptyIsOne DEF IsPorts
  <2>5. /\ ahci_info' \in {ahci_info, <<>>}
        /\ pc' = "probe" => controller' = header /\ header.class = "ahci"
    BY <2>1, <2>2, <2>3 DEF Wild, GoesTo
  <2> QED  BY <2>1, <2>2, <2>3, <2>4, <2>5 DEF Found
<1>3. CASE ProbePort
  <2>1. /\ pc = "probe" /\ UNCHANGED <<machine, pc, todo, controller, pci_drivers>>
        /\ i \in DOMAIN machine.ports[controller]
        /\ ahci_info' \in {ahci_info, Append(ahci_info, machine.ports[controller][i])}
    BY <1>3 DEF ProbePort, At
  <2>2. IsPort(machine.ports[controller][i])
    BY <2>1, BootAssumption DEF Found
  <2>3. IsPorts(ahci_info')
    BY <2>1, <2>2, AppendedPorts DEF Found
  <2> QED  BY <2>1, <2>3 DEF Found
<1>4. CASE AddDriver
  <2>1. /\ pc' # "probe" /\ UNCHANGED <<machine, todo, controller, ahci_info>>
        /\ pci_drivers' \in {pci_drivers, Append(pci_drivers, ahci_info)}
    BY <1>4 DEF AddDriver, Wild, GoesTo
  <2>2. IsSequence(pci_drivers') /\ \A d \in DOMAIN pci_drivers' : IsPorts(pci_drivers'[d])
    BY <2>1, AppendedDrivers DEF Found
  <2> QED  BY <2>1, <2>2 DEF Found
<1>5. CASE ~NextSegment /\ ~FunctionEnumerate /\ ~ProbePort /\ ~AddDriver
  <2>1. UNCHANGED <<machine, pci>> /\ pc' \in {pc} \cup AfterChoice \cup
           {"memory", "halted", "tables", "acpi", "pci", "panicked", "wild", "reset"}
    BY <1>0, <1>5 DEF Next, Logs, Start, DetectMemory, InitProcessor, FindMcfg, ChooseDriver,
       TryPort, NoDisk, ReadHeader, ReadTable, Register, Mount, Open, UseFile, Load, found, AfterChoice,
       GoesTo, Panic, Wild, Fault
  <2> QED  BY <2>1 DEF Found, pci, AfterChoice
<1> QED  BY <1>1, <1>2, <1>3, <1>4, <1>5

LEMMA ChosenStep ==
  ASSUME Found, Chosen, [Next]_vars
  PROVE  Chosen'
<1>1. CASE ChooseDriver
  <2>1. \/ pc' \in {"panicked", "wild"}
        \/ /\ pc' = "disk" /\ i' = 1 /\ pci_drivers # <<>> /\ ahci_driver' = Last(pci_drivers)
           /\ pci_drivers' = pci_drivers
    BY <1>1 DEF ChooseDriver, Panic, Wild, GoesTo, pci
  <2> QED  BY <2>1 DEF Chosen, AfterChoice, AfterDisk
<1>2. CASE TryPort
  <2>1. /\ pc = "disk" /\ UNCHANGED <<pci_drivers, ahci_driver>>
        /\ i \in Nat /\ 1 <= i /\ i <= Len(ahci_driver)
        /\ \/ /\ is_gpt(ahci_driver[i].header)
              /\ best_port' = ahci_driver[i] /\ pc' = "header"
           \/ i' = i + 1 /\ pc' = pc
    BY <1>2 DEF TryPort, At, GoesTo, pci, Chosen, AfterChoice
  <2>2. pci_drivers # <<>> /\ ahci_driver = Last(pci_drivers)
    BY <2>1 DEF Chosen, AfterChoice
  <2>3. Len(pci_drivers) \in DOMAIN pci_drivers
    BY <2>2, LastOne DEF Found
  <2>4. IsSequence(ahci_driver)
    BY <2>2, <2>3 DEF Found, IsPorts, Last
  <2>5. i \in DOMAIN ahci_driver
    <3>1. PICK S : ahci_driver \in Seq(S)
      BY <2>4 DEF IsSequence
    <3> QED  BY <2>1, <3>1
  <2> QED  BY <2>1, <2>2, <2>5 DEF Chosen, AfterChoice, AfterDisk
<1>3. CASE ReadTable
  <2>1. pc = "table" /\ pc' \in {"register", "panicked", "wild"}
    BY <1>3 DEF ReadTable, At, Panic, Wild, GoesTo
  <2>2. UNCHANGED <<pci_drivers, ahci_driver, best_port>>
    BY <1>3 DEF ReadTable, pci
  <2> QED  BY <2>1, <2>2 DEF Chosen, AfterChoice, AfterDisk
<1>4. CASE Register
  <2>1. pc = "register" /\ UNCHANGED <<pc, pci_drivers, ahci_driver, best_port>>
    BY <1>4 DEF Register, At, pci
  <2> QED  BY <2>1 DEF Chosen, AfterChoice, AfterDisk
<1>5. CASE Logs \/ UNCHANGED vars
  <2>1. UNCHANGED <<pc, pci_drivers, ahci_driver, best_port, i>>
    BY <1>5 DEF Logs, vars, found, pci, gpt
  <2> QED  BY <2>1 DEF Chosen
<1>6. CASE NextSegment \/ FunctionEnumerate \/ ProbePort \/ AddDriver
  <2>1. pc' \in {"pci", "probe", "wild"}
    BY <1>6 DEF NextSegment, FunctionEnumerate, ProbePort, AddDriver, At, Wild, GoesTo
  <2> QED  BY <2>1 DEF Chosen, AfterChoice, AfterDisk
<1>7. CASE Start \/ DetectMemory \/ InitProcessor \/ FindMcfg \/ NoDisk
  <2>1. pc' \in {"memory", "halted", "tables", "acpi", "pci", "panicked", "wild"}
    BY <1>7 DEF Start, DetectMemory, InitProcessor, FindMcfg, NoDisk, Panic, Wild, GoesTo
  <2> QED  BY <2>1 DEF Chosen, AfterChoice, AfterDisk
<1>8. CASE ReadHeader \/ Mount \/ Open \/ UseFile \/ Load
  <2>1. pc \in AfterDisk /\ pc' # "disk" /\ pc \in AfterChoice
    BY <1>8 DEF ReadHeader, Mount, Open, UseFile, Load, At, Panic, Wild, Fault, GoesTo, AfterDisk, AfterChoice
  <2>2. UNCHANGED <<pci_drivers, ahci_driver, best_port>>
    BY <1>8 DEF ReadHeader, Mount, Open, UseFile, Load, found, pci, gpt
  <2> QED  BY <2>1, <2>2 DEF Chosen
<1> QED  BY <1>1, <1>2, <1>3, <1>4, <1>5, <1>6, <1>7, <1>8 DEF Next

-----------------------------------------------------------------------------
\* Registering the entries of a table.

LEMMA OneMore ==
  ASSUME NEW table, NEW n \in Nat
  PROVE  /\ UsedUpTo(table, n + 1) =
               IF gpt_is_unused_partition(table[n + 1]) THEN UsedUpTo(table, n)
               ELSE UsedUpTo(table, n) \cup {n + 1}
         /\ UsedUpTo(table, n) \subseteq 1..n
<1>1. 1..n + 1 = (1..n) \cup {n + 1}
  OBVIOUS
<1> QED  BY <1>1 DEF UsedUpTo

LEMMA RegisterEntry ==
  ASSUME NEW table, NEW n \in Nat, NEW register, IsSequence(register),
         InOrder(register, table, n)
  PROVE  /\ IsSequence(Registered(register, table[n + 1]))
         /\ InOrder(Registered(register, table[n + 1]), table, n + 1)
<1> DEFINE used == UsedUpTo(table, n)
           more == UsedUpTo(table, n + 1)
           then == Registered(register, table[n + 1])
<1>1. CASE gpt_is_unused_partition(table[n + 1])
  <2>1. then = register /\ more = used
    BY <1>1, OneMore DEF Registered
  <2> QED  BY <2>1 DEF InOrder
<1>2. CASE ~gpt_is_unused_partition(table[n + 1])
  <2>1. more = used \cup {n + 1} /\ used \subseteq 1..n
    BY <1>2, OneMore
  <2>2. Len(register) \in Nat /\ MaxPartitions \in Nat
    BY Appending, GptTableAssumption
  <2>3. /\ Len(register) = 0 => used = {} \/ MaxPartitions = 0
        /\ Len(register) = 1 => MaxPartitions <= 1 \/ \E a : used = {a}
        /\ Len(register) >= 2 => \E a, b : /\ IsFirst(a, used) /\ IsFirst(b, used \ {a})
                                           /\ register[2] = table[b]
    BY DEF InOrder
  <2>4. ASSUME NEW a, NEW b, IsFirst(a, used), IsFirst(b, used \ {a})
        PROVE  IsFirst(a, more) /\ IsFirst(b, more \ {a})
    <3>1. a \in 1..n /\ b \in 1..n
      BY <2>1, <2>4 DEF IsFirst
    <3>2. a <= n + 1 /\ b <= n + 1
      BY <3>1
    <3> HIDE DEF used, more
    <3> QED  BY <2>1, <2>4, <3>2 DEF IsFirst
  <2>5. CASE Len(register) >= MaxPartitions
    <3>1. then = register
      BY <1>2, <2>5 DEF Registered, gpt_register_partition
    <3>2. Len(register) = 0 => MaxPartitions = 0
      BY <2>2, <2>5
    <3>3. Len(register) = 1 => MaxPartitions <= 1
      BY <2>2, <2>5
    <3>4. Len(register) >= 2 => \E a, b : /\ IsFirst(a, more) /\ IsFirst(b, more \ {a})
                                          /\ register[2] = table[b]
      BY <2>3, <2>4
    <3> QED  BY <3>1, <3>2, <3>3, <3>4 DEF InOrder
  <2>6. CASE Len(register) < MaxPartitions
    <3>1. then = Append(register, table[n + 1])
      BY <1>2, <2>2, <2>6 DEF Registered, gpt_register_partition
    <3>2. /\ IsSequence(then) /\ Len(then) = Len(register) + 1
          /\ \A k \in 1..Len(register) : then[k] = register[k]
          /\ then[Len(register) + 1] = table[n + 1]
      BY <3>1, Appending
    <3>a. \A a, b, m \in Nat : a < m /\ b = a + 1 =>
             /\ b # 0 /\ (b = 1 => a = 0 /\ m # 0)
             /\ (b >= 2 /\ a < 2 => a = 1 /\ ~(m <= 1))
      OBVIOUS
    <3>b. Len(then) \in Nat
      BY <2>2, <3>2
    <3>c. /\ Len(then) # 0 /\ (Len(then) = 1 => Len(register) = 0 /\ MaxPartitions # 0)
          /\ (Len(then) >= 2 /\ Len(register) < 2 => Len(register) = 1 /\ ~(MaxPartitions <= 1))
      BY <2>2, <2>6, <3>a, <3>b, <3>2
    <3> HIDE DEF then
    <3>3. Len(then) # 0
      BY <3>c
    <3>4. Len(then) = 1 => \E a : more = {a}
      <4>1. Len(then) = 1 => Len(register) = 0 /\ MaxPartitions # 0
        BY <3>c
      <4>2. Len(then) = 1 => more = {n + 1}
        BY <2>1, <2>3, <4>1
      <4> QED  BY <4>2
    <3>5. ASSUME Len(then) >= 2
          PROVE  \E a, b : /\ IsFirst(a, more) /\ IsFirst(b, more \ {a})
                           /\ then[2] = table[b]
      <4>1. CASE Len(register) >= 2
        <5>1. then[2] = register[2]
          BY <2>2, <3>2, <4>1
        <5> QED  BY <2>3, <2>4, <4>1, <5>1
      <4>2. CASE Len(register) < 2
        <5>1. Len(register) = 1 /\ ~(MaxPartitions <= 1)
          BY <3>5, <3>c, <4>2
        <5>2. PICK a : used = {a}
          BY <2>3, <5>1
        <5>3. a \in Nat /\ a <= n /\ a <= n + 1 /\ a # n + 1 /\ a <= a /\ n + 1 <= n + 1
          BY <2>1, <5>2
        <5> HIDE DEF used, more
        <5>4. more = {a, n + 1} /\ more \ {a} = {n + 1}
          BY <2>1, <5>2, <5>3
        <5>5. IsFirst(a, more) /\ IsFirst(n + 1, more \ {a})
          BY <5>3, <5>4 DEF IsFirst
        <5>6. then[2] = table[n + 1]
          BY <3>2, <5>1
        <5> QED  BY <5>5, <5>6
      <4>3. Len(register) >= 2 \/ Len(register) < 2
        BY <2>2
      <4> QED  BY <4>1, <4>2, <4>3
    <3> QED  BY <3>2, <3>3, <3>4, <3>5 DEF InOrder, then
  <2> QED  BY <2>2, <2>5, <2>6
<1> QED  BY <1>1, <1>2


\* A disk's sector of entries, of as many as there are, with what malloc left behind it.
LEMMA BufferIs ==
  ASSUME NEW table, NEW T, table \in [1..EntriesPerSector -> T],
         NEW n \in Nat, NEW rest \in [1..n -> Leftover]
  PROVE  /\ IsSequence(table \o rest) /\ Len(table \o rest) >= EntriesPerSector
         /\ \A k \in 1..EntriesPerSector : (table \o rest)[k] = table[k]
<1> DEFINE S == T \cup Leftover
<1>1. table \in [1..4 -> S] /\ rest \in [1..n -> S]
  BY DEF EntriesPerSector
<1> HIDE DEF S
<1>2. table \in Seq(S) /\ Len(table) = 4 /\ rest \in Seq(S) /\ Len(rest) = n
  <2>1. \A m \in Nat : \A f \in [1..m -> S] : f \in Seq(S) /\ Len(f) = m
    OBVIOUS
  <2> QED  BY <1>1, <2>1
<1>3. /\ table \o rest \in Seq(S) /\ Len(table \o rest) = 4 + n
      /\ \A k \in 1..4 : (table \o rest)[k] = table[k]
  <2>1. \A s, t \in Seq(S) : /\ s \o t \in Seq(S) /\ Len(s \o t) = Len(s) + Len(t)
                              /\ \A k \in 1..Len(s) : (s \o t)[k] = s[k]
    OBVIOUS
  <2>2. /\ table \o rest \in Seq(S) /\ Len(table \o rest) = Len(table) + Len(rest)
        /\ \A k \in 1..Len(table) : (table \o rest)[k] = table[k]
    BY <1>2, <2>1, Zenon
  <2> QED  BY <1>2, <2>2
<1>4. IsSequence(table \o rest)
  BY <1>3 DEF IsSequence
<1> QED  BY <1>3, <1>4 DEF EntriesPerSector

LEMMA BestIsPort ==
  ASSUME Found, Chosen, pc \in AfterDisk
  PROVE  IsPort(best_port)
<1>1. pci_drivers # <<>> /\ ahci_driver = Last(pci_drivers)
  BY DEF Chosen, AfterDisk
<1>2. Len(pci_drivers) \in DOMAIN pci_drivers
  BY <1>1, LastOne DEF Found
<1>3. IsPorts(ahci_driver)
  BY <1>1, <1>2 DEF Found, Last
<1> QED  BY <1>3 DEF Chosen, IsPorts

LEMMA TableStep ==
  ASSUME Found, Chosen, TableRead, [Next]_vars
  PROVE  TableRead'
<1>1. CASE ReadTable
  <2>1. pc = "table" /\ UNCHANGED <<mounted, best_port, gpt_partitions>>
    BY <1>1 DEF ReadTable, At
  <2>2. gpt_partitions = <<>> /\ mounted = NULL
    BY <2>1 DEF TableRead, Early
  <2>3. CASE pc' \in {"panicked", "wild"}
    BY <2>1, <2>3 DEF TableRead, Early
  <2>4. CASE pc' \notin {"panicked", "wild"}
    <3>1. /\ pc' = "register" /\ i' = 1
          /\ ~(best_port.header.entry_count < EntriesPerSector)
          /\ \E rest \in [1..best_port.header.entry_count - EntriesPerSector -> Leftover] :
                partitions' = best_port.table \o rest
      BY <1>1, <2>4 DEF ReadTable, Panic, Wild, GoesTo
    <3>2. IsPort(best_port)
      BY <2>1, BestIsPort DEF AfterDisk, AfterChoice
    <3>3. /\ best_port.table \in [1..EntriesPerSector -> gpt_partition_entry]
          /\ best_port.header.entry_count \in Nat
      <4>1. \A S : \A h \in [signature : S, entry_count : Nat] : h.entry_count \in Nat
        OBVIOUS
      <4>2. best_port.header \in gpt_header
        BY <3>2 DEF IsPort
      <4>3. best_port.header.entry_count \in Nat
        BY <4>1, <4>2, Zenon DEF gpt_header
      <4> QED  BY <3>2, <4>3 DEF IsPort
    <3>4. best_port.header.entry_count - EntriesPerSector \in Nat
      BY <3>1, <3>3 DEF EntriesPerSector
    <3>5. /\ IsSequence(partitions') /\ Len(partitions') >= EntriesPerSector
          /\ \A k \in 1..EntriesPerSector : partitions'[k] = best_port.table[k]
      <4>1. PICK rest \in [1..best_port.header.entry_count - EntriesPerSector -> Leftover] :
                    partitions' = best_port.table \o rest
        BY <3>1
      <4> DEFINE n == best_port.header.entry_count - EntriesPerSector
                 t == best_port.table
      <4>2. n \in Nat /\ rest \in [1..n -> Leftover]
            /\ t \in [1..EntriesPerSector -> gpt_partition_entry]
        BY <3>3, <3>4
      <4> HIDE DEF n, t
      <4>3. /\ IsSequence(t \o rest) /\ Len(t \o rest) >= EntriesPerSector
            /\ \A k \in 1..EntriesPerSector : (t \o rest)[k] = t[k]
        BY <4>2, BufferIs
      <4> QED  BY <4>1, <4>3 DEF t
    <3>6. i' \in 1..Len(partitions') + 1 /\ i' - 1 = 0
      <4>1. Len(partitions') \in Nat
        BY <3>5, Appending
      <4> QED  BY <3>1, <4>1
    <3>7. UsedUpTo(partitions', 0) = {}
      BY DEF UsedUpTo
    <3>8. InOrder(<<>>, partitions', 0)
      BY <3>7, EmptyIsOne DEF InOrder
    <3> QED  BY <2>1, <2>2, <3>1, <3>5, <3>6, <3>8 DEF TableRead, Early
  <2> QED  BY <2>3, <2>4
<1>2. CASE Register
  <2>1. /\ pc = "register" /\ i <= Len(partitions) /\ i' = i + 1
        /\ UNCHANGED <<pc, mounted, best_port, partitions>>
        /\ gpt_partitions' = Registered(gpt_partitions, partitions[i])
    BY <1>2 DEF Register, At
  <2>2. /\ IsSequence(gpt_partitions) /\ IsSequence(partitions)
        /\ i \in 1..Len(partitions) + 1 /\ InOrder(gpt_partitions, partitions, i - 1)
    BY <2>1 DEF TableRead
  <2>3. Len(partitions) \in Nat
    BY <2>2, Appending
  <2>4. i - 1 \in Nat /\ (i - 1) + 1 = i /\ i' - 1 = i /\ i' \in 1..Len(partitions) + 1
    BY <2>1, <2>2, <2>3
  <2>5. /\ IsSequence(gpt_partitions')
        /\ InOrder(gpt_partitions', partitions, i)
    <3> DEFINE n == i - 1
    <3>1. n \in Nat /\ n + 1 = i /\ InOrder(gpt_partitions, partitions, n)
      BY <2>2, <2>4
    <3> HIDE DEF n
    <3>2. /\ IsSequence(Registered(gpt_partitions, partitions[n + 1]))
          /\ InOrder(Registered(gpt_partitions, partitions[n + 1]), partitions, n + 1)
      BY <2>2, <3>1, RegisterEntry
    <3> QED  BY <2>1, <3>1, <3>2
  <2> QED  BY <2>1, <2>4, <2>5 DEF TableRead, Early
<1>3. CASE Mount
  <2>1. pc = "register" /\ pc' \in {"open", "panicked", "reset"} /\ UNCHANGED gpt_partitions
    BY <1>3 DEF Mount, At, Fault, Panic, GoesTo, found, gpt
  <2> QED  BY <2>1 DEF TableRead, Early
<1>4. CASE Open \/ UseFile \/ Load
  <2>1. pc' \in {"unopened", "load", "user", "halted", "panicked", "reset", "wild"} /\ UNCHANGED gpt_partitions
    BY <1>4 DEF Open, UseFile, Load, At, Fault, Panic, Wild, GoesTo, found, gpt
  <2> QED  BY <2>1 DEF TableRead, Early
<1>5. CASE Logs \/ UNCHANGED vars
  <2>1. UNCHANGED <<pc, mounted, partitions, best_port, gpt_partitions, i>>
    BY <1>5 DEF Logs, vars, found, gpt
  <2> QED  BY <2>1 DEF TableRead
<1>6. CASE \/ Start \/ DetectMemory \/ InitProcessor \/ FindMcfg \/ NextSegment \/ FunctionEnumerate
           \/ ProbePort \/ AddDriver \/ ChooseDriver \/ TryPort \/ NoDisk \/ ReadHeader
  <2>1. pc \in Early /\ pc' # "register"
    BY <1>6 DEF Start, DetectMemory, InitProcessor, FindMcfg, NextSegment, FunctionEnumerate,
       ProbePort, AddDriver, ChooseDriver, TryPort, NoDisk, ReadHeader, At, Panic, Wild, GoesTo, Early
  <2>2. UNCHANGED <<mounted, gpt_partitions>>
    BY <1>6 DEF Start, DetectMemory, InitProcessor, FindMcfg, NextSegment, FunctionEnumerate,
       ProbePort, AddDriver, ChooseDriver, TryPort, NoDisk, ReadHeader, found, gpt
  <2> QED  BY <2>1, <2>2 DEF TableRead
<1> QED  BY <1>1, <1>2, <1>3, <1>4, <1>5, <1>6 DEF Next

\* Of a register of the whole table, the second is the second used one of the first sector.
LEMMA SecondIsMounted ==
  ASSUME NEW entries, NEW n \in Nat, n >= EntriesPerSector, NEW register,
         InOrder(register, entries, n), Len(register) >= 2,
         NEW table, table \in [1..EntriesPerSector -> gpt_partition_entry],
         \A k \in 1..EntriesPerSector : entries[k] = table[k],
         Cardinality(UsedIn(table)) >= 2
  PROVE  register[2] = table[Min(UsedIn(table) \ {Min(UsedIn(table))})]
<1> DEFINE used == UsedUpTo(entries, n)
           own  == UsedIn(table)
<1>1. PICK a, b : IsFirst(a, used) /\ IsFirst(b, used \ {a}) /\ register[2] = entries[b]
  BY DEF InOrder
<1>2. own \subseteq 1..4 /\ own \subseteq used /\ used \subseteq 1..n
      /\ \A k \in used : k <= 4 => k \in own
  BY DEF UsedIn, UsedUpTo, EntriesPerSector, gpt_is_unused_partition, gpt_partition_entry
<1>3. \E x, y \in own : x # y
  <2>1. Cardinality(own) >= 2
    OBVIOUS
  <2> HIDE DEF own
  <2>2. Cardinality(own) # 0 /\ Cardinality(own) # 1
    BY <2>1
  <2>3. own # {} /\ \A x : own # {x}
    BY <2>2, FS_EmptySet, FS_Singleton
  <2>4. PICK x \in own : TRUE
    BY <2>3
  <2>5. (\A y \in own : y = x) => own = {x}
    OBVIOUS
  <2> QED  BY <2>3, <2>4, <2>5, Zenon
<1> HIDE DEF used, own
<1>4. a \in Nat /\ b \in Nat /\ a # b /\ a \in used /\ b \in used
  BY <1>1, <1>2 DEF IsFirst
<1>5. a <= 4 /\ b <= 4
  <2>1. PICK x \in own : x # a
    BY <1>3
  <2>2. x \in Nat /\ x <= 4 /\ x \in used
    BY <1>2, <2>1
  <2>3. a <= x /\ b <= x
    BY <1>1, <2>1, <2>2 DEF IsFirst
  <2> QED  BY <1>4, <2>2, <2>3
<1>6. IsFirst(a, own) /\ IsFirst(b, own \ {a})
  BY <1>1, <1>2, <1>4, <1>5 DEF IsFirst
<1>7. \A S \in SUBSET Nat : \A x : IsFirst(x, S) => Min(S) = x
  <2> SUFFICES ASSUME NEW S \in SUBSET Nat, NEW x, IsFirst(x, S) PROVE Min(S) = x
    OBVIOUS
  <2>1. x \in S /\ \A y \in S : x <= y
    BY DEF IsFirst
  <2> DEFINE m == Min(S)
  <2>2. m \in S /\ \A y \in S : m <= y
    BY <2>1 DEF Min
  <2> HIDE DEF m
  <2>3. m \in Nat /\ x \in Nat /\ m <= x /\ x <= m
    BY <2>1, <2>2
  <2>4. m = x
    BY <2>3
  <2> QED  BY <2>4 DEF m
<1>8. Min(own) = a /\ Min(own \ {a}) = b
  <2>1. own \in SUBSET Nat /\ own \ {a} \in SUBSET Nat
    <3>1. own \subseteq 1..4 /\ 1..4 \subseteq Nat
      BY <1>2
    <3> QED  BY <3>1
  <2> QED  BY <1>6, <1>7, <2>1
<1>9. entries[b] = table[b]
  <2>1. b \in 1..4
    BY <1>2, <1>4, <1>5
  <2> QED  BY <2>1 DEF EntriesPerSector
<1> QED  BY <1>1, <1>8, <1>9 DEF own

LEMMA PartitionStep ==
  ASSUME PartitionInv, [Next]_vars
  PROVE  PartitionInv'
<1>1. Found' /\ Chosen' /\ TableRead'
  BY FoundStep, ChosenStep, TableStep DEF PartitionInv
<1>2. FromSecondPartition'
  <2>1. CASE Mount
    <3>1. /\ pc = "register" /\ i > Len(partitions) /\ UNCHANGED <<best_port, pci_drivers>>
          /\ mounted = NULL
      BY <2>1 DEF Mount, At, found, pci, gpt, PartitionInv, TableRead
    <3>2. mounted' # NULL => mounted' = gpt_partitions[2] /\ ~(Len(gpt_partitions) < 2)
      BY <2>1, <3>1 DEF Mount, Root
    <3>3. SUFFICES ASSUME mounted' # NULL PROVE FromSecondPartition'
      BY DEF FromSecondPartition
    <3>4. /\ is_gpt(best_port.header) /\ \E k \in DOMAIN Last(pci_drivers) : Last(pci_drivers)[k] = best_port
      BY <3>1 DEF PartitionInv, Chosen, AfterDisk, AfterChoice
    <3>5. /\ IsSequence(partitions) /\ Len(partitions) >= EntriesPerSector
          /\ \A k \in 1..EntriesPerSector : partitions[k] = best_port.table[k]
          /\ i \in 1..Len(partitions) + 1 /\ InOrder(gpt_partitions, partitions, i - 1)
          /\ IsSequence(gpt_partitions)
      BY <3>1 DEF PartitionInv, TableRead
    <3>6. Len(partitions) \in Nat /\ Len(gpt_partitions) \in Nat
      BY <3>5, Appending
    <3>7. i - 1 = Len(partitions) /\ Len(gpt_partitions) >= 2
      BY <3>1, <3>2, <3>3, <3>5, <3>6
    <3>8. best_port.table \in [1..EntriesPerSector -> gpt_partition_entry]
      BY <3>1, BestIsPort DEF PartitionInv, AfterDisk, AfterChoice, IsPort
    <3>9. Cardinality(UsedIn(best_port.table)) >= 2 =>
            mounted' = best_port.table[Min(UsedIn(best_port.table) \ {Min(UsedIn(best_port.table))})]
      BY <3>2, <3>3, <3>5, <3>6, <3>7, <3>8, SecondIsMounted
    <3> QED  BY <3>1, <3>4, <3>9 DEF FromSecondPartition
  <2>2. CASE ~Mount
    <3>1. UNCHANGED mounted
      BY <2>2 DEF Next, Logs, Start, DetectMemory, InitProcessor, FindMcfg, NextSegment,
         FunctionEnumerate, ProbePort, AddDriver, ChooseDriver, TryPort, NoDisk, ReadHeader,
         ReadTable, Register, Open, UseFile, Load, vars
    <3>2. CASE mounted = NULL
      BY <3>1, <3>2 DEF FromSecondPartition
    <3>3. CASE mounted # NULL
      <4>1. pc \notin Early \cup {"register"}
        BY <3>3 DEF PartitionInv, TableRead
      <4>2. Logs \/ Open \/ UseFile \/ Load \/ UNCHANGED vars
        BY <2>2, <4>1 DEF Next, Start, DetectMemory, InitProcessor, FindMcfg, NextSegment,
           FunctionEnumerate, ProbePort, AddDriver, ChooseDriver, TryPort, NoDisk, ReadHeader,
           ReadTable, Register, At, Early
      <4>3. UNCHANGED <<best_port, pci_drivers>>
        BY <4>2 DEF Logs, Open, UseFile, Load, vars, found, pci, gpt
      <4> QED  BY <3>1, <4>3 DEF FromSecondPartition, PartitionInv
    <3> QED  BY <3>2, <3>3
  <2> QED  BY <2>1, <2>2
<1> QED  BY <1>1, <1>2 DEF PartitionInv

LEMMA PartitionInit ==
  ASSUME Init
  PROVE  PartitionInv
<1>1. IsPorts(<<>>) /\ IsSequence(<<>>)
  BY EmptyIsOne DEF IsPorts
<1>2. Found
  BY <1>1 DEF Init, Found
<1>3. Chosen /\ TableRead /\ FromSecondPartition
  BY <1>1 DEF Init, Chosen, AfterChoice, AfterDisk, TableRead, Early, FromSecondPartition
<1> QED  BY <1>2, <1>3 DEF PartitionInv

\* FromSecondPartition: what is mounted, and so the program that is loaded, comes from a
\* GPT disk of the controller that enumeration found last, and from the second used entry
\* of that disk's table, whatever devices, ports and tables the machine has.
THEOREM MountsSecondPartition == Spec => []FromSecondPartition
<1>1. Init => PartitionInv
  BY PartitionInit
<1>2. PartitionInv /\ [Next]_vars => PartitionInv'
  BY PartitionStep
<1>3. PartitionInv => FromSecondPartition
  BY DEF PartitionInv
<1> QED  BY <1>1, <1>2, <1>3, PTL DEF Spec


-----------------------------------------------------------------------------
\* The log.  Of each message the lines are sequences, a single line is not empty, and of
\* three or more the second is not: so a message that is too long for the screen shows.
IsLines(lines) ==
    IsSequence(lines) /\ Len(lines) >= 1 /\ \A k \in 1..Len(lines) : IsSequence(lines[k])

IsMessage(msg) ==
    /\ IsLines(msg)
    /\ Len(msg) = 1 => msg[1] # <<>>
    /\ Len(msg) >= 3 => msg[2] # <<>>

\* One line.
Small(msg) == Len(msg) = 2 /\ msg[2] = <<>>

Above(lines) == IF Len(lines) - 1 > MaxLines THEN Len(lines) - 1 - MaxLines ELSE 0

\* The rows of console c are the end of the lines.
Shows(c, lines) ==
    /\ IsSequence(c.rows) /\ Len(c.rows) = MaxLines
    /\ c.cursor_y = c.lines
    /\ c.lines = Len(lines) - 1 - Above(lines)
    /\ c.lines = MaxLines => lines[Len(lines)] = <<>>
    /\ \A r \in 1..MaxLines :
          c.rows[r] = IF Above(lines) + r \in DOMAIN lines THEN lines[Above(lines) + r] ELSE <<>>

Stopped == {"panicked", "halted"}

AreMessages(messages, place) ==
    /\ IsSequence(messages)
    /\ \A k \in 1..Len(messages) : /\ IsMessage(messages[k])
                                   /\ place \notin Stopped \cup {"tables"} => Small(messages[k])

\* What DetectMemory logs, and how many lines there are when each is written.
Version == Line(<<"version">>)
Memory == Line(<<"memory">>)
Sizes == << <<"Free">>, <<"Used">>, <<"Reserved">>, <<>> >>

Detected ==
    \/ pending = <<>>
    \/ pending = <<Sizes>> /\ Len(serial) = 3
    \/ pending = <<Memory, Sizes>> /\ Len(serial) = 2
    \/ pending = <<Version, Memory, Sizes>> /\ Len(serial) = 1

LogInv ==
    /\ IsLines(serial)
    /\ con # NULL => /\ con.outside \in BOOLEAN
                     /\ con.outside => pc \in Stopped
                     /\ ~con.outside => Shows(con, serial)
    /\ AreMessages(pending, pc)
    /\ pc = "tables" => Detected
    /\ pc \in {"start", "memory"} => pending = <<>> /\ serial = << <<>> >>
    /\ pc = "start" => con = NULL

-----------------------------------------------------------------------------
\* What a message does to the log and to the console.

LEMMA Elements ==
  ASSUME NEW s, IsSequence(s)
  PROVE  Len(s) \in Nat /\ DOMAIN s = 1..Len(s)
BY DEF IsSequence

LEMMA EmptyLine ==
  ASSUME NEW s, IsSequence(s)
  PROVE  s \o <<>> = s /\ <<>> \o s = s
BY ConcatEmptySeq DEF IsSequence

LEMMA Concatenating ==
  ASSUME NEW s, IsSequence(s), NEW t, IsSequence(t)
  PROVE  /\ IsSequence(s \o t) /\ Len(s \o t) = Len(s) + Len(t)
         /\ \A k \in 1..Len(s) : (s \o t)[k] = s[k]
         /\ \A k \in 1..Len(t) : (s \o t)[Len(s) + k] = t[k]
<1>1. PICK S : s \in Seq(S)
  BY DEF IsSequence
<1>2. PICK T : t \in Seq(T)
  BY DEF IsSequence
<1>3. s \in Seq(S \cup T) /\ t \in Seq(S \cup T)
  BY <1>1, <1>2
<1>4. /\ s \o t \in Seq(S \cup T) /\ Len(s \o t) = Len(s) + Len(t)
      /\ \A k \in 1..Len(s) : (s \o t)[k] = s[k]
      /\ \A k \in 1..Len(t) : (s \o t)[Len(s) + k] = t[k]
  BY <1>3
<1>5. IsSequence(s \o t)
  BY <1>4 DEF IsSequence
<1> QED  BY <1>4, <1>5

\* u is s followed by t.
Follows(u, s, t) ==
    /\ IsSequence(u) /\ Len(u) = Len(s) + Len(t)
    /\ \A k \in 1..Len(s) : u[k] = s[k]
    /\ \A k \in 1..Len(t) : u[Len(s) + k] = t[k]

LEMMA Concatenations == \A s, t : IsSequence(s) /\ IsSequence(t) => Follows(s \o t, s, t)
BY Concatenating DEF Follows

LEMMA OneIsOne ==
  ASSUME NEW x
  PROVE  IsSequence(<<x>>) /\ Len(<<x>>) = 1 /\ <<x>>[1] = x
<1>1. <<x>> \in Seq({x})
  OBVIOUS
<1>2. IsSequence(<<x>>)
  BY <1>1 DEF IsSequence
<1> QED  BY <1>2

LEMMA Parts ==
  ASSUME NEW s, IsSequence(s), Len(s) >= 1
  PROVE  /\ IsSequence(Front(s)) /\ Len(Front(s)) = Len(s) - 1
         /\ \A k \in 1..Len(s) - 1 : Front(s)[k] = s[k]
         /\ IsSequence(Tail(s)) /\ Len(Tail(s)) = Len(s) - 1
         /\ \A k \in 1..Len(s) - 1 : Tail(s)[k] = s[k + 1]
         /\ Head(s) = s[1] /\ Last(s) = s[Len(s)]
<1>1. PICK S : s \in Seq(S)
  BY DEF IsSequence
<1>2. s # <<>> /\ Len(s) \in Nat
  BY <1>1
<1>3. /\ Tail(s) \in Seq(S) /\ Len(Tail(s)) = Len(s) - 1 /\ Head(s) = s[1]
      /\ \A k \in 1..Len(s) - 1 : Tail(s)[k] = s[k + 1]
  BY <1>1, <1>2
<1>4. /\ SubSeq(s, 1, Len(s) - 1) \in Seq(S) /\ Len(SubSeq(s, 1, Len(s) - 1)) = Len(s) - 1
      /\ \A k \in 1..Len(s) - 1 : SubSeq(s, 1, Len(s) - 1)[k] = s[k]
  <2>1. \A n \in 0..Len(s) : /\ SubSeq(s, 1, n) \in Seq(S) /\ Len(SubSeq(s, 1, n)) = n
                             /\ \A k \in 1..n : SubSeq(s, 1, n)[k] = s[k]
    BY <1>1
  <2>2. \A n \in Nat : n >= 1 => n - 1 \in 0..n
    OBVIOUS
  <2>3. Len(s) - 1 \in 0..Len(s)
    BY <1>2, <2>2
  <2> QED  BY <2>1, <2>3
<1>5. /\ Front(s) \in Seq(S) /\ Len(Front(s)) = Len(s) - 1
      /\ \A k \in 1..Len(s) - 1 : Front(s)[k] = s[k]
  BY <1>4 DEF Front
<1>6. IsSequence(Front(s)) /\ IsSequence(Tail(s))
  BY <1>3, <1>5 DEF IsSequence
<1> QED  BY <1>3, <1>5, <1>6 DEF Last

LEMMA JoinedIs ==
  ASSUME NEW s, IsLines(s), NEW msg, IsLines(msg)
  PROVE  /\ IsLines(Joined(s, msg)) /\ Len(Joined(s, msg)) = Len(s) + Len(msg) - 1
         /\ \A k \in 1..Len(s) - 1 : Joined(s, msg)[k] = s[k]
         /\ Joined(s, msg)[Len(s)] = s[Len(s)] \o msg[1]
         /\ \A k \in 1..Len(msg) - 1 : Joined(s, msg)[Len(s) + k] = msg[k + 1]
<1> DEFINE n == Len(s)
           m == Len(msg)
           f == Front(s)
           e == Tail(msg)
           join == Last(s) \o Head(msg)
           a == f \o <<join>>
           t == a \o e
<1>1. n \in Nat /\ m \in Nat /\ n >= 1 /\ m >= 1
  BY Elements DEF IsLines
<1>2. /\ IsSequence(f) /\ Len(f) = n - 1 /\ \A k \in 1..n - 1 : f[k] = s[k]
      /\ IsSequence(e) /\ Len(e) = m - 1 /\ \A k \in 1..m - 1 : e[k] = msg[k + 1]
      /\ Last(s) = s[n] /\ Head(msg) = msg[1]
  BY Parts DEF IsLines
<1>3. /\ \A k \in 1..n : IsSequence(s[k])
      /\ \A k \in 1..m : IsSequence(msg[k])
  BY DEF IsLines
<1>4. t = Joined(s, msg)
  BY DEF Joined
<1> HIDE DEF n, m, f, e
<1>5. join = s[n] \o msg[1] /\ IsSequence(join)
  <2>1. IsSequence(s[n]) /\ IsSequence(msg[1])
    BY <1>1, <1>3
  <2> QED  BY <1>2, <2>1, Concatenating
<1> HIDE DEF join
<1>6. /\ IsSequence(a) /\ Len(a) = n
      /\ \A k \in 1..n - 1 : a[k] = s[k]
      /\ a[n] = join
  <2> DEFINE j == <<join>>
  <2>1. IsSequence(j) /\ Len(j) = 1 /\ j[1] = join
    BY OneIsOne
  <2>5. Follows(f \o j, f, j)
    BY <1>2, <2>1, Concatenations, Zenon
  <2>2. a = f \o j
    OBVIOUS
  <2> HIDE DEF j, a
  <2>3. /\ IsSequence(a) /\ Len(a) = Len(f) + Len(j)
        /\ \A k \in 1..Len(f) : a[k] = f[k]
        /\ \A k \in 1..Len(j) : a[Len(f) + k] = j[k]
    BY <2>5, <2>2 DEF Follows
  <2>4. a[Len(f) + 1] = j[1] /\ (n - 1) + 1 = n
    BY <1>1, <2>1, <2>3
  <2> QED  BY <1>1, <1>2, <2>1, <2>3, <2>4
<1> HIDE DEF a
<1>7. /\ IsSequence(t) /\ Len(t) = n + (m - 1)
      /\ \A k \in 1..n : t[k] = a[k]
      /\ \A k \in 1..m - 1 : t[n + k] = msg[k + 1]
  <2>1. Follows(t, a, e)
    BY <1>2, <1>6, Concatenations, Zenon
  <2> HIDE DEF t
  <2> QED  BY <1>2, <1>6, <2>1 DEF Follows
<1> HIDE DEF t
<1>8. /\ \A k \in 1..n - 1 : t[k] = s[k]
      /\ t[n] = s[n] \o msg[1]
  <2>1. n \in 1..n /\ \A k \in 1..n - 1 : k \in 1..n
    BY <1>1
  <2> QED  BY <1>5, <1>6, <1>7, <2>1
<1>9. \A k \in 1..Len(t) : IsSequence(t[k])
  <2> SUFFICES ASSUME NEW k \in 1..Len(t) PROVE IsSequence(t[k])
    OBVIOUS
  <2>1. CASE k < n
    <3>1. k \in 1..n - 1 /\ k \in 1..n
      BY <1>1, <2>1
    <3> QED  BY <1>3, <1>8, <3>1
  <2>2. CASE k = n
    BY <1>5, <1>8, <2>2
  <2>3. CASE k > n
    <3>1. k - n \in 1..m - 1 /\ n + (k - n) = k /\ (k - n) + 1 \in 1..m
      BY <1>1, <1>7, <2>3
    <3> QED  BY <1>3, <1>7, <3>1
  <2>4. k < n \/ k = n \/ k > n
    BY <1>1, <1>7
  <2> QED  BY <2>1, <2>2, <2>3, <2>4
<1>10. IsLines(t)
  <2>1. Len(t) >= 1
    BY <1>1, <1>7
  <2> QED  BY <1>7, <1>9, <2>1 DEF IsLines
<1>11. n + (m - 1) = Len(s) + Len(msg) - 1
  BY <1>1 DEF n, m
<1> QED  BY <1>4, <1>7, <1>8, <1>10, <1>11 DEF n, m



IsJoined(t, s, msg) ==
    /\ IsLines(t) /\ Len(t) = Len(s) + Len(msg) - 1
    /\ \A k \in 1..Len(s) - 1 : t[k] = s[k]
    /\ t[Len(s)] = s[Len(s)] \o msg[1]
    /\ \A k \in 1..Len(msg) - 1 : t[Len(s) + k] = msg[k + 1]

LEMMA Joins == \A s, msg : IsLines(s) /\ IsLines(msg) => IsJoined(Joined(s, msg), s, msg)
BY JoinedIs DEF IsJoined

LEMMA WrittenIs ==
  ASSUME NEW c, NEW msg, Len(msg) \in Nat
  PROVE  LET d == console_write(c, msg)
         IN  /\ d.outside = (c.outside \/ DrawsOutside(msg, IF Overflows(c, Len(msg) - 1)
                                                            THEN MaxLines - 1 ELSE c.cursor_y))
             /\ d.cursor_y = d.lines
             /\ Overflows(c, Len(msg) - 1) =>
                   /\ d.lines = MaxLines
                   /\ d.rows = Drawn(Scrolled(c.rows), msg, MaxLines - 1)
             /\ ~Overflows(c, Len(msg) - 1) =>
                   /\ d.lines = c.lines + (Len(msg) - 1)
                   /\ d.rows = Drawn(c.rows, msg, c.cursor_y)
BY DEF console_write

LEMMA DrawnIs ==
  ASSUME NEW rows, IsSequence(rows), Len(rows) = MaxLines, NEW msg, NEW y
  PROVE  /\ IsSequence(Drawn(rows, msg, y)) /\ Len(Drawn(rows, msg, y)) = MaxLines
         /\ \A r \in 1..MaxLines :
               Drawn(rows, msg, y)[r] = rows[r] \o IF r - y \in DOMAIN msg THEN msg[r - y] ELSE <<>>
<1> DEFINE row(r) == rows[r] \o IF r - y \in DOMAIN msg THEN msg[r - y] ELSE <<>>
           d == [r \in 1..MaxLines |-> row(r)]
           S == {row(r) : r \in 1..MaxLines}
<1>1. DOMAIN rows = 1..MaxLines /\ MaxLines \in Nat
  BY Elements, ConsoleAssumption
<1>2. Drawn(rows, msg, y) = d
  BY <1>1 DEF Drawn
<1>3. \A r \in 1..MaxLines : row(r) \in S
  OBVIOUS
<1> HIDE DEF row
<1>4. d \in [1..MaxLines -> S] /\ \A r \in 1..MaxLines : d[r] = row(r)
  BY <1>3
<1> HIDE DEF d, S
<1>5. \A n \in Nat : \A f \in [1..n -> S] : f \in Seq(S) /\ Len(f) = n
  OBVIOUS
<1>6. d \in Seq(S) /\ Len(d) = MaxLines
  BY <1>1, <1>4, <1>5
<1>7. IsSequence(d)
  BY <1>6 DEF IsSequence
<1> QED  BY <1>2, <1>4, <1>6, <1>7 DEF row

IsDrawn(d, rows, msg, y) ==
    /\ IsSequence(d) /\ Len(d) = MaxLines
    /\ \A r \in 1..MaxLines : d[r] = rows[r] \o IF r - y \in DOMAIN msg THEN msg[r - y] ELSE <<>>

LEMMA Draws ==
  \A rows, msg, y : IsSequence(rows) /\ Len(rows) = MaxLines => IsDrawn(Drawn(rows, msg, y), rows, msg, y)
BY DrawnIs DEF IsDrawn

LEMMA ScrolledIs ==
  ASSUME NEW rows, IsSequence(rows), Len(rows) = MaxLines
  PROVE  /\ IsSequence(Scrolled(rows)) /\ Len(Scrolled(rows)) = MaxLines
         /\ \A r \in 1..MaxLines - 1 : Scrolled(rows)[r] = rows[r + 1]
         /\ Scrolled(rows)[MaxLines] = <<>>
<1> DEFINE e == Tail(rows)
           a == Append(e, <<>>)
<1>1. MaxLines \in Nat /\ MaxLines >= 1
  BY ConsoleAssumption
<1>2. /\ IsSequence(e) /\ Len(e) = MaxLines - 1
      /\ \A k \in 1..MaxLines - 1 : e[k] = rows[k + 1]
  BY <1>1, Parts
<1> HIDE DEF e
<1>3. /\ IsSequence(a) /\ Len(a) = Len(e) + 1
      /\ \A k \in 1..Len(e) : a[k] = e[k]
      /\ a[Len(e) + 1] = <<>>
  BY <1>2, Appending
<1>4. a = Scrolled(rows)
  BY DEF Scrolled, e
<1> HIDE DEF a
<1>5. Len(e) + 1 = MaxLines
  BY <1>1, <1>2
<1> QED  BY <1>2, <1>3, <1>4, <1>5

\* Where the console stands: at the last line, or at the end of the screen.
LEMMA Cursor ==
  ASSUME NEW c, NEW lines, Len(lines) \in Nat, Len(lines) >= 1, Shows(c, lines)
  PROVE  /\ c.lines \in 0..MaxLines /\ c.cursor_y = c.lines
         /\ c.lines < MaxLines => c.lines = Len(lines) - 1 /\ Above(lines) = 0
         /\ c.lines = MaxLines => Len(lines) - 1 >= MaxLines /\ Above(lines) = Len(lines) - 1 - MaxLines
<1> DEFINE n == Len(lines)
           M == MaxLines
           L == c.lines
           A == Above(lines)
<1>1. M \in Nat /\ n \in Nat /\ n >= 1
  BY ConsoleAssumption
<1>2. A = IF n - 1 > M THEN n - 1 - M ELSE 0
  BY DEF Above
<1>3. L = n - 1 - A /\ c.cursor_y = L
  BY DEF Shows
<1> HIDE DEF n, M, L, A
<1>4. /\ L \in 0..M /\ (L < M => L = n - 1 /\ A = 0)
      /\ (L = M => n - 1 >= M /\ A = n - 1 - M)
  BY <1>1, <1>2, <1>3
<1> QED  BY <1>3, <1>4 DEF n, M, L, A

LEMMA InRoom ==
  ASSUME NEW c, NEW lines, IsLines(lines), Shows(c, lines),
         NEW msg, IsMessage(msg), c.lines + (Len(msg) - 1) <= MaxLines,
         ~DrawsOutside(msg, c.lines)
  PROVE  Shows([lines |-> c.lines + (Len(msg) - 1), cursor_y |-> c.lines + (Len(msg) - 1),
                rows |-> Drawn(c.rows, msg, c.lines), outside |-> FALSE], Joined(lines, msg))
<1> DEFINE n == Len(lines)
           m == Len(msg)
           M == MaxLines
           L == c.lines
           t == Joined(lines, msg)
           rows == Drawn(c.rows, msg, L)
<1>1. M \in Nat /\ n \in Nat /\ n >= 1 /\ m \in Nat /\ m >= 1
  BY ConsoleAssumption, Elements DEF IsLines, IsMessage
<1>2. /\ L \in 0..M
      /\ L < M => L = n - 1 /\ Above(lines) = 0
      /\ L = M => n - 1 >= M /\ Above(lines) = n - 1 - M
  BY <1>1, Cursor
<1>3. IsLines(msg) /\ (m = 1 => msg[1] # <<>>) /\ L + (m - 1) <= M
  BY DEF IsMessage
<1>4. \A k \in DOMAIN msg : ~(msg[k] # <<>> /\ L + k > M)
  BY Zenon DEF DrawsOutside
<1>5. /\ IsLines(t) /\ Len(t) = Len(lines) + Len(msg) - 1
      /\ \A k \in 1..n - 1 : t[k] = lines[k]
      /\ t[n] = lines[n] \o msg[1]
      /\ \A k \in 1..m - 1 : t[n + k] = msg[k + 1]
  <2>1. IsJoined(t, lines, msg)
    BY <1>3, Joins, Zenon
  <2> HIDE DEF t
  <2> QED  BY <2>1 DEF IsJoined
<1>6. Len(lines) = n /\ Len(msg) = m
  OBVIOUS
<1>7. /\ IsSequence(c.rows) /\ Len(c.rows) = M /\ IsSequence(lines) /\ IsSequence(msg)
      /\ \A r \in 1..M : c.rows[r] = IF Above(lines) + r \in DOMAIN lines
                                      THEN lines[Above(lines) + r] ELSE <<>>
      /\ \A k \in 1..n : IsSequence(lines[k])
      /\ \A k \in 1..m : IsSequence(msg[k])
  BY <1>3 DEF Shows, IsLines
<1>8. /\ IsSequence(rows) /\ Len(rows) = M
      /\ \A r \in 1..M : rows[r] = c.rows[r] \o IF r - L \in DOMAIN msg THEN msg[r - L] ELSE <<>>
  <2>1. IsDrawn(rows, c.rows, msg, L)
    BY <1>7, Draws, Zenon
  <2> HIDE DEF rows, L
  <2> QED  BY <2>1 DEF IsDrawn
<1>9. DOMAIN lines = 1..n /\ DOMAIN msg = 1..m /\ IsSequence(t)
  BY <1>5, <1>7, Elements DEF IsLines
<1>10. DOMAIN t = 1..Len(t) /\ Len(t) \in Nat
  BY <1>9, Elements
<1>11. Above(t) = IF Len(t) - 1 > M THEN Len(t) - 1 - M ELSE 0
  BY DEF Above
<1> DEFINE len == Len(t)
<1>20. Len(t) = len
  OBVIOUS
<1> HIDE DEF n, m, M, L, t, rows, len
<1>21. len = n + (m - 1)
  BY <1>1, <1>5, <1>6, <1>20
<1>22. \A k \in 1..m : msg[k] = <<>> \/ L + k <= M
  BY <1>1, <1>2, <1>4, <1>9
<1>23. L < M
  <2>1. SUFFICES ASSUME L = M PROVE FALSE
    BY <1>1, <1>2
  <2>2. m = 1
    BY <1>1, <1>3, <2>1
  <2>3. 1 \in 1..m /\ ~(L + 1 <= M)
    BY <1>1, <2>1, <2>2
  <2> QED  BY <1>3, <1>22, <2>2, <2>3
<1>24. L = n - 1 /\ Above(lines) = 0
  BY <1>2, <1>23
<1>25. \A r \in 1..M : c.rows[r] = IF r \in 1..n THEN lines[r] ELSE <<>>
  <2>1. \A r \in 1..M : 0 + r = r
    BY <1>1
  <2> QED  BY <1>7, <1>9, <1>24, <2>1
<1>12. Above(t) = 0 /\ L + (m - 1) = len - 1 - Above(t)
  BY <1>1, <1>24, <1>3, <1>11, <1>20, <1>21
<1>13. ASSUME L + (m - 1) = M PROVE t[Len(t)] = <<>>
  <2>1. m # 1 /\ m \in 1..m /\ ~(L + m <= M)
    BY <1>1, <1>2, <1>23, <1>13
  <2>2. m - 1 \in 1..m - 1 /\ (m - 1) + 1 = m /\ n + (m - 1) = len
    BY <1>1, <1>21, <2>1
  <2> QED  BY <1>22, <1>5, <1>20, <2>1, <2>2
<1>14. ASSUME NEW r \in 1..M
       PROVE  rows[r] = IF Above(t) + r \in DOMAIN t THEN t[Above(t) + r] ELSE <<>>
  <2>1. r \in Nat /\ r >= 1 /\ Above(t) + r = r /\ 0 + r = r
    BY <1>1, <1>12
  <2>2. CASE r < n
    <3>1. r \in 1..n /\ r \in 1..n - 1 /\ r - L \notin 1..m /\ r \in 1..len
      BY <1>1, <1>21, <1>24, <2>1, <2>2
    <3>2. rows[r] = lines[r] \o <<>>
      BY <1>8, <1>9, <1>25, <3>1
    <3>3. lines[r] \o <<>> = lines[r]
      BY <1>7, <3>1, EmptyLine
    <3> QED  BY <1>5, <1>9, <1>10, <1>20, <2>1, <3>1, <3>2, <3>3
  <2>3. CASE r = n
    <3>1. r \in 1..n /\ r - L = 1 /\ 1 \in 1..m /\ r \in 1..len
      BY <1>1, <1>21, <1>24, <2>1, <2>3
    <3>2. rows[r] = lines[r] \o msg[1]
      BY <1>8, <1>9, <1>25, <3>1
    <3> QED  BY <1>5, <1>9, <1>10, <1>20, <2>1, <2>3, <3>1, <3>2
  <2>4. CASE r > n /\ r <= len
    <3>1. /\ r \notin 1..n /\ r - L \in 1..m /\ r \in 1..len
          /\ r - n \in 1..m - 1 /\ n + (r - n) = r /\ (r - n) + 1 = r - L
      BY <1>1, <1>21, <1>24, <2>1, <2>4
    <3>2. rows[r] = <<>> \o msg[r - L]
      BY <1>8, <1>9, <1>25, <3>1
    <3>3. <<>> \o msg[r - L] = msg[r - L]
      BY <1>7, <3>1, EmptyLine
    <3>4. t[r] = msg[r - L]
      BY <1>5, <3>1
    <3> QED  BY <1>9, <1>10, <1>20, <2>1, <3>1, <3>2, <3>3, <3>4
  <2>5. CASE r > len
    <3>1. r \notin 1..n /\ r - L \notin 1..m /\ r \notin 1..len
      BY <1>1, <1>21, <1>24, <2>1, <2>5
    <3>2. rows[r] = <<>> \o <<>>
      BY <1>8, <1>9, <1>25, <3>1
    <3>3. <<>> \o <<>> = <<>>
      BY EmptyIsOne, EmptyLine
    <3> QED  BY <1>9, <1>10, <1>20, <2>1, <3>1, <3>2, <3>3
  <2>6. r < n \/ r = n \/ (r > n /\ r <= len) \/ r > len
    BY <1>1, <1>21, <2>1
  <2> QED  BY <2>2, <2>3, <2>4, <2>5, <2>6
<1> DEFINE d == [lines |-> L + (m - 1), cursor_y |-> L + (m - 1), rows |-> rows, outside |-> FALSE]
<1>15. d.lines = L + (m - 1) /\ d.cursor_y = L + (m - 1) /\ d.rows = rows
  OBVIOUS
<1> HIDE DEF d
<1>16. Shows(d, t)
  BY <1>8, <1>12, <1>13, <1>14, <1>15, <1>20 DEF Shows, M
<1> QED  BY <1>16 DEF d, L, m, rows, t

\* When a message is too many for the screen it is a single line, the rows move up once.
LEMMA ScrollsOnce ==
  ASSUME NEW c, NEW lines, IsLines(lines), Shows(c, lines),
         NEW msg, IsMessage(msg), ~(c.lines + (Len(msg) - 1) <= MaxLines),
         ~DrawsOutside(msg, MaxLines - 1)
  PROVE  Shows([lines |-> MaxLines, cursor_y |-> MaxLines,
                rows |-> Drawn(Scrolled(c.rows), msg, MaxLines - 1), outside |-> FALSE],
               Joined(lines, msg))
<1> DEFINE n == Len(lines)
           m == Len(msg)
           M == MaxLines
           L == c.lines
           t == Joined(lines, msg)
           up == Scrolled(c.rows)
           rows == Drawn(up, msg, M - 1)
           A == Above(lines)
<1>1. M \in Nat /\ M >= 1 /\ n \in Nat /\ n >= 1 /\ m \in Nat /\ m >= 1
  BY ConsoleAssumption, Elements DEF IsLines, IsMessage
<1>2. L \in 0..M /\ (L = M => n - 1 >= M /\ A = n - 1 - M)
  BY <1>1, Cursor
<1>3. IsLines(msg) /\ (m >= 3 => msg[2] # <<>>) /\ ~(L + (m - 1) <= M)
  BY DEF IsMessage
<1>4. \A k \in DOMAIN msg : ~(msg[k] # <<>> /\ M - 1 + k > M)
  BY Zenon DEF DrawsOutside
<1>5. /\ IsLines(t) /\ Len(t) = Len(lines) + Len(msg) - 1
      /\ \A k \in 1..n - 1 : t[k] = lines[k]
      /\ t[n] = lines[n] \o msg[1]
      /\ \A k \in 1..m - 1 : t[n + k] = msg[k + 1]
  <2>1. IsJoined(t, lines, msg)
    BY <1>3, Joins, Zenon
  <2> HIDE DEF t
  <2> QED  BY <2>1 DEF IsJoined
<1>6. Len(lines) = n /\ Len(msg) = m
  OBVIOUS
<1>7. /\ IsSequence(c.rows) /\ Len(c.rows) = M /\ IsSequence(lines) /\ IsSequence(msg)
      /\ L = M => lines[n] = <<>>
      /\ \A r \in 1..M : c.rows[r] = IF A + r \in DOMAIN lines THEN lines[A + r] ELSE <<>>
      /\ \A k \in 1..n : IsSequence(lines[k])
      /\ \A k \in 1..m : IsSequence(msg[k])
  BY <1>3 DEF Shows, IsLines
<1>8. /\ IsSequence(up) /\ Len(up) = M
      /\ \A r \in 1..M - 1 : up[r] = c.rows[r + 1]
      /\ up[M] = <<>>
  BY <1>7, ScrolledIs
<1>9. /\ IsSequence(rows) /\ Len(rows) = M
      /\ \A r \in 1..M : rows[r] = up[r] \o IF r - (M - 1) \in DOMAIN msg THEN msg[r - (M - 1)] ELSE <<>>
  <2>1. IsDrawn(rows, up, msg, M - 1)
    BY <1>8, Draws, Zenon
  <2> HIDE DEF rows, up
  <2> QED  BY <2>1 DEF IsDrawn
<1>10. DOMAIN lines = 1..n /\ DOMAIN msg = 1..m /\ IsSequence(t)
  BY <1>5, <1>7, Elements DEF IsLines
<1>11. DOMAIN t = 1..Len(t) /\ Len(t) \in Nat
  BY <1>10, Elements
<1>12. Above(t) = IF Len(t) - 1 > M THEN Len(t) - 1 - M ELSE 0
  BY DEF Above
<1> DEFINE len == Len(t)
<1>13. Len(t) = len
  OBVIOUS
<1> HIDE DEF n, m, M, L, t, up, rows, A, len
<1>14. \A k \in 1..m : k >= 2 => msg[k] = <<>>
  <2>1. \A k \in Nat : k >= 2 => M - 1 + k > M
    BY <1>1
  <2> QED  BY <1>1, <1>4, <1>10, <2>1
<1>15. m = 2 /\ L = M
  <2>1. m >= 2
    BY <1>1, <1>2, <1>3
  <2>2. 2 \in 1..m
    BY <1>1, <2>1
  <2>3. ~(m >= 3)
    BY <1>3, <1>14, <2>2
  <2> QED  BY <1>1, <1>2, <1>3, <2>1, <2>3
<1>16. n - 1 >= M /\ A = n - 1 - M /\ lines[n] = <<>> /\ msg[2] = <<>>
  <2>1. 2 \in 1..m /\ 2 >= 2
    BY <1>15
  <2> QED  BY <1>2, <1>7, <1>14, <1>15, <2>1
<1>17. len = n + 1
  BY <1>1, <1>5, <1>6, <1>13, <1>15
<1>18. Above(t) = A + 1 /\ M = len - 1 - Above(t)
  BY <1>1, <1>12, <1>13, <1>16, <1>17
<1>19. t[n] = msg[1] /\ t[len] = <<>>
  <2>1. IsSequence(msg[1])
    <3>1. 1 \in 1..m
      BY <1>15
    <3> QED  BY <1>7, <3>1
  <2>2. t[n] = <<>> \o msg[1]
    BY <1>5, <1>16
  <2>3. <<>> \o msg[1] = msg[1]
    BY <2>1, EmptyLine
  <2>4. 1 \in 1..m - 1 /\ 1 + 1 = 2
    BY <1>15
  <2>5. t[n + 1] = msg[2]
    BY <1>5, <2>4
  <2> QED  BY <1>16, <1>17, <2>2, <2>3, <2>5
<1>20. ASSUME NEW r \in 1..M
       PROVE  rows[r] = IF Above(t) + r \in DOMAIN t THEN t[Above(t) + r] ELSE <<>>
  <2>1. Above(t) + r = A + (r + 1) /\ A + (r + 1) \in 1..len
    <3>1. A \in Nat /\ r \in Nat /\ r >= 1 /\ r <= M /\ A + M = n - 1
      BY <1>1, <1>16
    <3>2. (A + 1) + r = A + (r + 1) /\ A + (r + 1) >= 1 /\ A + (r + 1) <= n + 1
      BY <1>1, <3>1
    <3>3. A + (r + 1) \in Nat /\ n + 1 \in Nat
      BY <1>1, <3>1
    <3> QED  BY <1>17, <1>18, <3>2, <3>3
  <2>2. Above(t) + r \in DOMAIN t
    BY <1>11, <1>13, <2>1
  <2>3. CASE r < M
    <3>1. /\ r \in 1..M - 1 /\ r + 1 \in 1..M /\ r - (M - 1) \notin 1..m
          /\ A + (r + 1) \in 1..n /\ A + (r + 1) \in 1..n - 1
      BY <1>1, <1>15, <1>16, <2>3
    <3>2. up[r] = lines[A + (r + 1)]
      <4>1. up[r] = c.rows[r + 1]
        BY <1>8, <3>1
      <4>2. c.rows[r + 1] = lines[A + (r + 1)]
        BY <1>7, <1>10, <3>1
      <4> QED  BY <4>1, <4>2
    <3>3. rows[r] = lines[A + (r + 1)] \o <<>>
      BY <1>9, <1>10, <3>1, <3>2
    <3>4. lines[A + (r + 1)] \o <<>> = lines[A + (r + 1)]
      BY <1>7, <3>1, EmptyLine
    <3>5. t[A + (r + 1)] = lines[A + (r + 1)]
      BY <1>5, <3>1
    <3> QED  BY <2>1, <2>2, <3>3, <3>4, <3>5
  <2>4. CASE r = M
    <3>1. r - (M - 1) = 1 /\ 1 \in 1..m /\ A + (r + 1) = n
      BY <1>1, <1>15, <1>16, <2>4
    <3>2. rows[r] = <<>> \o msg[1]
      BY <1>8, <1>9, <1>10, <2>4, <3>1
    <3>3. <<>> \o msg[1] = msg[1]
      BY <1>7, <3>1, EmptyLine
    <3> QED  BY <1>19, <2>1, <2>2, <3>1, <3>2, <3>3
  <2>5. r < M \/ r = M
    BY <1>1
  <2> QED  BY <2>3, <2>4, <2>5
<1> DEFINE d == [lines |-> M, cursor_y |-> M, rows |-> rows, outside |-> FALSE]
<1>21. d.lines = M /\ d.cursor_y = M /\ d.rows = rows
  OBVIOUS
<1> HIDE DEF d
<1>22. Shows(d, t)
  BY <1>9, <1>13, <1>18, <1>19, <1>20, <1>21 DEF Shows, M
<1> QED  BY <1>22 DEF d, M, rows, up, t


LEMMA SameScreen ==
  ASSUME NEW c, NEW d, NEW lines, Shows(c, lines),
         d.rows = c.rows, d.lines = c.lines, d.cursor_y = c.cursor_y
  PROVE  Shows(d, lines)
BY Zenon DEF Shows

\* What a message leaves on the screen, unless a glyph was drawn behind it.
LEMMA Writes ==
  ASSUME NEW c, NEW lines, IsLines(lines), Shows(c, lines), NEW msg, IsMessage(msg)
  PROVE  /\ ~console_write(c, msg).outside => Shows(console_write(c, msg), Joined(lines, msg))
         /\ console_write(c, msg).outside \in BOOLEAN
<1> DEFINE d == console_write(c, msg)
           full == Overflows(c, Len(msg) - 1)
           t == Joined(lines, msg)
<1>1. Len(msg) \in Nat /\ Len(lines) \in Nat /\ Len(lines) >= 1
  BY Elements DEF IsMessage, IsLines
<1>2. /\ d.outside = (c.outside \/ DrawsOutside(msg, IF full THEN MaxLines - 1 ELSE c.cursor_y))
      /\ d.cursor_y = d.lines
      /\ full => d.lines = MaxLines /\ d.rows = Drawn(Scrolled(c.rows), msg, MaxLines - 1)
      /\ ~full => d.lines = c.lines + (Len(msg) - 1) /\ d.rows = Drawn(c.rows, msg, c.cursor_y)
  BY <1>1, WrittenIs
<1>3. c.cursor_y = c.lines /\ c.lines \in 0..MaxLines
  BY <1>1, Cursor
<1>4. full <=> ~(c.lines + (Len(msg) - 1) <= MaxLines)
  <2> DEFINE k == Len(msg) - 1
             L == c.lines
             M == MaxLines
  <2>1. k \in Int /\ L \in Int /\ M \in Int
    BY <1>1, <1>3, ConsoleAssumption
  <2>2. full <=> L + k > M
    BY DEF Overflows
  <2> HIDE DEF k, L, M, full
  <2>3. full <=> ~(L + k <= M)
    BY <2>1, <2>2
  <2> QED  BY <2>3 DEF k, L, M
<1> DEFINE a == [lines |-> c.lines + (Len(msg) - 1), cursor_y |-> c.lines + (Len(msg) - 1),
                 rows |-> Drawn(c.rows, msg, c.lines), outside |-> FALSE]
           b == [lines |-> MaxLines, cursor_y |-> MaxLines,
                 rows |-> Drawn(Scrolled(c.rows), msg, MaxLines - 1), outside |-> FALSE]
<1>5. ~full /\ ~DrawsOutside(msg, c.lines) => Shows(a, t)
  BY <1>4, InRoom
<1>6. full /\ ~DrawsOutside(msg, MaxLines - 1) => Shows(b, t)
  BY <1>4, ScrollsOnce
<1>7. /\ a.lines = c.lines + (Len(msg) - 1) /\ a.cursor_y = a.lines
      /\ a.rows = Drawn(c.rows, msg, c.lines)
      /\ b.lines = MaxLines /\ b.cursor_y = b.lines
      /\ b.rows = Drawn(Scrolled(c.rows), msg, MaxLines - 1)
  OBVIOUS
<1> HIDE DEF a, b, d, full, t
<1>8. ASSUME ~d.outside PROVE Shows(d, t)
  <2>1. CASE full
    <3>1. Shows(b, t)
      BY <1>2, <1>6, <1>8, <2>1
    <3>2. d.lines = b.lines /\ d.cursor_y = b.cursor_y /\ d.rows = b.rows
      BY <1>2, <1>7, <2>1
    <3> QED  BY <3>1, <3>2, SameScreen
  <2>2. CASE ~full
    <3>1. Shows(a, t)
      BY <1>2, <1>3, <1>5, <1>8, <2>2
    <3>2. d.lines = a.lines /\ d.cursor_y = a.cursor_y /\ d.rows = a.rows
      BY <1>2, <1>3, <1>7, <2>2
    <3> QED  BY <3>1, <3>2, SameScreen
  <2> QED  BY <2>1, <2>2
<1>9. d.outside \in BOOLEAN
  BY <1>2
<1> QED  BY <1>8, <1>9 DEF d, t

\* A single line, and a message for which there is room, stay on the screen if nothing
\* follows their last newline.
LEMMA StaysInside ==
  ASSUME NEW c, NEW lines, IsLines(lines), Shows(c, lines), ~c.outside,
         NEW msg, IsMessage(msg), msg[Len(msg)] = <<>>,
         Len(msg) = 2 \/ c.lines + (Len(msg) - 1) <= MaxLines
  PROVE  ~console_write(c, msg).outside
<1> DEFINE d == console_write(c, msg)
           m == Len(msg)
           L == c.lines
           M == MaxLines
           full == Overflows(c, Len(msg) - 1)
           y == IF full THEN M - 1 ELSE c.cursor_y
<1>1. m \in Nat /\ m >= 1 /\ Len(lines) \in Nat /\ Len(lines) >= 1 /\ M \in Nat /\ DOMAIN msg = 1..m
  BY ConsoleAssumption, Elements DEF IsMessage, IsLines
<1>2. L \in 0..M /\ c.cursor_y = L
  BY <1>1, Cursor
<1>3. d.outside = (c.outside \/ DrawsOutside(msg, y))
  BY <1>1, WrittenIs
<1>4. full <=> L + (m - 1) > M
  BY DEF Overflows
<1>5. y = IF full THEN M - 1 ELSE c.cursor_y
  OBVIOUS
<1>6. msg[m] = <<>> /\ (m = 2 \/ L + (m - 1) <= M)
  OBVIOUS
<1>7. DrawsOutside(msg, y) => \E k \in DOMAIN msg : msg[k] # <<>> /\ y + k > M
  BY Zenon DEF DrawsOutside
<1> HIDE DEF d, m, L, M, full, y
<1>8. ASSUME NEW k \in 1..m, msg[k] # <<>> PROVE ~(y + k > M)
  <2>1. k # m
    BY <1>6, <1>8
  <2>2. k <= m - 1
    BY <1>1, <2>1
  <2>3. CASE full
    BY <1>1, <1>2, <1>4, <1>5, <1>6, <2>2, <2>3
  <2>4. CASE ~full
    BY <1>1, <1>2, <1>4, <1>5, <2>2, <2>4
  <2> QED  BY <2>3, <2>4
<1> QED  BY <1>1, <1>3, <1>7, <1>8 DEF d


-----------------------------------------------------------------------------
\* The messages.

LEMMA TextsAreSequences ==
  /\ \A a : IsSequence(<<a>>)
  /\ \A a, b : IsSequence(<<a, b>>)
  /\ \A a, b, c : IsSequence(<<a, b, c>>)
  /\ \A a, b, c, d : IsSequence(<<a, b, c, d>>)
<1>1. \A s, S : s \in Seq(S) => IsSequence(s)
  BY DEF IsSequence
<1>2. ASSUME NEW a PROVE IsSequence(<<a>>)
  <2>1. <<a>> \in Seq({a})
    OBVIOUS
  <2> QED  BY <1>1, <2>1, Zenon
<1>3. ASSUME NEW a, NEW b PROVE IsSequence(<<a, b>>)
  <2>1. <<a, b>> \in Seq({a, b})
    OBVIOUS
  <2> QED  BY <1>1, <2>1, Zenon
<1>4. ASSUME NEW a, NEW b, NEW c PROVE IsSequence(<<a, b, c>>)
  <2>1. <<a, b, c>> \in Seq({a, b, c})
    OBVIOUS
  <2> QED  BY <1>1, <2>1, Zenon
<1>5. ASSUME NEW a, NEW b, NEW c, NEW d PROVE IsSequence(<<a, b, c, d>>)
  <2>1. <<a, b, c, d>> \in Seq({a, b, c, d})
    OBVIOUS
  <2> QED  BY <1>1, <2>1, Zenon
<1> QED  BY <1>2, <1>3, <1>4, <1>5, Zenon

LEMMA LinesAre ==
  \A texts : IsSequence(texts) => IsMessage(Line(texts)) /\ Small(Line(texts))
<1> SUFFICES ASSUME NEW texts, IsSequence(texts)
             PROVE  IsMessage(Line(texts)) /\ Small(Line(texts))
  OBVIOUS
<1> DEFINE msg == Line(texts)
<1>1. IsSequence(msg)
  BY TextsAreSequences DEF Line
<1>2. Len(msg) = 2 /\ msg[1] = texts /\ msg[2] = <<>>
  BY DEF Line
<1> HIDE DEF msg
<1>3. \A k \in 1..2 : k = 1 \/ k = 2
  OBVIOUS
<1>4. \A k \in 1..Len(msg) : IsSequence(msg[k])
  BY <1>2, <1>3, EmptyIsOne
<1>5. IsLines(msg)
  BY <1>1, <1>2, <1>4 DEF IsLines
<1>6. IsMessage(msg)
  BY <1>2, <1>5 DEF IsMessage
<1>7. Small(msg)
  BY <1>2 DEF Small
<1> QED  BY <1>6, <1>7 DEF msg

LEMMA Lines ==
  /\ \A a : IsMessage(Line(<<a>>)) /\ Small(Line(<<a>>))
  /\ \A a, b : IsMessage(Line(<<a, b>>)) /\ Small(Line(<<a, b>>))
  /\ \A a, b, c, d : IsMessage(Line(<<a, b, c, d>>)) /\ Small(Line(<<a, b, c, d>>))
BY LinesAre, TextsAreSequences

Fits(msg, place) == IsMessage(msg) /\ (place \in Stopped \cup {"tables"} \/ Small(msg))

LEMMA NoMessage == \A place : AreMessages(<<>>, place)
<1>1. \A k \in 1..Len(<<>>) : FALSE
  OBVIOUS
<1> QED  BY <1>1, EmptyIsOne DEF AreMessages

LEMMA MoreMessages ==
  ASSUME NEW place, NEW s, AreMessages(s, place), NEW t, AreMessages(t, place)
  PROVE  AreMessages(s \o t, place)
<1> DEFINE u == s \o t
<1>1. /\ IsSequence(u) /\ Len(s) \in Nat /\ Len(t) \in Nat /\ Len(u) = Len(s) + Len(t)
      /\ \A k \in 1..Len(s) : u[k] = s[k]
      /\ \A k \in 1..Len(t) : u[Len(s) + k] = t[k]
  BY Concatenating, Elements DEF AreMessages
<1> HIDE DEF u
<1>2. /\ \A k \in 1..Len(s) : Fits(s[k], place)
      /\ \A k \in 1..Len(t) : Fits(t[k], place)
  BY Zenon DEF AreMessages, Fits
<1>3. \A k \in 1..Len(u) : \/ k \in 1..Len(s)
                           \/ k - Len(s) \in 1..Len(t) /\ Len(s) + (k - Len(s)) = k
  <2> DEFINE n == Len(s)
             m == Len(t)
  <2>1. n \in Nat /\ m \in Nat /\ Len(u) = n + m
    BY <1>1
  <2> HIDE DEF n, m
  <2>2. \A k \in 1..n + m : k \in 1..n \/ (k - n \in 1..m /\ n + (k - n) = k)
    BY <2>1
  <2> QED  BY <2>1, <2>2 DEF n, m
<1>4. \A k \in 1..Len(u) : Fits(u[k], place)
  BY <1>1, <1>2, <1>3
<1>5. AreMessages(u, place)
  BY <1>1, <1>4, Zenon DEF AreMessages, Fits
<1> QED  BY <1>5 DEF u

LEMMA ListsOfMessages ==
  ASSUME NEW place, NEW s, IsSequence(s), \A k \in 1..Len(s) : Fits(s[k], place)
  PROVE  AreMessages(s, place)
BY Zenon DEF AreMessages, Fits

LEMMA Messages ==
  ASSUME NEW place
  PROVE  /\ \A a : Fits(a, place) => AreMessages(<<a>>, place)
         /\ \A a, b : Fits(a, place) /\ Fits(b, place) => AreMessages(<<a, b>>, place)
         /\ \A a, b, c : Fits(a, place) /\ Fits(b, place) /\ Fits(c, place) =>
               AreMessages(<<a, b, c>>, place)
<1>1. ASSUME NEW a, Fits(a, place) PROVE AreMessages(<<a>>, place)
  <2> DEFINE s == <<a>>
  <2>1. IsSequence(s)
    BY TextsAreSequences
  <2>2. Len(s) = 1 /\ s[1] = a
    OBVIOUS
  <2> HIDE DEF s
  <2>3. \A k \in 1..Len(s) : Fits(s[k], place)
    BY <1>1, <2>2
  <2>4. AreMessages(s, place)
    BY <2>1, <2>3, ListsOfMessages
  <2> QED  BY <2>4 DEF s
<1>2. ASSUME NEW a, NEW b, Fits(a, place), Fits(b, place) PROVE AreMessages(<<a, b>>, place)
  <2> DEFINE s == <<a, b>>
  <2>1. IsSequence(s)
    BY TextsAreSequences
  <2>2. Len(s) = 2 /\ s[1] = a /\ s[2] = b
    OBVIOUS
  <2> HIDE DEF s
  <2>3. \A k \in 1..Len(s) : k = 1 \/ k = 2
    BY <2>2
  <2>4. \A k \in 1..Len(s) : Fits(s[k], place)
    BY <1>2, <2>2, <2>3
  <2>5. AreMessages(s, place)
    BY <2>1, <2>4, ListsOfMessages
  <2> QED  BY <2>5 DEF s
<1>3. ASSUME NEW a, NEW b, NEW c, Fits(a, place), Fits(b, place), Fits(c, place)
      PROVE  AreMessages(<<a, b, c>>, place)
  <2> DEFINE s == <<a, b, c>>
  <2>1. IsSequence(s)
    BY TextsAreSequences
  <2>2. Len(s) = 3 /\ s[1] = a /\ s[2] = b /\ s[3] = c
    OBVIOUS
  <2> HIDE DEF s
  <2>3. \A k \in 1..Len(s) : k = 1 \/ k = 2 \/ k = 3
    BY <2>2
  <2>4. \A k \in 1..Len(s) : Fits(s[k], place)
    BY <1>3, <2>2, <2>3
  <2>5. AreMessages(s, place)
    BY <2>1, <2>4, ListsOfMessages
  <2> QED  BY <2>5 DEF s
<1> QED  BY <1>1, <1>2, <1>3, Zenon

LEMMA LongMessages ==
  ASSUME NEW msg, IsSequence(msg), Len(msg) >= 3, \A k \in 1..Len(msg) : IsSequence(msg[k]),
         NEW a, msg[2] = <<a>>
  PROVE  IsMessage(msg)
<1>1. <<a>> # <<>>
  OBVIOUS
<1>2. Len(msg) \in Nat
  BY Elements
<1>3. Len(msg) >= 1 /\ Len(msg) # 1
  BY <1>2
<1>4. IsLines(msg)
  BY <1>3, Zenon DEF IsLines
<1>5. msg[2] # <<>>
  BY <1>1, Zenon
<1> QED  BY <1>3, <1>4, <1>5, Zenon DEF IsMessage

\* What panic says where it has two lines to say.
LEMMA TwoLines == \A a, b : IsMessage(<< <<a>>, <<b>>, <<>> >>)
<1>1. ASSUME NEW a, NEW b PROVE IsMessage(<< <<a>>, <<b>>, <<>> >>)
  <2> DEFINE msg == << <<a>>, <<b>>, <<>> >>
  <2>1. IsSequence(msg)
    BY TextsAreSequences
  <2>2. Len(msg) = 3 /\ msg[1] = <<a>> /\ msg[2] = <<b>> /\ msg[3] = <<>>
    OBVIOUS
  <2> HIDE DEF msg
  <2>3. \A k \in 1..Len(msg) : k = 1 \/ k = 2 \/ k = 3
    BY <2>2
  <2>4. \A k \in 1..Len(msg) : IsSequence(msg[k])
    BY <2>2, <2>3, TextsAreSequences, EmptyIsOne
  <2>5. Len(msg) >= 3
    BY <2>2
  <2>6. IsMessage(msg)
    BY <2>1, <2>2, <2>4, <2>5, LongMessages
  <2> QED  BY <2>6 DEF msg
<1> QED  BY <1>1, Zenon

LEMMA SizesAre == IsMessage(Sizes) /\ Len(Sizes) = 4 /\ Sizes[4] = <<>>
<1>1. IsSequence(Sizes)
  BY TextsAreSequences DEF Sizes
<1>2. /\ Len(Sizes) = 4 /\ Sizes[1] = <<"Free">> /\ Sizes[2] = <<"Used">>
      /\ Sizes[3] = <<"Reserved">> /\ Sizes[4] = <<>>
  BY DEF Sizes
<1>3. \A k \in 1..4 : k = 1 \/ k = 2 \/ k = 3 \/ k = 4
  OBVIOUS
<1>4. \A k \in 1..Len(Sizes) : IsSequence(Sizes[k])
  <2>1. /\ IsSequence(<<"Free">>) /\ IsSequence(<<"Used">>) /\ IsSequence(<<"Reserved">>)
        /\ IsSequence(<<>>)
    BY TextsAreSequences, EmptyIsOne, Zenon
  <2>2. IsSequence(Sizes[1]) /\ IsSequence(Sizes[2]) /\ IsSequence(Sizes[3]) /\ IsSequence(Sizes[4])
    BY <1>2, <2>1, Zenon
  <2> QED  BY <1>2, <1>3, <2>2
<1>5. Len(Sizes) >= 3
  BY <1>2
<1>6. IsMessage(Sizes)
  BY <1>1, <1>2, <1>4, <1>5, LongMessages
<1> QED  BY <1>2, <1>6

LEMMA FaultMessageIs == IsMessage(FaultMessage)
<1>1. IsSequence(FaultMessage)
  <2>1. FaultMessage \in Seq({<<>>, <<"exception">>, <<"error_code">>, <<"frame">>,
             <<"rip_cs_rflags">>, <<"rsp_ss">>, <<"control_registers">>, <<"cr0_cr2_cr3_cr4">>})
    BY DEF FaultMessage
  <2> QED  BY <2>1 DEF IsSequence
<1>2. /\ Len(FaultMessage) = 10
      /\ FaultMessage[1] = <<"exception">> /\ FaultMessage[2] = <<"error_code">>
      /\ FaultMessage[3] = <<>> /\ FaultMessage[4] = <<"frame">>
      /\ FaultMessage[5] = <<"rip_cs_rflags">> /\ FaultMessage[6] = <<"rsp_ss">>
      /\ FaultMessage[7] = <<"control_registers">> /\ FaultMessage[8] = <<"cr0_cr2_cr3_cr4">>
      /\ FaultMessage[9] = <<>> /\ FaultMessage[10] = <<>>
  BY DEF FaultMessage
<1>3. \A k \in 1..10 : k = 1 \/ k = 2 \/ k = 3 \/ k = 4 \/ k = 5 \/ k = 6 \/ k = 7 \/ k = 8
                       \/ k = 9 \/ k = 10
  OBVIOUS
<1>4. \A k \in 1..Len(FaultMessage) : IsSequence(FaultMessage[k])
  <2>1. IsSequence(<<>>) /\ \A a : IsSequence(<<a>>)
    BY TextsAreSequences, EmptyIsOne, Zenon
  <2>2. /\ IsSequence(FaultMessage[1]) /\ IsSequence(FaultMessage[2])
        /\ IsSequence(FaultMessage[3]) /\ IsSequence(FaultMessage[4])
        /\ IsSequence(FaultMessage[5]) /\ IsSequence(FaultMessage[6])
        /\ IsSequence(FaultMessage[7]) /\ IsSequence(FaultMessage[8])
        /\ IsSequence(FaultMessage[9]) /\ IsSequence(FaultMessage[10])
    BY <1>2, <2>1, Zenon
  <2> QED  BY <1>2, <1>3, <2>2
<1>5. Len(FaultMessage) >= 3
  BY <1>2
<1> QED  BY <1>1, <1>2, <1>4, <1>5, LongMessages

LEMMA NotElfIs == AreMessages(NotElf, "halted")
<1> DEFINE A == << <<"not_ELF">> >>
           B == << <<"c1">> >>
           C == << <<"c2">> >>
           D == << <<"c3">> >>
           E == << <<"c4">> >>
           F == << <<>>, <<>> >>
           s == <<A, B, C, D, E, F>>
<1>1. ASSUME NEW a PROVE IsMessage(<< <<a>> >>)
  <2> DEFINE msg == << <<a>> >>
  <2>1. IsSequence(msg)
    BY TextsAreSequences
  <2>2. Len(msg) = 1 /\ msg[1] = <<a>> /\ <<a>> # <<>>
    OBVIOUS
  <2> HIDE DEF msg
  <2>3. \A k \in 1..Len(msg) : k = 1
    BY <2>2
  <2>4. \A k \in 1..Len(msg) : IsSequence(msg[k])
    BY <2>2, <2>3, TextsAreSequences
  <2>5. IsMessage(msg)
    BY <2>1, <2>2, <2>4 DEF IsMessage, IsLines
  <2> QED  BY <2>5 DEF msg
<1>2. IsMessage(F)
  BY LinesAre, EmptyIsOne DEF Line
<1>3. "halted" \in Stopped
  BY DEF Stopped
<1>20. IsMessage(A) /\ IsMessage(B) /\ IsMessage(C) /\ IsMessage(D) /\ IsMessage(E)
  BY <1>1, Zenon
<1>4. /\ Fits(A, "halted") /\ Fits(B, "halted") /\ Fits(C, "halted") /\ Fits(D, "halted")
      /\ Fits(E, "halted") /\ Fits(F, "halted")
  BY <1>2, <1>3, <1>20, Zenon DEF Fits
<1>5. s = NotElf
  BY DEF NotElf
<1> HIDE DEF A, B, C, D, E, F
<1>6. s \in Seq({A, B, C, D, E, F})
  OBVIOUS
<1>7. /\ Len(s) = 6 /\ s[1] = A /\ s[2] = B /\ s[3] = C /\ s[4] = D /\ s[5] = E /\ s[6] = F
  OBVIOUS
<1> HIDE DEF s
<1>8. IsSequence(s)
  BY <1>6 DEF IsSequence
<1>9. \A k \in 1..Len(s) : k = 1 \/ k = 2 \/ k = 3 \/ k = 4 \/ k = 5 \/ k = 6
  BY <1>7
<1>10. \A k \in 1..Len(s) : Fits(s[k], "halted")
  BY <1>4, <1>7, <1>9
<1>11. AreMessages(s, "halted")
  BY <1>8, <1>10, ListsOfMessages
<1> QED  BY <1>5, <1>11


-----------------------------------------------------------------------------
\* The step that logs a message.

LEMMA RestOfMessages ==
  ASSUME NEW place, NEW s, AreMessages(s, place), s # <<>>
  PROVE  Fits(Head(s), place) /\ AreMessages(Tail(s), place)
<1>1. IsSequence(s) /\ \A k \in 1..Len(s) : Fits(s[k], place)
  BY Zenon DEF AreMessages, Fits
<1>2. Len(s) \in Nat /\ Len(s) >= 1
  <2>1. PICK S : s \in Seq(S)
    BY <1>1 DEF IsSequence
  <2> QED  BY <2>1
<1>3. /\ Head(s) = s[1] /\ IsSequence(Tail(s)) /\ Len(Tail(s)) = Len(s) - 1
      /\ \A k \in 1..Len(s) - 1 : Tail(s)[k] = s[k + 1]
  BY <1>1, <1>2, Parts
<1>4. 1 \in 1..Len(s) /\ \A k \in 1..Len(s) - 1 : k + 1 \in 1..Len(s)
  BY <1>2
<1>5. \A k \in 1..Len(Tail(s)) : Fits(Tail(s)[k], place)
  BY <1>1, <1>3, <1>4
<1>6. AreMessages(Tail(s), place)
  BY <1>3, <1>5, ListsOfMessages
<1> QED  BY <1>1, <1>3, <1>4, <1>6

LEMMA RestOfDetected ==
  ASSUME Detected, pending # <<>>, IsLines(serial)
  PROVE  LET msg == Head(pending)
         IN  /\ msg[Len(msg)] = <<>>
             /\ Len(msg) = 2 \/ (Len(msg) = 4 /\ Len(serial) = 3)
             /\ LET serial1 == Joined(serial, msg)
                IN  \/ Tail(pending) = <<>>
                    \/ Tail(pending) = <<Sizes>> /\ Len(serial1) = 3
                    \/ Tail(pending) = <<Memory, Sizes>> /\ Len(serial1) = 2
<1>1. /\ Len(Version) = 2 /\ Version[2] = <<>>
      /\ Len(Memory) = 2 /\ Memory[2] = <<>>
      /\ Len(Sizes) = 4 /\ Sizes[4] = <<>>
  BY SizesAre DEF Version, Memory, Line
<1>2. IsLines(Version) /\ IsLines(Memory) /\ IsLines(Sizes)
  BY Lines, SizesAre DEF Version, Memory, IsMessage
<1>3. /\ \A a : Head(<<a>>) = a /\ Tail(<<a>>) = <<>>
      /\ \A a, b : Head(<<a, b>>) = a
      /\ \A a, b, c : Head(<<a, b, c>>) = a
  OBVIOUS
<1>4. \A a, b : Tail(<<a, b>>) = <<b>>
  OBVIOUS
<1>5. \A a, b, c : Tail(<<a, b, c>>) = <<b, c>>
  OBVIOUS
<1>6. Len(serial) \in Nat
  BY Elements DEF IsLines
<1>7. \A msg : IsLines(msg) => Len(Joined(serial, msg)) = Len(serial) + Len(msg) - 1
  BY JoinedIs
<1>8. CASE pending = <<Sizes>> /\ Len(serial) = 3
  <2>1. Head(pending) = Sizes /\ Tail(pending) = <<>>
    BY <1>3, <1>8, Zenon
  <2> QED  BY <1>1, <1>8, <2>1
<1>9. CASE pending = <<Memory, Sizes>> /\ Len(serial) = 2
  <2>1. Head(pending) = Memory /\ Tail(pending) = <<Sizes>>
    BY <1>3, <1>4, <1>9, Zenon
  <2>2. Len(Joined(serial, Memory)) = Len(serial) + Len(Memory) - 1
    BY <1>2, <1>7, Zenon
  <2>3. Len(Joined(serial, Memory)) = 3
    BY <1>1, <1>9, <2>2
  <2> QED  BY <1>1, <2>1, <2>3
<1>10. CASE pending = <<Version, Memory, Sizes>> /\ Len(serial) = 1
  <2>1. Head(pending) = Version /\ Tail(pending) = <<Memory, Sizes>>
    BY <1>3, <1>5, <1>10, Zenon
  <2>2. Len(Joined(serial, Version)) = Len(serial) + Len(Version) - 1
    BY <1>2, <1>7, Zenon
  <2>3. Len(Joined(serial, Version)) = 2
    BY <1>1, <1>10, <2>2
  <2> QED  BY <1>1, <2>1, <2>3
<1> QED  BY <1>8, <1>9, <1>10 DEF Detected

LEMMA LogsStep ==
  ASSUME LogInv, Logs
  PROVE  LogInv'
<1> DEFINE msg == Head(pending)
           d == console_write(con, msg)
<1>1. /\ pending # <<>> /\ pending' = Tail(pending) /\ pc' = pc
      /\ serial' = Joined(serial, msg)
      /\ con' = IF con = NULL THEN NULL ELSE d
  BY DEF Logs
<1>2. Fits(msg, pc) /\ AreMessages(pending', pc)
  BY <1>1, RestOfMessages DEF LogInv
<1>3. IsMessage(msg) /\ IsLines(msg) /\ IsLines(serial)
  BY <1>2 DEF Fits, IsMessage, LogInv
<1>4. IsLines(serial')
  BY <1>1, <1>3, JoinedIs
<1>5. pc \notin {"start", "memory"}
  BY <1>1 DEF LogInv
<1>6. (pc = "tables" => Detected)'
  <2>1. CASE pc = "tables"
    <3>1. Detected
      BY <2>1 DEF LogInv
    <3>2. Detected'
      BY <1>1, <1>3, <3>1, RestOfDetected DEF Detected, Sizes, Memory
    <3> QED  BY <3>2
  <2> QED  BY <1>1, <2>1
<1>7. ASSUME con' # NULL
      PROVE  /\ con'.outside \in BOOLEAN
             /\ con'.outside => pc \in Stopped
             /\ ~con'.outside => Shows(con', serial')
  <2>1. con # NULL /\ con' = d
    BY <1>1, <1>7
  <2>2. /\ con.outside \in BOOLEAN /\ (con.outside => pc \in Stopped)
        /\ (~con.outside => Shows(con, serial))
    BY <2>1 DEF LogInv
  <2>3. CASE con.outside
    <3>1. Len(msg) \in Nat
      BY <1>3, Elements DEF IsLines
    <3>2. d.outside = TRUE
      BY <2>3, <3>1, WrittenIs
    <3> QED  BY <2>1, <2>2, <2>3, <3>2
  <2>4. CASE ~con.outside
    <3>1. Shows(con, serial)
      BY <2>2, <2>4
    <3>2. /\ d.outside \in BOOLEAN
          /\ ~d.outside => Shows(d, serial')
      BY <1>1, <1>3, <3>1, Writes
    <3>3. ASSUME pc \notin Stopped PROVE ~d.outside
      <4>1. /\ msg[Len(msg)] = <<>>
            /\ Len(msg) = 2 \/ con.lines + (Len(msg) - 1) <= MaxLines
        <5>1. CASE pc = "tables"
          <6>1. Detected
            BY <5>1 DEF LogInv
          <6>2. /\ msg[Len(msg)] = <<>>
                /\ Len(msg) = 2 \/ (Len(msg) = 4 /\ Len(serial) = 3)
            BY <1>1, <1>3, <6>1, RestOfDetected
          <6>3. Len(serial) \in Nat /\ Len(serial) >= 1 /\ MaxLines \in Nat /\ MaxLines >= 5
            BY <1>3, Elements, BootAssumption, ConsoleAssumption DEF IsLines
          <6>4. /\ con.lines \in 0..MaxLines
                /\ con.lines < MaxLines => con.lines = Len(serial) - 1
                /\ con.lines = MaxLines => Len(serial) - 1 >= MaxLines
            BY <3>1, <6>3, Cursor
          <6>5. Len(serial) = 3 => con.lines <= 2
            BY <6>3, <6>4
          <6> DEFINE m == Len(msg)
          <6>6. m = Len(msg) /\ (m = 2 \/ (m = 4 /\ Len(serial) = 3))
            BY <6>2
          <6> DEFINE L == con.lines
          <6>7. L \in 0..MaxLines /\ (Len(serial) = 3 => L <= 2)
            BY <6>4, <6>5
          <6> HIDE DEF m, msg, L
          <6>8. L \in Nat /\ m \in Nat
            BY <6>3, <6>6, <6>7
          <6>9. m = 4 => L <= 2
            BY <6>6, <6>7
          <6>10. m = 2 \/ L + (m - 1) <= MaxLines
            <7>1. \A l, M \in Nat : l <= 2 /\ M >= 5 => l + (4 - 1) <= M
              OBVIOUS
            <7>2. m = 4 => L + (m - 1) <= MaxLines
              BY <6>3, <6>8, <6>9, <7>1
            <7> QED  BY <6>6, <7>2
          <6> QED  BY <6>2, <6>6, <6>10 DEF L
        <5>2. CASE pc # "tables"
          <6>1. Small(msg)
            BY <1>2, <3>3, <5>2 DEF Fits
          <6> QED  BY <6>1 DEF Small
        <5> QED  BY <5>1, <5>2
      <4> QED  BY <1>3, <2>4, <3>1, <4>1, StaysInside
    <3> QED  BY <2>1, <3>2, <3>3
  <2> QED  BY <2>2, <2>3, <2>4
<1> QED  BY <1>1, <1>2, <1>4, <1>5, <1>6, <1>7 DEF LogInv

-----------------------------------------------------------------------------
\* The other steps, which only say what is to be logged next.

AfterTables == pc \notin {"start", "memory", "tables"}

OnlyLogs == UNCHANGED <<con, serial>> /\ AreMessages(pending', pc') /\ AfterTables'

LEMMA Logging ==
  ASSUME LogInv, pc \notin Stopped, OnlyLogs
  PROVE  LogInv'
<1>1. /\ IsLines(serial')
      /\ con' # NULL => /\ con'.outside \in BOOLEAN
                        /\ con'.outside => pc' \in Stopped
                        /\ ~con'.outside => Shows(con', serial')
  BY DEF LogInv, OnlyLogs
<1>2. pc' \notin {"start", "memory", "tables"} /\ AreMessages(pending', pc')
  BY DEF OnlyLogs, AfterTables
<1> QED  BY <1>1, <1>2 DEF LogInv

LEMMA OneLine ==
  ASSUME NEW place
  PROVE  /\ \A a : AreMessages(<<Line(<<a>>)>>, place)
         /\ \A a, b : AreMessages(<<Line(<<a, b>>)>>, place)
         /\ \A a, b, c, d : AreMessages(<<Line(<<a, b, c, d>>)>>, place)
         /\ \A a, b, c, d, e : AreMessages(<<Line(<<a, b, c, d>>), Line(<<e>>)>>, place)
<1>1. /\ \A a : Fits(Line(<<a>>), place)
      /\ \A a, b : Fits(Line(<<a, b>>), place)
      /\ \A a, b, c, d : Fits(Line(<<a, b, c, d>>), place)
  BY Lines, Zenon DEF Fits
<1>2. /\ \A a : Fits(a, place) => AreMessages(<<a>>, place)
      /\ \A a, b : Fits(a, place) /\ Fits(b, place) => AreMessages(<<a, b>>, place)
  BY Messages, Zenon
<1> QED  BY <1>1, <1>2, Zenon

LEMMA Endings ==
  /\ Quiet /\ AfterTables' => OnlyLogs
  /\ Wild => OnlyLogs
  /\ Fault => OnlyLogs
  /\ \A msg : IsMessage(msg) /\ Panic(msg) => OnlyLogs
<1>1. Quiet /\ AfterTables' => OnlyLogs
  BY NoMessage DEF Quiet, Log, OnlyLogs
<1>2. Wild => OnlyLogs
  BY <1>1 DEF Wild, GoesTo, AfterTables
<1>3. ASSUME NEW msg, IsMessage(msg), Panic(msg) PROVE OnlyLogs
  <2>1. pending' = <<msg>> /\ UNCHANGED <<con, serial>> /\ pc' = "panicked"
    BY <1>3 DEF Panic, Log, GoesTo
  <2>2. Fits(msg, "panicked")
    BY <1>3 DEF Fits, Stopped
  <2>3. AreMessages(<<msg>>, "panicked")
    BY <2>2, Messages
  <2> QED  BY <2>1, <2>3 DEF OnlyLogs, AfterTables
<1>4. Fault => OnlyLogs
  <2>1. Quiet /\ GoesTo("reset") => OnlyLogs
    BY <1>1 DEF GoesTo, AfterTables
  <2>2. Panic(FaultMessage) => OnlyLogs
    BY <1>3, FaultMessageIs
  <2> QED  BY <2>1, <2>2 DEF Fault
<1> QED  BY <1>1, <1>2, <1>3, <1>4

LEMMA PanicLines ==
  /\ \A a : Panic(Line(<<a>>)) => OnlyLogs
  /\ \A a, b : Panic(<< <<a>>, <<b>>, <<>> >>) => OnlyLogs
<1>1. \A msg : IsMessage(msg) /\ Panic(msg) => OnlyLogs
  BY Endings
<1>2. \A a : IsMessage(Line(<<a>>))
  BY Lines, Zenon
<1> QED  BY <1>1, <1>2, TwoLines, Zenon

LEMMA FindingDevices ==
  ASSUME InitProcessor \/ FindMcfg \/ NextSegment \/ FunctionEnumerate \/ ProbePort
            \/ AddDriver \/ ChooseDriver
  PROVE  OnlyLogs
<1>1. CASE InitProcessor
  <2>1. pending' = <<Line(<<"page_map">>)>> /\ UNCHANGED <<con, serial>> /\ pc' = "acpi"
    BY <1>1 DEF InitProcessor, Log, GoesTo
  <2>2. AreMessages(<<Line(<<"page_map">>)>>, "acpi")
    BY OneLine
  <2> QED  BY <2>1, <2>2 DEF OnlyLogs, AfterTables
<1>2. CASE FindMcfg
  <2>1. Panic(Line(<<"no_MCFG">>)) \/ Wild \/ (Quiet /\ GoesTo("pci"))
    BY <1>2 DEF FindMcfg
  <2> QED  BY <2>1, PanicLines, Endings DEF GoesTo, AfterTables
<1>3. CASE NextSegment
  BY <1>3, NoMessage DEF NextSegment, At, OnlyLogs, AfterTables
<1>4. CASE FunctionEnumerate
  <2>1. PICK a, b, c, d :
           \/ Wild
           \/ Log(<<Line(<<a, b, c, d>>)>>) /\ pc' = "pci"
           \/ Log(<<Line(<<a, b, c, d>>), Line(<<"ahci_init">>)>>) /\ pc' = "probe"
    BY <1>4, Zenon DEF FunctionEnumerate, At, GoesTo
  <2>2. /\ AreMessages(<<Line(<<a, b, c, d>>)>>, "pci")
        /\ AreMessages(<<Line(<<a, b, c, d>>), Line(<<"ahci_init">>)>>, "probe")
    BY OneLine, Zenon
  <2> QED  BY <2>1, <2>2, Endings DEF Log, OnlyLogs, AfterTables
<1>5. CASE ProbePort
  <2>1. PICK a, b : Quiet \/ Log(<<Line(<<a, b>>)>>)
    BY <1>5, Zenon DEF ProbePort
  <2>2. pc' = "probe"
    BY <1>5 DEF ProbePort, At
  <2>3. AreMessages(<<Line(<<a, b>>)>>, "probe")
    BY OneLine
  <2> QED  BY <2>1, <2>2, <2>3, Endings DEF Log, OnlyLogs, AfterTables
<1>6. CASE AddDriver
  <2>1. (Quiet /\ GoesTo("pci")) \/ Wild
    BY <1>6 DEF AddDriver
  <2> QED  BY <2>1, Endings DEF GoesTo, AfterTables
<1>7. CASE ChooseDriver
  <2>1. \/ Panic(<< <<"no_AHCI_driver">>, <<"no_other_disks">>, <<>> >>)
        \/ Wild \/ (Quiet /\ GoesTo("disk"))
    BY <1>7 DEF ChooseDriver
  <2> QED  BY <2>1, PanicLines, Endings DEF GoesTo, AfterTables
<1> QED  BY <1>1, <1>2, <1>3, <1>4, <1>5, <1>6, <1>7

LEMMA ReadingTable ==
  ASSUME TryPort \/ NoDisk \/ ReadHeader \/ ReadTable \/ Register
  PROVE  OnlyLogs
<1>1. CASE TryPort
  BY <1>1, NoMessage DEF TryPort, At, GoesTo, OnlyLogs, AfterTables
<1>2. CASE NoDisk
  <2>1. Panic(<< <<"no_GPT_disks">>, <<"no_MBR">>, <<>> >>) \/ Wild
    BY <1>2 DEF NoDisk
  <2> QED  BY <2>1, PanicLines, Endings
<1>3. CASE ReadHeader
  <2>1. (Quiet /\ GoesTo("table")) \/ Panic(Line(<<"no_GPT_header">>))
    BY <1>3 DEF ReadHeader
  <2> QED  BY <2>1, PanicLines, Endings DEF GoesTo, AfterTables
<1>4. CASE ReadTable
  <2>1. (Quiet /\ GoesTo("register")) \/ Wild \/ Panic(Line(<<"no_partition_table">>))
    BY <1>4 DEF ReadTable
  <2> QED  BY <2>1, PanicLines, Endings DEF GoesTo, AfterTables
<1>5. CASE Register
  <2>1. Log(<<>>) \/ Log(<<Line(<<"partition", ToString(i)>>)>>)
    BY <1>5, Zenon DEF Register
  <2>2. pc' = "register"
    BY <1>5 DEF Register, At
  <2>3. /\ AreMessages(<<Line(<<"partition", ToString(i)>>)>>, "register")
        /\ AreMessages(<<>>, "register")
    BY OneLine, NoMessage, Zenon
  <2> QED  BY <2>1, <2>2, <2>3 DEF Log, OnlyLogs, AfterTables
<1> QED  BY <1>1, <1>2, <1>3, <1>4, <1>5

LEMMA LoadingProgram ==
  ASSUME Mount \/ Open \/ UseFile \/ Load
  PROVE  OnlyLogs
<1>1. CASE Mount
  <2>1. Fault \/ Panic(Line(<<"ext2_has_errors">>)) \/ (Quiet /\ GoesTo("open"))
    BY <1>1 DEF Mount
  <2> QED  BY <2>1, PanicLines, Endings DEF GoesTo, AfterTables
<1>2. CASE Open
  <2>1. \/ Fault \/ Wild \/ (Quiet /\ GoesTo("load"))
        \/ \E said \in NotFound : Log(said) /\ GoesTo("unopened")
    BY <1>2 DEF Open
  <2>2. \A said \in NotFound : AreMessages(said, "unopened")
    <3>1. Fits(Line(<<"no_file">>), "unopened") /\ Fits(Line(<<"no_directory">>), "unopened")
      BY Lines DEF Fits
    <3> QED  BY <3>1, Messages DEF NotFound
  <2>3. ASSUME NEW said \in NotFound, Log(said), GoesTo("unopened") PROVE OnlyLogs
    BY <2>2, <2>3 DEF Log, GoesTo, OnlyLogs, AfterTables
  <2> QED  BY <2>1, <2>3, Endings DEF GoesTo, AfterTables
<1>3. CASE Load
  <2> DEFINE msgs == (IF file = "short" THEN <<Line(<<"too_small">>)>> ELSE <<>>) \o NotElf
  <2>1. \/ (Quiet /\ GoesTo("user")) \/ Fault \/ Wild
        \/ Log(msgs) /\ GoesTo("halted")
    BY <1>3 DEF Load
  <2>2. AreMessages(msgs, "halted")
    <3>1. AreMessages(IF file = "short" THEN <<Line(<<"too_small">>)>> ELSE <<>>, "halted")
      BY OneLine, NoMessage
    <3> QED  BY <3>1, NotElfIs, MoreMessages
  <2> HIDE DEF msgs
  <2>3. Log(msgs) /\ GoesTo("halted") => OnlyLogs
    BY <2>2 DEF Log, GoesTo, OnlyLogs, AfterTables
  <2> QED  BY <2>1, <2>3, Endings DEF GoesTo, AfterTables
<1>4. CASE UseFile
  BY <1>4, Endings DEF UseFile
<1> QED  BY <1>1, <1>2, <1>3, <1>4

LEMMA LogInvStep ==
  ASSUME LogInv, [Next]_vars
  PROVE  LogInv'
<1>1. CASE UNCHANGED vars
  <2>1. UNCHANGED <<con, serial, pending, pc>>
    BY <1>1 DEF vars
  <2>2. (pc = "tables" => Detected)' = (pc = "tables" => Detected)
    BY <2>1 DEF Detected
  <2> QED  BY <2>1, <2>2 DEF LogInv
<1>2. CASE Logs
  BY <1>2, LogsStep
<1>3. CASE Start
  <2>1. /\ pc = "start" /\ con = NULL /\ serial = << <<>> >> /\ pending = <<>>
        /\ UNCHANGED <<serial, pending>>
        /\ (pc' = "memory" /\ con' \in {console_init, NULL}) \/ (pc' = "halted" /\ con' = con)
    BY <1>3 DEF LogInv, Start, At, GoesTo
  <2>2. Shows(console_init, << <<>> >>) /\ console_init.outside = FALSE
    <3> DEFINE c == console_init
               lines == << <<>> >>
               S == {<<>>}
    <3>1. MaxLines \in Nat /\ MaxLines >= 1
      BY ConsoleAssumption
    <3>2. /\ c.lines = 0 /\ c.cursor_y = 0 /\ c.outside = FALSE
          /\ c.rows = [r \in 1..MaxLines |-> <<>>]
      BY DEF console_init
    <3>3. Len(lines) = 1 /\ lines[1] = <<>> /\ DOMAIN lines = 1..1
      OBVIOUS
    <3> HIDE DEF c, lines
    <3>4. c.rows \in [1..MaxLines -> {<<>>}] /\ \A r \in 1..MaxLines : c.rows[r] = <<>>
      BY <3>2
    <3>5. \A n \in Nat : \A f \in [1..n -> {<<>>}] : f \in Seq({<<>>}) /\ Len(f) = n
      OBVIOUS
    <3>6. IsSequence(c.rows) /\ Len(c.rows) = MaxLines
      BY <3>1, <3>4, <3>5 DEF IsSequence
    <3>7. Above(lines) = 0
      BY <3>1, <3>3 DEF Above
    <3>8. \A r \in 1..MaxLines :
             c.rows[r] = IF Above(lines) + r \in DOMAIN lines THEN lines[Above(lines) + r] ELSE <<>>
      BY <3>1, <3>3, <3>4, <3>7
    <3>9. c.lines = Len(lines) - 1 - Above(lines)
      BY <3>2, <3>3, <3>7
    <3>10. Shows(c, lines)
      BY <3>1, <3>2, <3>6, <3>8, <3>9 DEF Shows
    <3> QED  BY <3>2, <3>10 DEF c, lines
  <2>3. con' # NULL => con' = console_init
    BY <2>1
  <2>4. AreMessages(pending', pc')
    BY <2>1, NoMessage
  <2>5. /\ IsLines(serial')
        /\ con' # NULL => /\ con'.outside \in BOOLEAN
                          /\ con'.outside => pc' \in Stopped
                          /\ ~con'.outside => Shows(con', serial')
    BY <2>1, <2>2, <2>3 DEF LogInv
  <2>6. pc' # "tables" /\ pc' # "start" /\ pending' = <<>> /\ serial' = << <<>> >>
    BY <2>1
  <2> QED  BY <2>4, <2>5, <2>6 DEF LogInv
<1>4. CASE DetectMemory
  <2>1. /\ pc = "memory" /\ serial = << <<>> >> /\ UNCHANGED <<con, serial>> /\ pc' = "tables"
        /\ pending' = <<Version, Memory, Sizes>>
    BY <1>4 DEF LogInv, DetectMemory, At, Log, GoesTo, Version, Memory, Sizes
  <2>2. AreMessages(<<Version, Memory, Sizes>>, "tables")
    <3>1. Fits(Version, "tables") /\ Fits(Memory, "tables") /\ Fits(Sizes, "tables")
      BY Lines, SizesAre DEF Fits, Version, Memory
    <3> QED  BY <3>1, Messages
  <2>3. Len(serial') = 1
    <3>1. Len(<< <<>> >>) = 1
      OBVIOUS
    <3> QED  BY <2>1, <3>1
  <2>4. Detected'
    BY <2>1, <2>3 DEF Detected, Version, Memory, Sizes
  <2>5. pc \notin Stopped
    BY <2>1 DEF Stopped
  <2>6. /\ IsLines(serial')
        /\ con' # NULL => /\ con'.outside \in BOOLEAN
                          /\ con'.outside => pc' \in Stopped
                          /\ ~con'.outside => Shows(con', serial')
    BY <2>1, <2>5 DEF LogInv
  <2> QED  BY <2>1, <2>2, <2>4, <2>6 DEF LogInv
<1>5. CASE /\ OnlyLogs
           /\ \/ InitProcessor \/ FindMcfg \/ NextSegment \/ FunctionEnumerate \/ ProbePort
              \/ AddDriver \/ ChooseDriver
              \/ TryPort \/ NoDisk \/ ReadHeader \/ ReadTable \/ Register
              \/ Mount \/ Open \/ UseFile \/ Load
  <2>1. pc \notin Stopped
    BY <1>5 DEF InitProcessor, FindMcfg, NextSegment, FunctionEnumerate, ProbePort, AddDriver,
       ChooseDriver, TryPort, NoDisk, ReadHeader, ReadTable, Register, Mount, Open, UseFile, Load, At,
       Stopped
  <2> QED  BY <1>5, <2>1, Logging
<1> QED  BY <1>1, <1>2, <1>3, <1>4, <1>5, FindingDevices, ReadingTable, LoadingProgram DEF Next

LEMMA LogInit ==
  ASSUME Init
  PROVE  LogInv
<1>1. con = NULL /\ serial = << <<>> >> /\ pending = <<>> /\ pc = "start"
  BY DEF Init
<1>2. IsSequence(<< <<>> >>) /\ Len(<< <<>> >>) = 1 /\ << <<>> >>[1] = <<>>
  BY OneIsOne
<1>3. IsLines(serial)
  BY <1>1, <1>2, EmptyIsOne DEF IsLines
<1> QED  BY <1>1, <1>3, NoMessage DEF LogInv

\* ScreenShowsLog: whatever the machine is and however large its screen, the rows are the
\* last lines of the log, none left out, until a message is drawn behind the screen, which
\* only happens when the kernel has stopped.
THEOREM ScreenIsLog == Spec => []ScreenShowsLog
<1>1. Init => LogInv
  BY LogInit
<1>2. LogInv /\ [Next]_vars => LogInv'
  BY LogInvStep
<1>3. LogInv => ScreenShowsLog
  <2> SUFFICES ASSUME LogInv, con # NULL
               PROVE  /\ con.outside => pc \in Stopped
                      /\ ~con.outside => Shows(con, serial)
    BY Zenon DEF ScreenShowsLog, Shows, Above, Stopped
  <2> QED  BY DEF LogInv
<1> QED  BY <1>1, <1>2, <1>3, PTL DEF Spec


=============================================================================
