--------------------------------- MODULE Pci ---------------------------------
(***************************************************************************)
(* How the kernel finds devices: the search of the XSDT for a table          *)
(* (drivers/acpi.c) and the walk over buses, devices and functions           *)
(* (drivers/pci.c).  A function of a device is where its configuration space *)
(* lies and what its header says it is; a function whose device_id is 0 or   *)
(* 0xffff is absent.                                                         *)
(***************************************************************************)
EXTENDS Integers

CONSTANTS PCI_MAX_DRIVERS,
          BusLimit              \* 64: the walk of a segment goes no further

ASSUME PciAssumption == {PCI_MAX_DRIVERS, BusLimit} \subseteq Nat

-----------------------------------------------------------------------------
\* Tables of the firmware; of a size only the byte behind the signature matters.
sdt_header == [signature : [1..4 -> STRING], size : Nat]
acpi_device_config == [base : STRING, start_bus : 0..255, end_bus : 0..255]

MCFG == <<"M", "C", "F", "G">>

\* The bytes that are compared are chosen by the table's place in the XSDT, four
\* times the same one.  At the fifth place it is the lowest byte of the size that is
\* compared, with the zero that ends the string.
Alike(table, place) ==
    IF place <= 4 THEN table.signature[place] = MCFG[place] ELSE table.size % 256 = 0

\* acpi_find_table for "MCFG": the place of the table it returns, 0 for none.  What it
\* compares at the sixth place and later lies behind the string and is left out.
acpi_find_table(xsdt) ==
    LET found == {k \in DOMAIN xsdt : Alike(xsdt[k], k)}
    IN  IF found = {} THEN 0 ELSE CHOOSE k \in found : \A l \in found : k <= l

-----------------------------------------------------------------------------
\* Of a header: where it is, and of class, subclass and interface whether they are an
\* AHCI controller's, another device's, or of a class that PCI_DEVICE_CLASSES lacks.
pci_device_header == [base : STRING, bus : Nat, device : 0..31, function : 0..7,
                      class : {"ahci", "other", "unclassed"}]

Present(headers, base, bus, device, function) ==
    \E h \in headers : /\ h.base = base /\ h.bus = bus
                       /\ h.device = device /\ h.function = function

\* Faulty: looks at the first function of a device only.
MutDeviceEnumerate(headers, h) ==
    Present(headers, h.base, h.bus, h.device, 0) /\ h.function = 0

\* A bus is passed over when its device 0 is absent, and a device when its function 0 is.
bus_enumerate(headers, h) == Present(headers, h.base, h.bus, 0, 0)
device_enumerate(headers, h) == Present(headers, h.base, h.bus, h.device, 0)

Before(g, h) == \/ g.bus < h.bus
                \/ g.bus = h.bus /\ g.device < h.device
                \/ g.bus = h.bus /\ g.device = h.device /\ g.function < h.function

\* The functions that pci_enumerate comes to in a segment, which it does in the order of
\* Before.  end_bus, which is the last bus of the segment, is not visited.
Visited(config, headers) ==
    {h \in headers : /\ h.base = config.base
                     /\ h.bus >= config.start_bus
                     /\ h.bus < config.end_bus /\ h.bus < BusLimit
                     /\ bus_enumerate(headers, h) /\ device_enumerate(headers, h)}
=============================================================================
