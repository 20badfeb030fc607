------------------------------- MODULE MCBoot -------------------------------
(***************************************************************************)
(* Boot on machines that differ from a good one in one or two respects: the  *)
(* place of MCFG, what is plugged in where, what the disk's table and its     *)
(* partitions hold, with and without a framebuffer of five rows.             *)
(***************************************************************************)
EXTENDS Boot

Table(s) == [signature |-> s, size |-> 60]
APIC == Table(<<"A", "P", "I", "C">>)
FACP == Table(<<"F", "A", "C", "P">>)
ECDT == Table(<<"E", "C", "D", "T">>)
Mcfg == Table(MCFG)

MCXsdts == {<<FACP, APIC, Mcfg>>, <<Mcfg>>, <<FACP, ECDT, Mcfg>>, <<FACP, APIC>>,
            <<FACP, APIC, FACP, FACP, Mcfg>>, <<FACP, APIC, FACP, FACP, [Mcfg EXCEPT !.size = 256]>>}

Fn(b, d, f, c) == [base |-> "segment", bus |-> b, device |-> d, function |-> f, class |-> c]
Bridge == Fn(0, 0, 0, "other")

MCHeaders == { {Bridge, Fn(0, 31, 0, "other"), Fn(0, 31, 2, "ahci")},
               {Bridge, Fn(0, 1, 0, "ahci"), Fn(0, 2, 0, "other"), Fn(0, 2, 1, "ahci")},
               {Bridge, Fn(0, 1, 0, "ahci"), Fn(0, 2, 0, "ahci"), Fn(0, 3, 0, "ahci")},
               {Bridge, Fn(0, 1, 1, "ahci")},
               {Bridge, Fn(1, 0, 0, "ahci")},
               {Bridge, Fn(2, 0, 0, "ahci")},
               {Bridge, Fn(0, 1, 0, "unclassed"), Fn(0, 2, 0, "ahci")} }

Used(s) == [type_guid |-> "other", start_sector |-> s]
Unused == [type_guid |-> "zero_first", start_sector |-> 0]
Header(n) == [signature |-> "EFI PART", entry_count |-> n]

Ext2(f) == [fs |-> "ext2", file |-> f]
Other == [fs |-> "other", file |-> "missing"]

Disk(n, t, v) == [type |-> "SATA", header |-> Header(n), table |-> t, volume |-> v]
Good == Disk(6, <<Used(1), Unused, Used(2), Used(3)>>, 1 :> Other @@ 2 :> Ext2("elf") @@ 3 :> Other)
Mbr == [Good EXCEPT !.header.signature = "other"]
Cd == [Mbr EXCEPT !.type = "SATAPI"]

MCPorts == {<<Good>>, <<Cd, [Good EXCEPT !.type = "other"], Mbr, Good>>, <<Cd>>, <<>>,
            <<[Good EXCEPT !.header = Header(3)]>>,
            <<[Good EXCEPT !.table = [k \in 1..4 |-> IF k = 2 THEN Used(1) ELSE Unused]]>>,
            <<Good, [Good EXCEPT !.volume[2].file = "text"]>>}
           \cup {<<[Good EXCEPT !.volume[2] = v]>> :
                    v \in {Ext2("text"), Ext2("short"), Ext2("missing"), Other,
                           [fs |-> "panics", file |-> "missing"]}}

MCMachines ==
    {[supported |-> s, framebuffer |-> fb, clean_page |-> c, xsdt |-> x,
      mcfg |-> << [base |-> "segment", start_bus |-> 0, end_bus |-> 2] >>,
      headers |-> hs, ports |-> [h \in hs |-> IF h.class = "ahci" THEN p ELSE <<>>]] :
        s \in BOOLEAN, fb \in BOOLEAN, c \in BOOLEAN, x \in MCXsdts, hs \in MCHeaders, p \in MCPorts}
=============================================================================
