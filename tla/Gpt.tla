--------------------------------- MODULE Gpt ---------------------------------
(***************************************************************************)
(* Accesses to a partition of a GPT disk (fs/partitions/gpt.c): the file     *)
(* systems name sectors relative to their partition.  A sector holds         *)
(* SectorSize cells, 512 bytes in the code; a write at a byte offset reads    *)
(* the sectors, changes the bytes in memory and writes the sectors back.      *)
(***************************************************************************)
EXTENDS BlockDevice, GptTable

CONSTANT SectorSize             \* cells in a sector

ASSUME GptAssumption == SectorSize \in Nat \ {0}

Cell == 0..SectorSize - 1

gpt_read_partition(partition, start, count) ==
    BeginRead(partition.start_sector + start, count)

\* gpt_write_partition_offset: no byte is written past the sectors that were read.
Refused(byte_offset, count, write_size) == byte_offset + write_size > SectorSize * count

\* Faulty: the sectors are not read first.
MutPatched(read, byte_offset, buffer, write_size) ==
    [s \in DOMAIN read |-> [b \in Cell |->
        LET k == s * SectorSize + b - byte_offset
        IN  buffer[k]]]

\* The sectors that go back.
Patched(read, byte_offset, buffer, write_size) ==
    [s \in DOMAIN read |-> [b \in Cell |->
        LET k == s * SectorSize + b - byte_offset
        IN  IF k \in 0..write_size - 1 THEN buffer[k] ELSE read[s][b]]]

gpt_write_back(partition, start, count, byte_offset, buffer, write_size) ==
    BeginWrite(partition.start_sector + start, count,
               Patched(answer.data, byte_offset, buffer, write_size))
=============================================================================
