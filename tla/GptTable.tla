------------------------------ MODULE GptTable ------------------------------
(***************************************************************************)
(* The table of a GPT disk and the kernel's register of partitions          *)
(* (fs/partitions/gpt.c, gpt.h): of a header its signature and the number    *)
(* of entries, of an entry whether strncmp finds the type's GUID empty (its  *)
(* first byte is 0) and where the partition starts.                          *)
(***************************************************************************)
EXTENDS Integers, Sequences

CONSTANT MaxPartitions          \* 255

ASSUME GptTableAssumption == MaxPartitions \in Nat

gpt_header == [signature : {"EFI PART", "other"}, entry_count : Nat]

gpt_partition_entry == [type_guid : {"zero_first", "other"}, start_sector : Nat]

is_gpt(header) == header.signature = "EFI PART"

gpt_is_unused_partition(entry) == entry.type_guid = "zero_first"

gpt_register_partition(partitions, entry) ==
    IF Len(partitions) >= MaxPartitions THEN partitions ELSE Append(partitions, entry)
=============================================================================
