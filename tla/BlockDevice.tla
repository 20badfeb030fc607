----------------------------- MODULE BlockDevice -----------------------------
(***************************************************************************)
(* What the file systems and the boot sequence take for granted of          *)
(* ahci_read_virt and ahci_write_virt (drivers/ahci.h): a call that returns  *)
(* true has read or written every sector it names, a call that returns false *)
(* may have written some of them, the first ones, and between calls the disk *)
(* stands still.  Ahci implements this; Fat is built on it.                  *)
(***************************************************************************)
EXTENDS Integers

CONSTANTS DiskSize, Content     \* sectors, and what a sector can hold

VARIABLES disk,                 \* what each sector holds
          call,                 \* the call under way: [kind, start, count, content]
          answer                \* of the last call: [ok, data]

deviceVars == <<disk, call, answer>>

Sector == 0..DiskSize - 1
NoCall == [kind |-> "none", start |-> 0, count |-> 0, content |-> <<>>]
NoAnswer == [ok |-> FALSE, data |-> <<>>]

DeviceInit == disk \in [Sector -> Content] /\ call = NoCall /\ answer = NoAnswer

\* A call begins.  To a read belongs no content.
BeginRead(start, count) ==
    /\ call = NoCall
    /\ call' = [kind |-> "read", start |-> start, count |-> count, content |-> <<>>]
    /\ answer' = NoAnswer
    /\ UNCHANGED disk

BeginWrite(start, count, content) ==
    /\ call = NoCall
    /\ call' = [kind |-> "write", start |-> start, count |-> count, content |-> content]
    /\ answer' = NoAnswer
    /\ UNCHANGED disk

\* A sector of a write: the ones before it are on the disk.
WriteSector ==
    /\ call.kind = "write"
    /\ \E k \in 0..call.count - 1 :
          /\ call.start + k \in Sector
          /\ \A j \in 0..k - 1 : disk[call.start + j] = call.content[j]
          /\ disk' = [disk EXCEPT ![call.start + k] = call.content[k]]
    /\ UNCHANGED <<call, answer>>

Succeed ==
    /\ call.kind # "none"
    /\ call.start..call.start + call.count - 1 \subseteq Sector
    /\ \/ /\ call.kind = "read"
          /\ answer' = [ok |-> TRUE,
                        data |-> [k \in 0..call.count - 1 |-> disk[call.start + k]]]
       \/ /\ call.kind = "write"
          /\ \A k \in 0..call.count - 1 : disk[call.start + k] = call.content[k]
          /\ answer' = [ok |-> TRUE, data |-> <<>>]
    /\ call' = NoCall
    /\ UNCHANGED disk

\* Also a call that was refused when it was made.
GiveUp ==
    /\ call' = NoCall /\ answer' = NoAnswer
    /\ UNCHANGED disk

Device == WriteSector \/ Succeed \/ GiveUp

DeviceNext ==
    \/ \E start \in Sector, count \in 0..DiskSize :
          BeginRead(start, count)
          \/ (call'.kind = "write" /\ call'.content \in [0..count - 1 -> Content]
              /\ BeginWrite(start, count, call'.content))
    \/ Device

DeviceSpec == DeviceInit /\ [][DeviceNext]_deviceVars
=============================================================================
