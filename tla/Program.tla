------------------------------ MODULE Program ------------------------------
(***************************************************************************)
(* A program from its file to its system calls: kenter's init_syscalls, then *)
(* elf_load of programs/elf.c (ElfLoad), whose last call is jump_usermode,   *)
(* then the program and the kernel's entry code in turn (Syscall).           *)
(***************************************************************************)
EXTENDS ElfLoad

CONSTANTS Numbers, Rounds       \* of Syscall

ASSUME ProgramAssumption == Numbers \subseteq Nat /\ Rounds \in Nat \ {0}

VARIABLES regs, cs, ss, star, stack, user_rsp_saved, origin, args,
          mode                  \* what the processor executes: Syscall's pc

cpu == <<regs, cs, ss, star, stack, user_rsp_saved, origin, args, mode>>

Kernel == INSTANCE Syscall WITH pc <- mode

ProgramInit == Init /\ Kernel!Init

\* kenter does this before it opens the program.
InitSyscalls == Kernel!init_syscalls /\ UNCHANGED vars

Load == mode = "kernel" /\ Next /\ UNCHANGED cpu

\* The last line of elf_load.
Jump == pc = "user" /\ Kernel!jump_usermode /\ UNCHANGED vars

\* What the program and the entry code do to registers and stacks.
Call == \E n \in Numbers, k \in 1..Rounds : Kernel!UserCalls(n, k) /\ UNCHANGED vars
Enter == Kernel!Enter /\ UNCHANGED vars
Handle == Kernel!syscall_handler /\ UNCHANGED vars
Leave == Kernel!Leave /\ UNCHANGED vars

ProgramNext == InitSyscalls \/ Load \/ Jump \/ Call \/ Enter \/ Handle \/ Leave

ProgramSpec == ProgramInit /\ [][ProgramNext]_<<vars, cpu>>

-----------------------------------------------------------------------------
\* Syscall's ContextKept for a program that elf_load has started: what it had in its
\* preserved registers, its stack pointer and its flags is there after each of its calls,
\* from its entry on.
ContextKept == Kernel!ContextKept

\* Syscall's HandlerCalled: syscall_handler gets the call's number and arguments, on
\* the kernel's segments and on a stack that is aligned to 16 bytes.
HandlerCalled == Kernel!HandlerCalled
=============================================================================
