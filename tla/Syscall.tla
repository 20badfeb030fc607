------------------------------ MODULE Syscall ------------------------------
(***************************************************************************)
(* The way into the kernel and back: jump_usermode (cpu/ring3.asm),         *)
(* init_syscalls and syscall_handler (cpu/syscalls/syscalls.c), the         *)
(* assembly around the handler (cpu/syscalls/syscalls.asm) and the selectors *)
(* of cpu/gdt.c.  Register contents are names: the user program puts        *)
(* <<register, n>> into each register.  SYSCALL, SYSRET and the C calling   *)
(* convention are external.  Interrupts are masked by FMASK and every        *)
(* exception handler halts, so nothing interleaves with the entry code.     *)
(***************************************************************************)
EXTENDS Integers, Sequences

CONSTANTS Numbers,              \* system call numbers the program uses
          Rounds                \* bound on the contents it tells apart

SYS_EXIT == 60
Preserved == {"rbp", "rbx", "r12", "r13", "r14", "r15"}
Scratch   == {"rcx", "rdx", "rsi", "rdi", "r8", "r9", "r10", "r11"}
Reg == Preserved \cup Scratch \cup {"rax", "rsp", "rip", "rflags"}

VARIABLES regs,
          cs, ss,
          star,                 \* STAR: [user, kernel] selector bases
          stack,                \* kernel stack below stack_top, last push first
          user_rsp_saved,
          pc,
          origin,               \* the program's registers when it made the call
          args                  \* what syscall_handler was passed

vars == <<regs, cs, ss, star, stack, user_rsp_saved, pc, origin, args>>

\* Selectors of default_gdt, at their offsets; RPL 3 adds 3.
kernel_code == 8
kernel_data == 16
user_code == 32
user_data == 40
RPL3 == 3

-----------------------------------------------------------------------------
\* The assembly, as lists of registers.

\* Faulty: restored in the order of the pushes.
MutPops == <<"r11", "rcx", "rbp", "rbx", "r12", "r13", "r14", "r15">>

\* What syscall_entry pushes before its call and pops after it.
Pushes == <<"rcx", "r11", "rbp", "rbx", "r12", "r13", "r14", "r15">>
Pops   == <<"r15", "r14", "r13", "r12", "rbx", "rbp", "r11", "rcx">>

Move(r, to, from) == [r EXCEPT ![to] = r[from]]

\* Faulty: r8 is overwritten before it has been copied to r9.
MutMoved(r) ==
    LET m1 == Move(r, "r8", "r10")
        m2 == Move(m1, "r9", "r8")
        m3 == Move(m2, "rcx", "rdx")
        m4 == Move(m3, "rdx", "rsi")
        m5 == Move(m4, "rsi", "rdi")
    IN  Move(m5, "rdi", "rax")

\* The moves that rearrange the arguments, one after the other.
Moved(r) ==
    LET m1 == Move(r, "r9", "r8")
        m2 == Move(m1, "r8", "r10")
        m3 == Move(m2, "rcx", "rdx")
        m4 == Move(m3, "rdx", "rsi")
        m5 == Move(m4, "rsi", "rdi")
    IN  Move(m5, "rdi", "rax")

\* The last push is the first word of the stack.
Pushed(r) == [k \in 1..Len(Pushes) |-> r[Pushes[Len(Pushes) + 1 - k]]]

Popped(r, s) == [n \in Reg |-> IF \E i \in DOMAIN Pops : Pops[i] = n
                               THEN s[CHOOSE i \in DOMAIN Pops : Pops[i] = n]
                               ELSE r[n]]

\* The parameters of a C function (num, rdi, rsi, rdx, r10, r8, r9): six in
\* registers, the seventh on the stack.
Parameters(r, s) == <<r["rdi"], r["rsi"], r["rdx"], r["rcx"], r["r8"], r["r9"], s[1]>>

-----------------------------------------------------------------------------
Init == /\ regs = [r \in Reg |-> "kernel"]
        /\ cs = kernel_code /\ ss = kernel_data
        /\ star = [user |-> 0, kernel |-> 0]
        /\ stack = <<>> /\ user_rsp_saved = "none"
        /\ pc = "boot"
        /\ origin = regs /\ args = <<>>

init_syscalls ==
    /\ pc = "boot"
    /\ star' = [user |-> 32, kernel |-> 8]
    /\ pc' = "kernel"
    /\ UNCHANGED <<regs, cs, ss, stack, user_rsp_saved, origin, args>>

\* iretq to the program, on its own stack.
jump_usermode ==
    /\ pc = "kernel"
    /\ cs' = user_code + RPL3 /\ ss' = user_data + RPL3
    /\ regs' = [regs EXCEPT !["rip"] = "entry", !["rsp"] = "user_stack", !["rflags"] = "0x202"]
    /\ pc' = "user" /\ origin' = regs'
    /\ UNCHANGED <<star, stack, user_rsp_saved, args>>

\* The program runs and then makes a call; SYSCALL keeps rip and rflags in rcx
\* and r11.
UserCalls(number, n) ==
    /\ pc = "user"
    /\ LET user == [r \in Reg |-> IF r = "rax" THEN number ELSE <<r, n>>]
       IN  /\ origin' = user
           /\ regs' = [user EXCEPT !["rcx"] = user["rip"], !["r11"] = user["rflags"],
                                   !["rip"] = "syscall_entry", !["rflags"] = "IF_off"]
    /\ cs' = star.kernel /\ ss' = star.kernel + 8
    /\ pc' = "entry"
    /\ UNCHANGED <<star, stack, user_rsp_saved, args>>

\* syscall_entry up to its call.
Enter ==
    /\ pc = "entry"
    /\ user_rsp_saved' = regs["rsp"]
    /\ stack' = Pushed(regs)
    /\ regs' = Moved([regs EXCEPT !["rsp"] = "kernel_stack", !["rcx"] = regs["r10"]])
    /\ args' = Parameters(regs', stack')
    /\ pc' = "handler"
    /\ UNCHANGED <<cs, ss, star, origin>>

\* syscall_handler: sys_exit halts, every other call returns 0.  A C function
\* may leave anything in the scratch registers.
syscall_handler ==
    /\ pc = "handler"
    /\ IF args[1] = SYS_EXIT
       THEN pc' = "halted" /\ UNCHANGED regs
       ELSE /\ regs' = [r \in Reg |-> IF r = "rax" THEN 0
                                      ELSE IF r \in Scratch THEN "scratch" ELSE regs[r]]
            /\ pc' = "return"
    /\ UNCHANGED <<cs, ss, star, stack, user_rsp_saved, origin, args>>

\* syscall_entry after the call.  SYSRET loads rip and rflags from rcx and r11,
\* CS and SS from STAR.
Leave ==
    /\ pc = "return"
    /\ LET r == Popped(regs, stack)
       IN  regs' = [r EXCEPT !["rsp"] = user_rsp_saved, !["rip"] = r["rcx"],
                             !["rflags"] = r["r11"]]
    /\ stack' = SubSeq(stack, Len(Pops) + 1, Len(stack))
    /\ cs' = star.user + 16 + RPL3 /\ ss' = star.user + 8 + RPL3
    /\ pc' = "user"
    /\ UNCHANGED <<star, user_rsp_saved, origin, args>>

Next == \/ init_syscalls \/ jump_usermode
        \/ \E k \in Numbers, n \in 1..Rounds : UserCalls(k, n)
        \/ Enter \/ syscall_handler \/ Leave

Spec == Init /\ [][Next]_vars

-----------------------------------------------------------------------------
\* A program that made a call finds its stack pointer, rip, flags and every
\* preserved register as they were, and nothing is left on the kernel's stack: the
\* pushes, the pops and the save of rsp around a handler that may overwrite all
\* the others undo each other.
ContextKept ==
    pc = "user" =>
        /\ stack = <<>>
        /\ \A r \in Preserved \cup {"rsp", "rip", "rflags"} : regs[r] = origin[r]

\* The handler is called on the kernel's segments with the number and the first five
\* arguments of the call, whichever order the moves are made in, and on a stack
\* that is aligned to 16 bytes (two pushes).
HandlerCalled ==
    pc = "handler" =>
        /\ cs = kernel_code /\ ss = kernel_data
        /\ \A i \in 1..6 : args[i] = origin[<<"rax", "rdi", "rsi", "rdx", "r10", "r8">>[i]]
        /\ Len(stack) % 2 = 0
=============================================================================
