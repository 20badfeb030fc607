------------------------------ MODULE Console ------------------------------
(***************************************************************************)
(* The kernel's log: log and logf (utils/log.c), the console on the          *)
(* framebuffer (console/console.c, graphics/) and the serial port.  A        *)
(* message is the sequence of its lines, the last of them what follows its   *)
(* last newline: <<<<"a">>, <<>>>> is "a\n".  A line is a sequence of texts. *)
(* Rows are rows of text: the pixels below the last whole row, fewer than a  *)
(* glyph is high, and the widths of texts are left out.                      *)
(***************************************************************************)
EXTENDS Integers, SequencesExt

CONSTANT MaxLines               \* rows of text on the framebuffer

ASSUME ConsoleAssumption == MaxLines \in Nat \ {0}

Line(texts) == <<texts, <<>>>>           \* texts and a newline

\* The framebuffer is taken to be blank: nobody clears what the boot loader left there.
console_init == [lines |-> 0, cursor_y |-> 0, rows |-> [r \in 1..MaxLines |-> <<>>],
                 outside |-> FALSE]

\* What is left of the texts so far when another message follows: its first line
\* continues the last one.
Joined(lines, msg) == Front(lines) \o <<Last(lines) \o Head(msg)>> \o Tail(msg)

\* The rows moved up by one.
Scrolled(rows) == Append(Tail(rows), <<>>)

\* psf2_draw_string from the row after y on.
Drawn(rows, msg, y) ==
    [r \in DOMAIN rows |-> rows[r] \o IF r - y \in DOMAIN msg THEN msg[r - y] ELSE <<>>]

\* psf2_draw_char has no bounds: a glyph below the last row is written behind the
\* framebuffer.
DrawsOutside(msg, y) == \E k \in DOMAIN msg : msg[k] # <<>> /\ y + k > MaxLines

\* Faulty: scrolls when the last row is filled, one message early.
MutOverflows(con, newlines) == con.lines + newlines >= MaxLines

Overflows(con, newlines) == con.lines + newlines > MaxLines

\* Lines are counted before they are drawn.  However many are too many, the rows
\* move up by one and the message begins in the last.
console_write(con, msg) ==
    LET full  == Overflows(con, Len(msg) - 1)
        y     == IF full THEN MaxLines - 1 ELSE con.cursor_y
        lines == IF full THEN MaxLines ELSE con.lines + Len(msg) - 1
    IN  [lines    |-> lines,
         cursor_y |-> lines,
         rows     |-> Drawn(IF full THEN Scrolled(con.rows) ELSE con.rows, msg, y),
         outside  |-> con.outside \/ DrawsOutside(msg, y)]

\* panic_interrupt's message: the exception, its error code, the frame and the control
\* registers, then what panic puts before it.
FaultMessage == << <<"exception">>, <<"error_code">>, <<>>, <<"frame">>,
                   <<"rip_cs_rflags">>, <<"rsp_ss">>, <<"control_registers">>,
                   <<"cr0_cr2_cr3_cr4">>, <<>>, <<>> >>
=============================================================================
