------------------------------- MODULE Paths -------------------------------
(***************************************************************************)
(* create_path of fs/fs.c: a string such as "/bin/dash" becomes the list of *)
(* its components.  One step per character.  The buffer of a component is   *)
(* malloc(255); malloc rounds every size up to ALIGN.                       *)
(***************************************************************************)
EXTENDS Integers, SequencesExt

CONSTANTS Letters,              \* characters but the slash
          MAX_NAME,             \* 255
          ALIGN,                \* 16
          LengthBound,          \* bound on the length of the string
          DepthBound            \* bound on the depth asked for

SLASH == "/"

ASSUME PathsAssumption ==
    /\ {MAX_NAME, ALIGN, LengthBound, DepthBound} \subseteq Nat \ {0}
    /\ MAX_NAME % ALIGN # 0           \* else the zero after a full name has no byte left
    /\ SLASH \notin Letters

\* Paths begin with a slash.
Input == UNION {{<<SLASH>> \o s : s \in [1..n -> Letters \cup {SLASH}]} : n \in 0..LengthBound - 1}

VARIABLES in, depth,
          next,                 \* index of the next character
          component,            \* what component holds, as far as current_length
          components,
          highest,              \* highest index of component written to so far
          state

parseVars == <<in, depth, next, component, components, highest, state>>

ParseInit ==
    /\ in \in Input
    /\ depth \in 0..DepthBound
    /\ next = 2                        \* in[1] in the code, which counts from 0
    /\ component = <<>> /\ components = <<>> /\ highest = -1
    /\ state = IF Len(in) = 1 THEN "done" ELSE "loop"

MaxOf(a, b) == IF a >= b THEN a ELSE b

\* The terminating zero goes to component[current_length].
EndComponent ==
    /\ components' = Append(components, component)
    /\ highest' = MaxOf(highest, Len(component))
    /\ component' = <<>>

Going == state = "loop" /\ next <= Len(in) /\ Len(components) < depth

\* Faulty: a component may be one character longer.
MutFull == Len(component) > MAX_NAME

\* Faulty: a component may not be as long as a file name may.
MutFullEarly == Len(component) >= MAX_NAME - 1

Full == Len(component) >= MAX_NAME

\* A slash, or a full buffer: then the character is lost.
Separate ==
    /\ Going /\ (in[next] = SLASH \/ Full)
    /\ EndComponent
    /\ next' = next + 1
    /\ UNCHANGED <<in, depth, state>>

Collect ==
    /\ Going /\ ~(in[next] = SLASH \/ Full)
    /\ component' = Append(component, in[next])
    /\ highest' = MaxOf(highest, Len(component))
    /\ next' = next + 1
    /\ UNCHANGED <<in, depth, components, state>>

Finish ==
    /\ state = "loop" /\ ~Going
    /\ IF component # <<>> THEN EndComponent ELSE UNCHANGED <<component, components, highest>>
    /\ state' = "done"
    /\ UNCHANGED <<in, depth, next>>

ParseNext == Separate \/ Collect \/ Finish

ParseSpec == ParseInit /\ [][ParseNext]_parseVars

-----------------------------------------------------------------------------

\* The names between the slashes of the string: a name is a longest run without a
\* slash that follows one.  An empty one at the end does not count.
Slashes(s) == {k \in DOMAIN s : s[k] = SLASH}

SlashNumber(s, n) ==
    CHOOSE k \in Slashes(s) : Cardinality({j \in Slashes(s) : j <= k}) = n

NameEnd(s, k) ==
    CHOOSE e \in k..Len(s) : /\ e = Len(s) \/ s[e + 1] = SLASH
                             /\ \A j \in k + 1..e : s[j] # SLASH

NamesOf(s) ==
    [n \in 1..Cardinality({k \in Slashes(s) : k < Len(s)}) |->
        SubSeq(s, SlashNumber(s, n) + 1, NameEnd(s, SlashNumber(s, n)))]

\* When no name is longer than a buffer, the components are the names of the
\* string, as many as were asked for, in order.
Parsed ==
    LET names == NamesOf(in)
    IN  state = "done" /\ (\A n \in DOMAIN names : Len(names[n]) <= MAX_NAME) =>
            components = SubSeq(names, 1, IF depth < Len(names) THEN depth ELSE Len(names))

\* Whatever the string, no write leaves the block of a component: the zero after a
\* full name lands in the byte that malloc adds to 255.
StaysInBlock == highest < ((MAX_NAME + ALIGN - 1) \div ALIGN) * ALIGN
=============================================================================
