----------------------------- MODULE Ahci_proofs -----------------------------
(***************************************************************************)
(* Driver and controller keep out of each other's way, for any memory, disk *)
(* and port; and they implement BlockDevice.                                 *)
(***************************************************************************)
EXTENDS Ahci, FiniteSetTheorems, WellFoundedInduction, TLAPS

Polling == pc \in {"poll_ci", "poll_is"}
Unstarted == pc \in {"probe", "absent", "stopping", "starting"}
Unconfigured == pc \in {"probe", "absent", "stopping"}

Registers == [st : BOOLEAN, fre : BOOLEAN, cr : BOOLEAN, fr : BOOLEAN, ci : BOOLEAN,
              busy : BOOLEAN, tfes : BOOLEAN]
Engine == [active : BOOLEAN, done : Nat, halted : BOOLEAN]
Calls == [kind : {"none", "read", "write"}, start : Sector, count : 0..DiskSize,
          buf : Nat, ok : BOOLEAN, data : [Sector -> Content]]

AhciType ==
    /\ hba \in Registers
    /\ dev \in Engine
    /\ op \in Calls
    /\ disk \in [Sector -> Content]
    /\ data \in [Sector -> Content]
    /\ cmd.count \in 0..DiskSize
    /\ pc \in {"probe", "absent", "stopping", "starting", "idle", "fault",
               "spin", "issue", "poll_ci", "poll_is"}
    /\ Calling => op.count > 0

\* The controller has a command only while the driver waits for it, but for one that
\* failed: it stays issued, and the controller halted.
Handshake ==
    /\ Unstarted => ~hba.ci /\ ~dev.active /\ ~hba.tfes
    /\ ~Unstarted => hba.st
    /\ dev.active => hba.ci /\ ~dev.halted
    /\ hba.ci /\ ~dev.halted => Polling
    /\ hba.tfes => dev.halted

\* From when slot 0 is written to when the call returns, it describes the call.
Commanded == pc = "issue" \/ Polling => cmd = Command

\* The driver holds the port's pages, the buffer of the call under way, and no buffer of
\* an earlier read.
Ownership ==
    /\ Unconfigured => pool = Page /\ held = {}
    /\ ~Unconfigured => \E r \in held : /\ r.for = "port"
                                         /\ {base.list, base.fis, base.tables[0]} \subseteq r.pages
    /\ Calling => \E r \in held :
          op.buf..op.buf + CeilDiv(op.count, SectorsPerPage) - 1 \subseteq r.pages
    /\ pc \in {"starting", "idle"} => \A r \in held : r.for # "read"

DmaInv == AhciType /\ Handshake /\ Commanded /\ Ownership

-----------------------------------------------------------------------------
LEMMA InitHandshake == Init => AhciType /\ Handshake
<1> SUFFICES ASSUME Init PROVE AhciType /\ Handshake
  OBVIOUS
<1>1. 0 \in Sector /\ 0 \in 0..DiskSize /\ ZERO \in Content /\ Sector \subseteq Content
  BY AhciAssumption DEF Sector, ZERO, Content
<1>2. /\ dev = [active |-> FALSE, done |-> 0, halted |-> FALSE]
      /\ pc = "probe" /\ cmd.count = 0
  BY DEF Init, NoCmd
<1>3. hba \in Registers /\ ~hba.ci /\ ~hba.tfes
  <2>1. PICK s \in BOOLEAN, f \in BOOLEAN, b \in BOOLEAN :
           hba = [st |-> s, fre |-> f, cr |-> s, fr |-> f, ci |-> FALSE, busy |-> b,
                  tfes |-> FALSE]
    BY DEF Init
  <2>2. hba.ci = FALSE /\ hba.tfes = FALSE
    BY <2>1
  <2>3. hba \in Registers
    BY <2>1 DEF Registers
  <2> QED  BY <2>2, <2>3
<1>4. disk \in [Sector -> Content] /\ data \in [Sector -> Content]
  BY <1>1 DEF Init, NoOp
<1>5. op \in Calls
  BY <1>1 DEF Init, NoOp, NULL, Calls
<1>6. dev \in Engine
  BY <1>2 DEF Engine
<1>7. AhciType
  BY <1>1, <1>2, <1>3, <1>4, <1>5, <1>6 DEF AhciType, Calling
<1>8. Handshake
  BY <1>2, <1>3 DEF Handshake, Unstarted
<1> QED  BY <1>7, <1>8

\* A nonempty set of numbers has a least element.
LEMMA Least ==
  ASSUME NEW T, T \subseteq Nat, T # {}
  PROVE  \E x \in T : \A y \in T : x <= y
<1> DEFINE R == OpToRel(<, Nat)
<1>1. IsWellFoundedOn(R, Nat)
  BY NatLessThanWellFounded
<1>2. \A x, y \in Nat : <<y, x>> \in R <=> y < x
  BY DEF OpToRel
<1> HIDE DEF R
<1>3. PICK x \in T : \A y \in T : ~(<<y, x>> \in R)
  BY <1>1, WFMin
<1>4. ASSUME NEW y \in T PROVE x <= y
  <2>1. x \in Nat /\ y \in Nat /\ ~(y < x)
    BY <1>2, <1>3
  <2> QED  BY <2>1
<1> QED  BY <1>4

\* What FirstRun returns: a run of n pages of the pool, if there is one.
LEMMA FirstRunIs ==
  ASSUME NEW n \in Nat, FirstRun(n) # {}
  PROVE  \E i \in Page : FirstRun(n) = i..i + n - 1 /\ FirstRun(n) \subseteq pool /\ n > 0
<1> DEFINE starts == {i \in Page : i..i + n - 1 \subseteq pool}
           least == CHOOSE i \in starts : \A j \in starts : i <= j
<1>1. starts # {} /\ n # 0 /\ FirstRun(n) = least..least + n - 1
  BY DEF FirstRun
<1>2. starts \subseteq Nat
  BY DEF Page
<1> HIDE DEF starts
<1>3. \E i \in starts : \A j \in starts : i <= j
  BY <1>1, <1>2, Least
<1>4. least \in starts
  BY <1>3
<1> HIDE DEF least
<1>5. least \in Page /\ least..least + n - 1 \subseteq pool
  BY <1>4 DEF starts
<1> QED  BY <1>1, <1>5

LEMMA FirstOfRun == \A i, n \in Nat : n > 0 => First(i..i + n - 1) = i
<1> SUFFICES ASSUME NEW i \in Nat, NEW n \in Nat, n > 0 PROVE First(i..i + n - 1) = i
  OBVIOUS
<1>1. i \in i..i + n - 1 /\ \A q \in i..i + n - 1 : i <= q
  OBVIOUS
<1>2. \A p \in i..i + n - 1 : (\A q \in i..i + n - 1 : p <= q) => p = i
  BY <1>1
<1> QED  BY <1>1, <1>2 DEF First

\* A buffer has room for its sectors, one page for each when writing.
LEMMA PagesSuffice ==
  ASSUME NEW n \in Nat
  PROVE  /\ ReadPages(n) \in Nat /\ WritePages(n) \in Nat
         /\ CeilDiv(n, SectorsPerPage) <= ReadPages(n)
         /\ CeilDiv(n, SectorsPerPage) <= WritePages(n)
<1>1. SectorsPerPage \in Nat /\ SectorsPerPage > 0
  BY AhciAssumption
<1>2. PICK d \in Nat : d = SectorsPerPage /\ d > 0
  BY <1>1
<1> DEFINE q == (n + d - 1) \div d
<1>3. q \in Nat /\ d * q <= n + d - 1
  <2>1. \A a \in Nat, b \in Nat \ {0} : a \div b \in Nat /\ b * (a \div b) <= a
    OBVIOUS
  <2> QED  BY <1>2, <2>1
<1> HIDE DEF q
<1>4. q <= n
  <2>1. \A a, b \in Nat : a >= n + 1 /\ b > 0 => b * a >= b * (n + 1)
    OBVIOUS
  <2>2. d * (n + 1) = d * n + d /\ d * n >= n
    BY <1>2
  <2> QED  BY <1>2, <1>3, <2>1, <2>2
<1> QED  BY <1>2, <1>3, <1>4 DEF CeilDiv, ReadPages, WritePages, q

LEMMA NoneIsNone == FirstRun(ReadPages(0)) = {} /\ FirstRun(WritePages(0)) = {}
<1>1. PICK d \in Nat \ {0} : d = SectorsPerPage
  BY AhciAssumption
<1>2. (0 + d - 1) \div d = 0
  <2>1. \A a, b \in Nat : a < b => a \div b = 0
    OBVIOUS
  <2> QED  BY <2>1
<1>3. 0 % 2 = 0
  OBVIOUS
<1>4. ReadPages(0) = 0 /\ WritePages(0) = 0
  BY <1>1, <1>2, <1>3 DEF ReadPages, WritePages, CeilDiv
<1>5. FirstRun(0) = {}
  BY DEF FirstRun
<1> QED  BY <1>4, <1>5

\* A command describes no sector that was not asked for, and all if they are not too many.
LEMMA DescribedIs ==
  ASSUME NEW n \in Nat \ {0}
  PROVE  Described(n) \in 1..n /\ (n <= PrdtSectors => Described(n) = n)
<1>1. PICK p \in Nat \ {0} : p = PrdtSectors
  BY AhciAssumption
<1>2. \A a \in Nat, b \in Nat \ {0} : (a % b) \in Nat /\ (a % b) <= a /\ (a < b => (a % b) = a)
  OBVIOUS
<1>3. n - 1 \in Nat
  OBVIOUS
<1> DEFINE m == (n - 1) % p
<1>4. m \in Nat /\ m <= n - 1 /\ (n - 1 < p => m = n - 1)
  BY <1>2, <1>3
<1>5. Described(n) = m + 1
  BY <1>1 DEF Described
<1> HIDE DEF m
<1> QED  BY <1>1, <1>4, <1>5

\* Fewer sectors fill no more pages.
LEMMA CeilGrows ==
  ASSUME NEW m \in Nat, NEW n \in Nat, m <= n
  PROVE  /\ CeilDiv(m, SectorsPerPage) \in Nat /\ CeilDiv(n, SectorsPerPage) \in Nat
         /\ CeilDiv(m, SectorsPerPage) <= CeilDiv(n, SectorsPerPage)
<1>1. PICK d \in Nat \ {0} : d = SectorsPerPage
  BY AhciAssumption
<1>2. \A a, b \in Nat : a <= b => /\ a \div d \in Nat /\ b \div d \in Nat
                                /\ a \div d <= b \div d
  <2> SUFFICES ASSUME NEW a \in Nat, NEW b \in Nat, a <= b
               PROVE  a \div d \in Nat /\ b \div d \in Nat /\ a \div d <= b \div d
    OBVIOUS
  <2> DEFINE q == a \div d
             r == b \div d
  <2>1. /\ q \in Nat /\ r \in Nat /\ d * q <= a /\ b < d * r + d
    OBVIOUS
  <2> HIDE DEF q, r
  <2>2. q >= r + 1 => d * q >= d * (r + 1)
    BY <2>1
  <2>3. d * (r + 1) = d * r + d /\ d * q \in Nat /\ d * r \in Nat
    BY <2>1
  <2>4. q <= r
    BY <2>1, <2>2, <2>3
  <2> QED  BY <2>1, <2>4 DEF q, r
<1>3. m + d - 1 \in Nat /\ n + d - 1 \in Nat /\ m + d - 1 <= n + d - 1
  OBVIOUS
<1>4. /\ CeilDiv(m, SectorsPerPage) = (m + d - 1) \div d
      /\ CeilDiv(n, SectorsPerPage) = (n + d - 1) \div d
  BY <1>1 DEF CeilDiv
<1> HIDE DEF CeilDiv
<1> QED  BY <1>2, <1>3, <1>4

LEMMA StartsAre == Starts \subseteq Sector
BY AhciAssumption

-----------------------------------------------------------------------------
\* Types.

LEMMA BeginType ==
  ASSUME AhciType, NEW start \in Sector, NEW count \in Counts, NEW kind \in {"read", "write"},
         NEW n \in Nat, NEW run, run = FirstRun(n), run # {}, NEW map,
         NEW content \in [Sector -> Content], Begin(kind, start, count, run, map, content)
  PROVE  op' \in Calls /\ data' \in [Sector -> Content] /\ op'.count = count
<1>1. PICK i \in Page : run = i..i + n - 1 /\ n > 0
  BY FirstRunIs
<1>2. First(run) \in Nat
  <2>1. i \in Nat
    BY DEF Page
  <2>2. First(i..i + n - 1) = i
    BY <1>1, <2>1, FirstOfRun
  <2> QED  BY <1>1, <2>1, <2>2
<1>3. count \in 0..DiskSize /\ ZERO \in Content /\ DiskSize \in Nat
  BY AhciAssumption DEF Content
<1>4. data' \in [Sector -> Content]
  BY <1>3 DEF Begin
<1>5. NoOp \in [kind : {"none"}, start : {0}, count : {0}, buf : {0}, ok : {FALSE},
                data : [Sector -> Content]]
  BY <1>3 DEF NoOp, NULL
<1>6. op' = [kind |-> kind, start |-> start, count |-> count, buf |-> First(run),
             ok |-> FALSE, data |-> NoOp.data]
  BY DEF Begin, NoOp
<1> QED  BY <1>2, <1>3, <1>4, <1>5, <1>6 DEF Calls

LEMMA OutOfPagesType ==
  ASSUME AhciType, NEW start \in Sector, NEW count \in Counts, NEW kind \in {"read", "write"},
         pc = "idle", OutOfPages(kind, start, count)
  PROVE  AhciType'
<1>1. count \in 0..DiskSize /\ ZERO \in Content
  BY AhciAssumption DEF Content
<1>2. op' = [kind |-> kind, start |-> start, count |-> count, buf |-> 0,
             ok |-> FALSE, data |-> [k \in Sector |-> ZERO]]
  BY DEF OutOfPages, NoOp, NULL
<1>3. op' \in Calls
  BY <1>1, <1>2 DEF Calls
<1> QED  BY <1>3 DEF OutOfPages, AhciType, Calling

LEMMA ReturnType ==
  ASSUME AhciType, NEW ok \in BOOLEAN, Return(ok), hba' \in Registers
  PROVE  AhciType'
<1>1. ZERO \in Content
  BY DEF Content
<1>2. op' \in Calls
  BY DEF AhciType, Return, Calls
<1>3. data' \in [Sector -> Content]
  BY <1>1 DEF Return, NoOp
<1> QED  BY <1>2, <1>3 DEF Return, AhciType, Calling

LEMMA TypeStep == AhciType /\ [Next]_vars => AhciType'
<1> SUFFICES ASSUME AhciType, [Next]_vars PROVE AhciType'
  OBVIOUS
<1> USE DEF AhciType, Calling
<1>1. ASSUME NEW d, NEW i, NEW g, ProbePort(d, i, g) PROVE AhciType'
  BY <1>1 DEF ProbePort, Registers
<1>2. CASE ConfigurePort
  BY <1>2 DEF ConfigurePort
<1>3. CASE StartPort
  BY <1>3 DEF StartPort, Registers
<1>4. ASSUME NEW s \in Sector, NEW n \in Counts, ReadVirt(s, n) PROVE AhciType'
  <2> DEFINE run == FirstRun(ReadPages(n))
  <2>1. n \in Nat /\ ReadPages(n) \in Nat
    BY AhciAssumption, PagesSuffice
  <2>2. CASE run = {}
    BY <1>4, <2>2, OutOfPagesType DEF ReadVirt
  <2>3. CASE run # {}
    <3>1. /\ Begin("read", s, n, run, ReadMaps(run), [k \in Sector |-> ZERO])
          /\ Touch(run)
      BY <1>4, <2>3 DEF ReadVirt
    <3>2. [k \in Sector |-> ZERO] \in [Sector -> Content]
      BY DEF Content
    <3>3. op' \in Calls /\ data' \in [Sector -> Content] /\ op'.count = n
      BY <2>1, <2>3, <3>1, <3>2, BeginType
    <3>4. n > 0
      BY <2>1, <2>3, NoneIsNone
    <3> QED  BY <3>1, <3>3, <3>4 DEF Begin, Touch
  <2> QED  BY <2>2, <2>3
<1>5. ASSUME NEW s \in Sector, NEW n \in Counts, WriteVirt(s, n) PROVE AhciType'
  <2> DEFINE run == FirstRun(WritePages(n))
  <2>1. n \in Nat /\ WritePages(n) \in Nat
    BY AhciAssumption, PagesSuffice
  <2>2. CASE run = {}
    BY <1>5, <2>2, OutOfPagesType DEF WriteVirt
  <2>3. CASE run # {}
    <3>1. /\ Begin("write", s, n, run, WriteMaps(run), [k \in Sector |-> DiskSize + k])
          /\ Touch(First(run)..First(run) + CeilDiv(n, SectorsPerPage) - 1)
      BY <1>5, <2>3 DEF WriteVirt
    <3>2. [k \in Sector |-> DiskSize + k] \in [Sector -> Content]
      BY AhciAssumption DEF Content, Sector
    <3>3. op' \in Calls /\ data' \in [Sector -> Content] /\ op'.count = n
      BY <2>1, <2>3, <3>1, <3>2, BeginType
    <3>4. n > 0
      BY <2>1, <2>3, NoneIsNone
    <3> QED  BY <3>1, <3>3, <3>4 DEF Begin, Touch
  <2> QED  BY <2>2, <2>3
<1>6. CASE SpinTimeout
  BY <1>6, ReturnType DEF SpinTimeout
<1>7. CASE Prepare
  <2>1. op.count \in 0..DiskSize /\ op.count \in Nat \ {0}
    BY <1>7, AhciAssumption DEF Prepare, Calls
  <2>2. Described(op.count) \in 0..DiskSize
    BY <2>1, DescribedIs, AhciAssumption
  <2>3. cmd'.count = Described(op.count)
    BY <1>7 DEF Prepare, Command
  <2> QED  BY <1>7, <2>2, <2>3 DEF Prepare, Registers
<1>8. CASE Issue
  BY <1>8 DEF Issue, Registers
<1>9. CASE PollCi
  <2>1. CASE Return(TRUE) /\ UNCHANGED hba
    BY <2>1, ReturnType
  <2>2. CASE pc = "poll_ci" /\ pc' = "poll_is" /\ UNCHANGED <<hba, cmd, dev, disk, op, data>>
    BY <2>2
  <2> QED  BY <1>9, <2>1, <2>2 DEF PollCi
<1>10. CASE PollIs
  <2>1. CASE Return(FALSE) /\ UNCHANGED hba
    BY <2>1, ReturnType
  <2>2. CASE pc = "poll_is" /\ pc' = "poll_ci" /\ UNCHANGED <<hba, cmd, dev, disk, op, data>>
    BY <2>2
  <2> QED  BY <1>10, <2>1, <2>2 DEF PollIs
<1>11. CASE EngineFollows \/ ReceiveFollows
  BY <1>11 DEF EngineFollows, ReceiveFollows, driverVars, Registers, Engine
<1>12. CASE BecomeReady
  BY <1>12 DEF BecomeReady, driverVars, Registers
<1>13. CASE Fetch
  BY <1>13 DEF Fetch, driverVars, Registers, Engine
<1>14. CASE Transfer
  <2>1. dev.done \in Sector
    BY <1>14, AhciAssumption DEF Transfer, Engine, Sector
  <2>2. disk' \in [Sector -> Content] /\ data' \in [Sector -> Content]
    BY <1>14, <2>1 DEF Transfer
  <2> QED  BY <1>14, <2>2 DEF Transfer, driverVars, Engine
<1>15. CASE Complete
  BY <1>15 DEF Complete, driverVars, Registers, Engine
<1>16. CASE Fail
  BY <1>16 DEF Fail, driverVars, Registers, Engine
<1>17. CASE UNCHANGED vars
  BY <1>17 DEF vars
<1> QED  BY <1>1, <1>2, <1>3, <1>4, <1>5, <1>6, <1>7, <1>8, <1>9, <1>10, <1>11, <1>12,
            <1>13, <1>14, <1>15, <1>16, <1>17, StartsAre DEF Next, Driver, Work

-----------------------------------------------------------------------------
\* The handshake.

LEMMA ReturnHandshake ==
  ASSUME AhciType, Handshake, NEW ok, Return(ok), UNCHANGED hba,
         ~Unstarted, ~hba.ci \/ dev.halted
  PROVE  Handshake'
BY DEF Return, Handshake, Unstarted, Polling

LEMMA HandshakeStep == AhciType /\ Handshake /\ [Next]_vars => Handshake'
<1> SUFFICES ASSUME AhciType, Handshake, [Next]_vars PROVE Handshake'
  OBVIOUS
<1> USE DEF AhciType, Handshake, Unstarted, Polling
<1>1. ASSUME NEW d, NEW i, NEW g, ProbePort(d, i, g) PROVE Handshake'
  BY <1>1 DEF ProbePort, Registers
<1>2. CASE ConfigurePort
  BY <1>2 DEF ConfigurePort
<1>3. CASE StartPort
  BY <1>3 DEF StartPort, Registers
<1>4. ASSUME NEW s \in Sector, NEW n \in Counts, ReadVirt(s, n) PROVE Handshake'
  <2>1. UNCHANGED <<hba, dev>> /\ pc = "idle" /\ pc' \in {"idle", "spin", "fault"}
    BY <1>4 DEF ReadVirt, OutOfPages, Begin, Touch
  <2> QED  BY <2>1
<1>5. ASSUME NEW s \in Sector, NEW n \in Counts, WriteVirt(s, n) PROVE Handshake'
  <2>1. UNCHANGED <<hba, dev>> /\ pc = "idle" /\ pc' \in {"idle", "spin", "fault"}
    BY <1>5 DEF WriteVirt, OutOfPages, Begin, Touch
  <2> QED  BY <2>1
<1>6. CASE SpinTimeout
  BY <1>6, ReturnHandshake DEF SpinTimeout
<1>7. CASE Prepare
  BY <1>7 DEF Prepare, Registers
<1>8. CASE Issue
  BY <1>8 DEF Issue, Registers
<1>9. CASE PollCi
  <2>1. CASE ~hba.ci /\ Return(TRUE) /\ UNCHANGED hba
    BY <1>9, <2>1, ReturnHandshake DEF PollCi
  <2>2. CASE pc' = "poll_is" /\ UNCHANGED <<hba, dev>>
    BY <1>9, <2>2 DEF PollCi
  <2> QED  BY <1>9, <2>1, <2>2 DEF PollCi
<1>10. CASE PollIs
  <2>1. CASE hba.tfes /\ Return(FALSE) /\ UNCHANGED hba
    BY <1>10, <2>1, ReturnHandshake DEF PollIs
  <2>2. CASE pc' = "poll_ci" /\ UNCHANGED <<hba, dev>>
    BY <1>10, <2>2 DEF PollIs
  <2> QED  BY <1>10, <2>1, <2>2 DEF PollIs
<1>11. CASE ReceiveFollows
  BY <1>11 DEF ReceiveFollows, driverVars, Registers
<1>12. CASE EngineFollows
  <2>1. /\ pc' = pc /\ hba'.st = hba.st /\ hba'.ci = (hba.ci /\ hba.st) /\ hba'.tfes = hba.tfes
    BY <1>12 DEF EngineFollows, driverVars, Registers
  <2>2. dev' = IF hba.st THEN dev ELSE [dev EXCEPT !.active = FALSE, !.halted = FALSE]
    BY <1>12 DEF EngineFollows
  <2>3. hba.st => dev' = dev
    BY <2>2
  <2>4. ~hba.st => ~dev'.active /\ ~dev'.halted
    BY <2>2 DEF Engine
  <2> QED  BY <2>1, <2>3, <2>4
<1>13. CASE BecomeReady
  BY <1>13 DEF BecomeReady, driverVars, Registers
<1>14. CASE Fetch
  BY <1>14 DEF Fetch, Running, driverVars, Registers, Engine
<1>15. CASE Transfer
  BY <1>15 DEF Transfer, driverVars, Engine
<1>16. CASE Complete
  BY <1>16 DEF Complete, driverVars, Registers, Engine
<1>17. CASE Fail
  BY <1>17 DEF Fail, driverVars, Registers, Engine
<1>18. CASE UNCHANGED vars
  BY <1>18 DEF vars
<1> QED  BY <1>1, <1>2, <1>3, <1>4, <1>5, <1>6, <1>7, <1>8, <1>9, <1>10, <1>12, <1>13,
            <1>14, <1>15, <1>16, <1>17, <1>18, <1>11, StartsAre DEF Next, Driver, Work

-----------------------------------------------------------------------------
\* Commands and pages.

LEMMA CommandedStep == Commanded /\ [Next]_vars => Commanded'
<1> SUFFICES ASSUME Commanded, [Next]_vars PROVE Commanded'
  OBVIOUS
<1> USE DEF Commanded, Polling, Command
<1>1. ASSUME NEW d, NEW i, NEW g, ProbePort(d, i, g) PROVE Commanded'
  BY <1>1 DEF ProbePort
<1>2. CASE ConfigurePort \/ StartPort
  BY <1>2 DEF ConfigurePort, StartPort
<1>3. ASSUME NEW s, NEW n, ReadVirt(s, n) \/ WriteVirt(s, n) PROVE Commanded'
  BY <1>3 DEF ReadVirt, WriteVirt, OutOfPages, Touch
<1>4. CASE Prepare
  <2>1. cmd' = Command /\ op' = op
    BY <1>4 DEF Prepare
  <2> QED  BY <2>1
<1>5. CASE Issue
  BY <1>5 DEF Issue
<1>6. CASE SpinTimeout \/ PollCi \/ PollIs
  <2>1. CASE pc' = "idle"
    BY <2>1
  <2>2. CASE pc \in {"poll_ci", "poll_is"} /\ UNCHANGED <<cmd, op>>
    BY <2>2
  <2> QED  BY <1>6, <2>1, <2>2 DEF SpinTimeout, PollCi, PollIs, Return
<1>7. CASE EngineFollows \/ ReceiveFollows \/ BecomeReady \/ Work
  BY <1>7 DEF EngineFollows, ReceiveFollows, BecomeReady, Work, Fetch, Transfer, Complete, Fail,
              driverVars
<1>8. CASE UNCHANGED vars
  BY <1>8 DEF vars
<1> QED  BY <1>1, <1>2, <1>3, <1>4, <1>5, <1>6, <1>7, <1>8 DEF Next, Driver

\* The k-th page from the first one on.
LEMMA PageNumber ==
  ASSUME NEW k \in 0..NPages - 1
  PROVE  (CHOOSE a \in Page : Cardinality({b \in Page : b < a}) = k) = k + 1
<1>1. NPages \in Nat
  BY AhciAssumption
<1>2. ASSUME NEW a \in Page PROVE Cardinality({b \in Page : b < a}) = a - 1
  <2>1. {b \in Page : b < a} = 1..a - 1
    BY <1>1 DEF Page
  <2>2. a \in Nat /\ a >= 1
    BY <1>1 DEF Page
  <2>3. Cardinality(1..a - 1) = IF 1 > a - 1 THEN 0 ELSE (a - 1) - 1 + 1
    BY <2>2, FS_Interval
  <2>4. Cardinality(1..a - 1) = a - 1
    BY <2>2, <2>3
  <2> QED  BY <2>1, <2>4
<1>3. k + 1 \in Page /\ \A a \in Page : a \in Nat /\ (a - 1 = k => a = k + 1)
  BY <1>1 DEF Page
<1> QED  BY <1>2, <1>3

\* A buffer that FirstRun finds is big enough, and is held.
LEMMA BeginHolds ==
  ASSUME NEW n \in Nat, NEW start, NEW count, NEW kind, NEW run, run = FirstRun(n), run # {},
         NEW map, NEW content, Begin(kind, start, count, run, map, content),
         CeilDiv(count, SectorsPerPage) \in Nat, CeilDiv(count, SectorsPerPage) <= n
  PROVE  \E r \in held' :
            op'.buf..op'.buf + CeilDiv(op'.count, SectorsPerPage) - 1 \subseteq r.pages
<1>1. PICK i \in Page : run = i..i + n - 1 /\ n > 0
  BY FirstRunIs
<1>2. First(run) = i /\ i \in Nat
  <2>1. i \in Nat
    BY DEF Page
  <2>2. First(i..i + n - 1) = i
    BY <1>1, <2>1, FirstOfRun
  <2> QED  BY <1>1, <2>1, <2>2
<1>3. op'.buf = i /\ op'.count = count
  <2>1. op' = [kind |-> kind, start |-> start, count |-> count, buf |-> First(run),
               ok |-> FALSE, data |-> NoOp.data]
    BY DEF Begin, NoOp
  <2> QED  BY <1>2, <2>1
<1>4. i..i + CeilDiv(count, SectorsPerPage) - 1 \subseteq run
  BY <1>1, <1>2
<1>5. [pages |-> run, for |-> kind] \in held'
  BY DEF Begin
<1> QED  BY <1>3, <1>4, <1>5

\* Returning gives away only what is held for a read.
LEMMA ReturnHolds ==
  ASSUME Ownership, ~Unconfigured, NEW ok, Return(ok)
  PROVE  Ownership'
<1>1. held' = held \ {r \in held : r.for = "read"} /\ pc' = "idle" /\ base' = base
  BY DEF Return, GivenBack
<1>2. \E r \in held' : /\ r.for = "port"
                       /\ {base.list, base.fis, base.tables[0]} \subseteq r.pages
  BY <1>1 DEF Ownership
<1> QED  BY <1>1, <1>2 DEF Ownership, Unconfigured, Calling

LEMMA ConfigureHolds ==
  ASSUME Ownership, ConfigurePort
  PROVE  Ownership'
<1> DEFINE p(k) == CHOOSE a \in pool : Cardinality({b \in pool : b < a}) = k
           got == {p(k) : k \in 0..Slots + 1}
<1>1. pool = Page /\ held = {}
  BY DEF Ownership, Unconfigured, ConfigurePort
<1>2. /\ base' = [list |-> p(0), fis |-> p(1),
                  tables |-> [i \in 0..Slots - 1 |-> p(i + 2) + i \div TablesPerPage]]
      /\ held' = held \cup {[pages |-> got, for |-> "port"]}
      /\ pc' = "starting"
  BY DEF ConfigurePort
<1>3. /\ {0, 1, 2} \subseteq 0..Slots + 1 /\ {0, 1, 2} \subseteq 0..NPages - 1
      /\ 0 \in 0..Slots - 1 /\ 0 \div TablesPerPage = 0
  <2>1. {NPages, Slots, TablesPerPage} \subseteq Nat \ {0} /\ Slots + 2 <= NPages
    BY AhciAssumption
  <2>2. \A d \in Nat \ {0} : 0 \div d = 0
    OBVIOUS
  <2> QED  BY <2>1, <2>2
<1>4. p(2) = 3
  BY <1>1, <1>3, PageNumber
<1> HIDE DEF p
<1>5. base'.tables[0] = p(2)
  BY <1>2, <1>3, <1>4
<1>6. {base'.list, base'.fis, base'.tables[0]} \subseteq got
  BY <1>2, <1>3, <1>5
<1>7. held' = {[pages |-> got, for |-> "port"]}
  BY <1>1, <1>2
<1> HIDE DEF got
<1>8. /\ \E r \in held' : /\ r.for = "port"
                           /\ {base'.list, base'.fis, base'.tables[0]} \subseteq r.pages
      /\ \A r \in held' : r.for # "read"
  BY <1>6, <1>7
<1>9. pc' = "starting"
  BY <1>2
<1> QED  BY <1>8, <1>9 DEF Ownership, Unconfigured, Calling

LEMMA OwnershipStep == AhciType /\ Ownership /\ [Next]_vars => Ownership'
<1> SUFFICES ASSUME AhciType, Ownership, [Next]_vars PROVE Ownership'
  OBVIOUS
<1>1. ASSUME NEW d, NEW i, NEW g, ProbePort(d, i, g) PROVE Ownership'
  BY <1>1 DEF ProbePort, Ownership, Unconfigured, Calling
<1>2. CASE ConfigurePort
  BY <1>2, ConfigureHolds
<1>3. CASE StartPort
  BY <1>3 DEF StartPort, Ownership, Unconfigured, Calling
<1>4. ASSUME pc = "idle", NEW s, NEW n, NEW k, OutOfPages(k, s, n) PROVE Ownership'
  BY <1>4 DEF OutOfPages, Ownership, Unconfigured, Calling
<1>5. ASSUME NEW s, NEW n \in Counts, NEW k, NEW m \in Nat, NEW map, NEW content,
             CeilDiv(n, SectorsPerPage) \in Nat, CeilDiv(n, SectorsPerPage) <= m,
             FirstRun(m) # {}, Begin(k, s, n, FirstRun(m), map, content),
             pc = "idle", pc' \in {"spin", "fault"}
      PROVE  Ownership'
  <2>1. \E r \in held' :
           op'.buf..op'.buf + CeilDiv(op'.count, SectorsPerPage) - 1 \subseteq r.pages
    BY <1>5, BeginHolds
  <2>2. held \subseteq held' /\ base' = base
    BY <1>5 DEF Begin
  <2> QED  BY <1>5, <2>1, <2>2 DEF Ownership, Unconfigured, Calling
<1>6. ASSUME NEW s \in Sector, NEW n \in Counts, ReadVirt(s, n) PROVE Ownership'
  <2>1. /\ n \in Nat /\ ReadPages(n) \in Nat /\ CeilDiv(n, SectorsPerPage) = ReadPages(n)
    BY AhciAssumption, PagesSuffice DEF ReadPages
  <2>2. CASE FirstRun(ReadPages(n)) = {}
    BY <1>4, <1>6, <2>2 DEF ReadVirt
  <2>3. CASE FirstRun(ReadPages(n)) # {}
    <3>1. /\ Begin("read", s, n, FirstRun(ReadPages(n)), ReadMaps(FirstRun(ReadPages(n))),
                   [k \in Sector |-> ZERO])
          /\ pc = "idle" /\ pc' \in {"spin", "fault"}
      BY <1>6, <2>3 DEF ReadVirt, Touch
    <3> QED  BY <1>5, <2>1, <2>3, <3>1
  <2> QED  BY <2>2, <2>3
<1>7. ASSUME NEW s \in Sector, NEW n \in Counts, WriteVirt(s, n) PROVE Ownership'
  <2>1. /\ n \in Nat /\ WritePages(n) \in Nat /\ CeilDiv(n, SectorsPerPage) \in Nat
        /\ CeilDiv(n, SectorsPerPage) <= WritePages(n)
    <3>1. n \in Nat
      BY AhciAssumption
    <3> QED  BY <3>1, PagesSuffice DEF ReadPages
  <2>2. CASE FirstRun(WritePages(n)) = {}
    BY <1>4, <1>7, <2>2 DEF WriteVirt
  <2>3. CASE FirstRun(WritePages(n)) # {}
    <3>1. /\ Begin("write", s, n, FirstRun(WritePages(n)), WriteMaps(FirstRun(WritePages(n))),
                   [k \in Sector |-> DiskSize + k])
          /\ pc = "idle" /\ pc' \in {"spin", "fault"}
      BY <1>7, <2>3 DEF WriteVirt, Touch
    <3> QED  BY <1>5, <2>1, <2>3, <3>1
  <2> QED  BY <2>2, <2>3
<1>8. ASSUME NEW ok, Return(ok), ~Unconfigured PROVE Ownership'
  BY <1>8, ReturnHolds
<1>9. CASE SpinTimeout \/ PollCi \/ PollIs
  <2>1. ~Unconfigured
    BY <1>9 DEF SpinTimeout, PollCi, PollIs, Unconfigured
  <2>2. CASE \E ok \in BOOLEAN : Return(ok)
    BY <1>8, <2>1, <2>2
  <2>3. CASE /\ UNCHANGED <<base, pool, held, op>>
             /\ Calling /\ pc' \in {"poll_ci", "poll_is"}
    BY <2>1, <2>3 DEF Ownership, Unconfigured, Calling
  <2> QED  BY <1>9, <2>2, <2>3 DEF SpinTimeout, PollCi, PollIs, Calling
<1>10. CASE Prepare \/ Issue
  BY <1>10 DEF Prepare, Issue, Ownership, Unconfigured, Calling
<1>11. CASE EngineFollows \/ ReceiveFollows \/ BecomeReady \/ Work
  BY <1>11 DEF EngineFollows, ReceiveFollows, BecomeReady, Work, Fetch, Transfer, Complete, Fail, driverVars,
               Ownership, Unconfigured, Calling
<1>12. CASE UNCHANGED vars
  BY <1>12 DEF vars, Ownership, Unconfigured, Calling
<1> QED  BY <1>1, <1>2, <1>3, <1>6, <1>7, <1>9, <1>10, <1>11, <1>12, StartsAre
         DEF Next, Driver

LEMMA DmaInvInductive == Spec => []DmaInv
<1>1. Init => DmaInv
  <2>1. Init => Commanded /\ Ownership
    BY DEF Init, Commanded, Polling, Ownership, Unconfigured, Calling
  <2> QED  BY <2>1, InitHandshake DEF DmaInv
<1>2. DmaInv /\ [Next]_vars => DmaInv'
  BY TypeStep, HandshakeStep, CommandedStep, OwnershipStep DEF DmaInv
<1> QED  BY <1>1, <1>2, PTL DEF Spec

\* Whatever the controller may fetch from or move data to belongs to the driver: no page goes
\* back to the allocator under a command, for any memory, disk, number of slots and counts.
THEOREM DmaStaysOwned == Spec => []DmaOwned
<1>1. DmaInv => DmaOwned
  <2> SUFFICES ASSUME DmaInv, (Running /\ hba.ci) \/ dev.active
               PROVE  {base.list, base.fis, base.tables[0]}
                         \cup (cmd.buf..cmd.buf + CeilDiv(cmd.count, SectorsPerPage) - 1)
                         \subseteq HeldPages
    BY DEF DmaOwned
  <2>1. Polling
    BY DEF DmaInv, Handshake, Running
  <2>2. cmd.buf = op.buf /\ cmd.count = Described(op.count)
    BY <2>1 DEF DmaInv, Commanded, Command
  <2>3. Calling /\ ~Unconfigured
    BY <2>1 DEF Polling, Calling, Unconfigured
  <2>4. \A r \in held : r.pages \subseteq HeldPages
    BY DEF HeldPages
  <2>5. {base.list, base.fis, base.tables[0]} \subseteq HeldPages
    BY <2>3, <2>4 DEF DmaInv, Ownership
  <2>6. op.buf..op.buf + CeilDiv(op.count, SectorsPerPage) - 1 \subseteq HeldPages
    BY <2>3, <2>4 DEF DmaInv, Ownership
  <2>7. op.count \in Nat \ {0} /\ op.buf \in Nat
    BY <2>3, AhciAssumption DEF DmaInv, AhciType, Calls
  <2>8. Described(op.count) \in 1..op.count /\ Described(op.count) \in Nat
    BY <2>7, DescribedIs
  <2>9. PICK m \in Nat, n \in Nat : /\ m = CeilDiv(Described(op.count), SectorsPerPage)
                                   /\ n = CeilDiv(op.count, SectorsPerPage) /\ m <= n
    BY <2>7, <2>8, CeilGrows
  <2>10. op.buf..op.buf + m - 1 \subseteq op.buf..op.buf + n - 1
    BY <2>7, <2>9
  <2> QED  BY <2>2, <2>5, <2>6, <2>9, <2>10
<1> QED  BY <1>1, DmaInvInductive, PTL

\* The driver never touches the addresses that a running engine of the port uses, nor slot
\* 0's table under a command that was issued to it.
THEOREM CommandsAreStable == Spec => CommandStable
<1>1. DmaInv /\ [Next]_vars =>
         [/\ hba.cr => base'.list = base.list /\ base'.tables = base.tables
          /\ hba.fr => base'.fis = base.fis
          /\ Running /\ hba.ci => cmd' = cmd]_vars
  <2> SUFFICES ASSUME DmaInv, Next
               PROVE  /\ hba.cr \/ hba.fr => base' = base
                      /\ Running /\ hba.ci => cmd' = cmd
    BY DEF vars
  <2>1. CASE ConfigurePort
    BY <2>1 DEF ConfigurePort, Stopped
  <2>2. CASE Prepare
    <3>1. ~(Running /\ hba.ci)
      BY <2>2 DEF Prepare, Running, DmaInv, Handshake, Polling
    <3> QED  BY <2>2, <3>1 DEF Prepare
  <2>3. ASSUME NEW d, NEW i, NEW g, ProbePort(d, i, g) PROVE UNCHANGED <<base, cmd>>
    BY <2>3 DEF ProbePort
  <2>4. ASSUME NEW s, NEW n, ReadVirt(s, n) \/ WriteVirt(s, n) PROVE UNCHANGED <<base, cmd>>
    BY <2>4 DEF ReadVirt, WriteVirt, OutOfPages, Begin
  <2>5. CASE StartPort \/ Issue
    BY <2>5 DEF StartPort, Issue
  <2>6. CASE SpinTimeout \/ PollCi \/ PollIs
    BY <2>6 DEF SpinTimeout, PollCi, PollIs, Return
  <2>7. CASE EngineFollows \/ ReceiveFollows \/ BecomeReady \/ Work
    BY <2>7 DEF EngineFollows, ReceiveFollows, BecomeReady, Work, Fetch, Transfer, Complete, Fail, driverVars
  <2> QED  BY <2>1, <2>2, <2>3, <2>4, <2>5, <2>6, <2>7 DEF Next, Driver
<1> QED  BY <1>1, DmaInvInductive, PTL DEF Spec, CommandStable

\* When ahci_read_virt has returned, with or without success, its buffer has gone back.
THEOREM ReadsGiveBack == Spec => []ReadsKeepNothing
<1>1. DmaInv => ReadsKeepNothing
  BY DEF DmaInv, Ownership, ReadsKeepNothing
<1> QED  BY <1>1, DmaInvInductive, PTL

-----------------------------------------------------------------------------
\* The first n sectors of the call are the same on the disk and in the buffer.
Moved(n) == \A j \in 0..n - 1 : disk[SaidStart(op.start) + j] = data[j]

\* A command moves the sectors of the call one after the other, and is done when all have
\* been moved.
Transferring ==
    /\ Calling \/ pc = "fault" => op.kind # "none" /\ ~op.ok /\ op.start + op.count <= DiskSize
    /\ Calling /\ op.kind = "write" => \A k \in 0..op.count - 1 : data[k] = DiskSize + k
    /\ dev.active => dev.done <= SaidCount(op.count) /\ Moved(dev.done)
    /\ Polling /\ ~hba.ci => Moved(SaidCount(op.count))

\* A sector number of three bytes is sent as it is, a greater one as a smaller one.
LEMMA FisLbaIs ==
  ASSUME NEW s \in Nat
  PROVE  /\ FisLba(s) \in Nat /\ FisLba(s) <= s
         /\ s < Radix * Radix * Radix => FisLba(s) = s
<1>1. PICK r \in Nat \ {0} : r = Radix
  BY AhciAssumption
<1> DEFINE x == r * r * r
           y == x * r
<1>2. x \in Nat \ {0}
  <2>1. \A a, b \in Nat \ {0} : a * b \in Nat \ {0}
    OBVIOUS
  <2> QED  BY <2>1
<1> HIDE DEF x
<1>3. y \in Nat \ {0} /\ y >= x
  <2>1. \A a, b \in Nat \ {0} : a * b \in Nat \ {0} /\ a * b >= a
    OBVIOUS
  <2> QED  BY <1>2, <2>1
<1>4. FisLba(s) = (s % x) + (s \div y) * x
  BY <1>1 DEF FisLba, x, y
<1> HIDE DEF y
<1> DEFINE m == s % x
           k == s \div x
           q == s \div y
<1>5. /\ m \in Nat /\ k \in Nat /\ m < x /\ s = x * k + m
      /\ q \in Nat /\ y * q <= s
  <2>1. \A a \in Nat, b \in Nat \ {0} :
           /\ (a % b) \in Nat /\ (a % b) < b /\ (a \div b) \in Nat
           /\ a = b * (a \div b) + (a % b) /\ b * (a \div b) <= a
    OBVIOUS
  <2> QED  BY <1>2, <1>3, <2>1
<1>6. /\ FisLba(s) = m + q * x
      /\ s < x => m = s /\ q = 0
  <2>1. \A a, b \in Nat : a < b => (a % b) = a
    OBVIOUS
  <2>2. \A a, b \in Nat : a < b => a \div b = 0
    OBVIOUS
  <2>3. s < x => m = s
    BY <1>2, <2>1
  <2>4. s < x => s < y
    BY <1>2, <1>3
  <2>5. s < y => q = 0
    BY <1>3, <2>2
  <2> QED  BY <1>4, <2>3, <2>4, <2>5
<1> HIDE DEF m, k, q
<1>7. q * x <= y * q
  <2>1. \A a, b, c \in Nat : b >= c => a * c <= b * a
    OBVIOUS
  <2> QED  BY <1>2, <1>3, <1>5, <2>1
<1>8. q <= k
  <2>1. \A a, b, c \in Nat : a >= b + 1 => a * c >= c * b + c
    <3> SUFFICES ASSUME NEW a \in Nat, NEW b \in Nat, NEW c \in Nat, a >= b + 1
                 PROVE  a * c >= c * b + c
      OBVIOUS
    <3>1. (b + 1) * c = c * b + c
      OBVIOUS
    <3> QED  BY <3>1
  <2>2. q >= k + 1 => q * x >= x * k + x
    BY <1>2, <1>5, <2>1
  <2>3. q * x \in Nat /\ y * q \in Nat /\ x * k \in Nat
    BY <1>2, <1>3, <1>5
  <2> QED  BY <1>2, <1>5, <1>7, <2>2, <2>3
<1>9. q * x \in Nat /\ q * x <= x * k /\ x * k \in Nat
  <2>1. \A a, b, c \in Nat : a <= b => a * c \in Nat /\ a * c <= c * b /\ c * b \in Nat
    OBVIOUS
  <2> QED  BY <1>2, <1>5, <1>8, <2>1
<1>10. q = 0 => q * x = 0
  BY <1>2
<1>11. x = Radix * Radix * Radix
  BY <1>1 DEF x
<1> QED  BY <1>5, <1>6, <1>9, <1>10, <1>11

\* A call is for the sectors its command names; they are not behind what was asked for.
LEMMA SaidIs ==
  ASSUME NEW start \in Sector, NEW count \in Nat \ {0}, start + count <= DiskSize
  PROVE  /\ SaidStart(start) = FisLba(start) /\ SaidCount(count) = Described(count)
         /\ SaidStart(start) \in Sector /\ SaidCount(count) \in 1..count
         /\ SaidCount(count) \in 0..DiskSize /\ SaidStart(start) + SaidCount(count) <= DiskSize
<1>1. start \in Nat /\ DiskSize \in Nat /\ start <= DiskSize - 1
  BY AhciAssumption DEF Sector
<1>2. SaidStart(start) = FisLba(start) /\ SaidStart(start) \in Nat /\ SaidStart(start) <= start
  BY <1>1, FisLbaIs DEF SaidStart
<1>3. SaidCount(count) = Described(count) /\ SaidCount(count) \in 1..count
  BY DescribedIs DEF SaidCount
<1> QED  BY <1>1, <1>2, <1>3 DEF Sector

\* A command names the sectors that were asked for, if three bytes can number the first one
\* and a PRDT entry has room for them all.  Otherwise it goes to no later sector, and moves at
\* least one and not all; ahci_read_virt and ahci_write_virt return true all the same.
THEOREM CommandNames ==
  ASSUME NEW start \in Sector, NEW count \in Nat \ {0}
  PROVE  /\ start < Radix * Radix * Radix => FisLba(start) = start
         /\ FisLba(start) <= start
         /\ count <= PrdtSectors => Described(count) = count
         /\ count > PrdtSectors => Described(count) \in 1..count - 1
<1>1. start \in Nat
  BY AhciAssumption DEF Sector
<1>2. PICK p \in Nat \ {0} : p = PrdtSectors
  BY AhciAssumption
<1>3. Described(count) \in 1..count /\ (count <= p => Described(count) = count)
  BY <1>2, DescribedIs
<1>4. Described(count) <= p
  <2>1. \A a \in Nat, b \in Nat \ {0} : (a % b) \in Nat /\ (a % b) <= b - 1
    OBVIOUS
  <2>2. count - 1 \in Nat
    OBVIOUS
  <2> DEFINE m == (count - 1) % p
  <2>3. m \in Nat /\ m <= p - 1
    BY <2>1, <2>2
  <2>4. Described(count) = m + 1
    BY <1>2 DEF Described
  <2> HIDE DEF m
  <2> QED  BY <2>3, <2>4
<1>5. count > p => Described(count) \in 1..count - 1
  BY <1>3, <1>4
<1> QED  BY <1>1, <1>2, <1>3, <1>5, FisLbaIs

LEMMA SaidOfCall ==
  ASSUME AhciType, Calling, op.start + op.count <= DiskSize
  PROVE  /\ SaidStart(op.start) = FisLba(op.start) /\ SaidCount(op.count) = Described(op.count)
         /\ SaidStart(op.start) \in Sector /\ SaidCount(op.count) \in 1..op.count
         /\ SaidCount(op.count) \in 0..DiskSize
         /\ SaidStart(op.start) + SaidCount(op.count) <= DiskSize
         /\ op.count \in Nat /\ DiskSize \in Nat
<1>1. op.start \in Sector /\ op.count \in Nat \ {0} /\ DiskSize \in Nat
  BY AhciAssumption DEF AhciType, Calls
<1>2. PICK a \in Sector : a = op.start
  BY <1>1
<1>3. PICK b \in Nat \ {0} : b = op.count
  BY <1>1
<1>4. a + b <= DiskSize
  BY <1>2, <1>3
<1>5. /\ SaidStart(a) = FisLba(a) /\ SaidCount(b) = Described(b)
      /\ SaidStart(a) \in Sector /\ SaidCount(b) \in 1..b
      /\ SaidCount(b) \in 0..DiskSize /\ SaidStart(a) + SaidCount(b) <= DiskSize
  BY <1>4, SaidIs
<1> QED  BY <1>1, <1>2, <1>3, <1>5

LEMMA BeginTransferring ==
  ASSUME DmaInv, pc = "idle", NEW start \in Sector, NEW count \in Counts,
         start + count <= DiskSize, NEW kind \in {"read", "write"}, NEW run, NEW map,
         NEW content \in [Sector -> Content],
         kind = "write" => content = [k \in Sector |-> DiskSize + k],
         Begin(kind, start, count, run, map, content), pc' \in {"spin", "fault"}
  PROVE  Transferring'
<1>1. op' = [kind |-> kind, start |-> start, count |-> count, buf |-> First(run),
             ok |-> FALSE, data |-> NoOp.data]
  BY DEF Begin, NoOp
<1>2. op'.kind = kind /\ ~op'.ok /\ op'.start = start /\ op'.count = count
  BY <1>1
<1>3. data' = [k \in Sector |-> IF k < count THEN content[k] ELSE ZERO] /\ dev' = dev
  BY DEF Begin
<1>4. ~dev'.active
  BY <1>3 DEF DmaInv, Handshake, Polling
<1>5. kind = "write" => \A k \in 0..count - 1 : data'[k] = DiskSize + k
  <2>1. 0..count - 1 \subseteq Sector /\ \A k \in 0..count - 1 : k < count
    BY AhciAssumption DEF Sector
  <2> QED  BY <1>3, <2>1
<1> QED  BY <1>2, <1>4, <1>5 DEF Transferring, Polling

LEMMA TransferStep ==
  ASSUME DmaInv, Transferring, Transfer
  PROVE  Transferring'
<1> DEFINE n == dev.done
<1>1. Polling /\ Calling
  BY DEF DmaInv, Handshake, Transfer, Polling, Calling
<1>2. cmd = Command
  BY <1>1 DEF DmaInv, Commanded
<1>3. /\ op.start \in Sector /\ op.count \in 0..DiskSize /\ n \in Nat /\ DiskSize \in Nat
      /\ op.kind \in {"none", "read", "write"}
  BY AhciAssumption DEF DmaInv, AhciType, Calls, Engine
<1>4. op.start + op.count <= DiskSize
  BY <1>1 DEF Transferring
<1>5. /\ SaidStart(op.start) = FisLba(op.start) /\ SaidCount(op.count) = Described(op.count)
       /\ SaidStart(op.start) \in Sector /\ SaidCount(op.count) \in 1..op.count
       /\ SaidStart(op.start) + SaidCount(op.count) <= DiskSize
  BY <1>1, <1>4, SaidOfCall DEF DmaInv
<1> DEFINE st == SaidStart(op.start)
           ct == SaidCount(op.count)
<1>6. cmd.count = ct /\ cmd.lba = st /\ cmd.write = (op.kind = "write")
  BY <1>2, <1>5 DEF Command
<1>7. /\ n < ct /\ st + ct <= DiskSize /\ Moved(n) /\ st \in Nat /\ ct \in Nat /\ ct <= op.count
  BY <1>1, <1>3, <1>5, <1>6 DEF Transferring, Transfer, Sector
<1>8. Moved(n) <=> \A j \in 0..n - 1 : disk[st + j] = data[j]
  BY DEF Moved
<1>9. Moved(dev.done)' <=> \A j \in 0..dev'.done - 1 : disk'[SaidStart(op'.start) + j] = data'[j]
  BY DEF Moved
<1> HIDE DEF st, ct
<1>10. /\ st + n \in Sector /\ n \in Sector
      /\ disk \in [Sector -> Content] /\ data \in [Sector -> Content]
  BY <1>3, <1>7 DEF Sector, DmaInv, AhciType
<1>11. /\ UNCHANGED <<op, pc, hba>> /\ dev'.done = n + 1 /\ dev'.active
  BY <1>3 DEF Transfer, driverVars, DmaInv, AhciType, Engine
<1>12. /\ op.kind = "write" => data' = data
      /\ \A j \in 0..n : disk'[st + j] = data'[j]
  <2>1. CASE op.kind = "write"
    <3>1. disk' = [disk EXCEPT ![st + n] = data[n]] /\ data' = data
      BY <1>6, <2>1 DEF Transfer
    <3>2. ASSUME NEW j \in 0..n PROVE disk'[st + j] = data[j]
      <4>1. CASE j = n
        BY <1>10, <3>1, <4>1
      <4>2. CASE j # n
        <5>1. j \in 0..n - 1 /\ st + j # st + n /\ st + j \in Sector
          BY <1>3, <1>7, <3>2, <4>2 DEF Sector
        <5> QED  BY <1>7, <1>10, <1>8, <3>1, <5>1
      <4> QED  BY <4>1, <4>2
    <3> QED  BY <3>1, <3>2
  <2>2. CASE op.kind # "write"
    <3>1. data' = [data EXCEPT ![n] = disk[st + n]] /\ disk' = disk
      BY <1>6, <2>2 DEF Transfer
    <3>2. ASSUME NEW j \in 0..n PROVE disk[st + j] = data'[j]
      <4>1. CASE j = n
        BY <1>10, <3>1, <4>1
      <4>2. CASE j # n
        <5>1. j \in 0..n - 1 /\ j \in Sector
          BY <1>3, <1>7, <3>2, <4>2 DEF Sector
        <5> QED  BY <1>7, <1>10, <1>8, <3>1, <4>2, <5>1
      <4> QED  BY <4>1, <4>2
    <3> QED  BY <2>2, <3>1, <3>2
  <2> QED  BY <2>1, <2>2
<1>13. hba.ci
  BY DEF DmaInv, Handshake, Transfer
<1>14. dev'.done <= SaidCount(op.count) /\ Moved(dev.done)'
  <2>1. n + 1 <= ct /\ n + 1 - 1 = n
    BY <1>3, <1>7
  <2>2. st = SaidStart(op.start) /\ ct = SaidCount(op.count) /\ op' = op
    BY <1>11 DEF st, ct
  <2>3. 0..dev'.done - 1 = 0..n
    BY <1>3, <1>11
  <2>4. SaidStart(op'.start) = st
    BY <2>2
  <2>5. \A j \in 0..dev'.done - 1 : disk'[SaidStart(op'.start) + j] = data'[j]
    BY <1>12, <2>3, <2>4
  <2>6. dev'.done <= SaidCount(op.count)
    BY <1>11, <2>1, <2>2
  <2> QED  BY <1>9, <2>5, <2>6
<1>15. Calling /\ op.kind = "write" => \A k \in 0..op.count - 1 : data'[k] = DiskSize + k
  BY <1>12 DEF Transferring
<1> QED  BY <1>11, <1>13, <1>14, <1>15 DEF Transferring, Calling, Polling

\* Between calls nothing is being transferred.
LEMMA NotTransferring ==
  ASSUME ~dev'.active, pc' \notin {"spin", "issue", "poll_ci", "poll_is", "fault"}
  PROVE  Transferring'
BY DEF Transferring, Calling, Polling

LEMMA TransferringStep ==
  ASSUME DmaInv, Transferring, [Next]_vars
  PROVE  Transferring'
<1>1. Handshake
  BY DEF DmaInv
<1>2. ASSUME Unstarted, UNCHANGED dev, pc' \in {"probe", "absent", "stopping", "starting", "idle"}
      PROVE  Transferring'
  BY <1>1, <1>2, NotTransferring DEF Handshake
<1>3. ASSUME NEW d, NEW i, NEW g, ProbePort(d, i, g) PROVE Transferring'
  BY <1>2, <1>3 DEF ProbePort, Unstarted
<1>4. CASE ConfigurePort \/ StartPort
  BY <1>2, <1>4 DEF ConfigurePort, StartPort, Unstarted
<1>5. ASSUME pc = "idle", NEW s, NEW n, NEW k, OutOfPages(k, s, n) PROVE Transferring'
  <2>1. ~dev'.active /\ pc' = "idle"
    BY <1>1, <1>5 DEF OutOfPages, Handshake, Polling
  <2> QED  BY <2>1, NotTransferring
<1>6. ASSUME NEW s \in Sector, NEW n \in Counts, ReadVirt(s, n) PROVE Transferring'
  <2> DEFINE run == FirstRun(ReadPages(n))
  <2>1. pc = "idle" /\ s + n <= DiskSize
    BY <1>6 DEF ReadVirt
  <2>2. CASE run = {}
    BY <1>5, <1>6, <2>1, <2>2 DEF ReadVirt
  <2>3. CASE run # {}
    <3>1. /\ Begin("read", s, n, run, ReadMaps(run), [k \in Sector |-> ZERO])
          /\ pc' \in {"spin", "fault"}
      BY <1>6, <2>3 DEF ReadVirt, Touch
    <3>2. [k \in Sector |-> ZERO] \in [Sector -> Content]
      BY DEF Content
    <3> QED  BY <2>1, <3>1, <3>2, BeginTransferring
  <2> QED  BY <2>2, <2>3
<1>7. ASSUME NEW s \in Sector, NEW n \in Counts, WriteVirt(s, n) PROVE Transferring'
  <2> DEFINE run == FirstRun(WritePages(n))
  <2>1. pc = "idle" /\ s + n <= DiskSize
    BY <1>7 DEF WriteVirt
  <2>2. CASE run = {}
    BY <1>5, <1>7, <2>1, <2>2 DEF WriteVirt
  <2>3. CASE run # {}
    <3>1. /\ Begin("write", s, n, run, WriteMaps(run), [k \in Sector |-> DiskSize + k])
          /\ pc' \in {"spin", "fault"}
      BY <1>7, <2>3 DEF WriteVirt, Touch
    <3>2. [k \in Sector |-> DiskSize + k] \in [Sector -> Content]
      BY AhciAssumption DEF Content, Sector
    <3> QED  BY <2>1, <3>1, <3>2, BeginTransferring
  <2> QED  BY <2>2, <2>3
<1>8. ASSUME NEW ok, Return(ok), ~hba.ci \/ dev.halted \/ pc = "spin" PROVE Transferring'
  <2>1. ~dev'.active /\ pc' = "idle"
    BY <1>1, <1>8 DEF Return, Handshake, Polling
  <2> QED  BY <2>1, NotTransferring
<1>9. CASE SpinTimeout
  BY <1>8, <1>9 DEF SpinTimeout
<1>10. CASE PollCi
  <2>1. CASE ~hba.ci
    BY <1>8, <1>10, <2>1 DEF PollCi
  <2>2. CASE hba.ci
    <3>1. pc = "poll_ci" /\ pc' = "poll_is" /\ UNCHANGED <<hba, dev, disk, op, data>>
      BY <1>10, <2>2 DEF PollCi
    <3> QED  BY <3>1 DEF Transferring, Calling, Polling, Moved
  <2> QED  BY <2>1, <2>2
<1>11. CASE PollIs
  <2>1. CASE hba.tfes
    BY <1>1, <1>8, <1>11, <2>1 DEF PollIs, Handshake
  <2>2. CASE ~hba.tfes
    <3>1. pc = "poll_is" /\ pc' = "poll_ci" /\ UNCHANGED <<hba, dev, disk, op, data>>
      BY <1>11, <2>2 DEF PollIs
    <3> QED  BY <3>1 DEF Transferring, Calling, Polling, Moved
  <2> QED  BY <2>1, <2>2
<1>12. CASE Prepare
  <2>1. ~dev.active
    BY <1>1, <1>12 DEF Prepare, Handshake, Polling
  <2> QED  BY <1>12, <2>1 DEF Prepare, Transferring, Calling, Polling
<1>13. CASE Issue
  <2>1. ~dev.active /\ hba'.ci
    BY <1>1, <1>13 DEF Issue, Handshake, Polling, DmaInv, AhciType, Registers
  <2> QED  BY <1>13, <2>1 DEF Issue, Transferring, Calling, Polling
<1>14. CASE EngineFollows
  <2>1. UNCHANGED <<pc, op, disk, data>>
    BY <1>14 DEF EngineFollows, driverVars
  <2>2. CASE hba.st
    <3>1. dev' = dev /\ hba'.ci = hba.ci
      BY <1>14, <2>2 DEF EngineFollows, DmaInv, AhciType, Registers
    <3> QED  BY <2>1, <3>1 DEF Transferring, Calling, Polling, Moved
  <2>3. CASE ~hba.st
    <3>1. ~dev'.active
      BY <1>14, <2>3 DEF EngineFollows, DmaInv, AhciType, Engine
    <3>2. Unstarted
      BY <1>1, <2>3 DEF Handshake
    <3> QED  BY <2>1, <3>1, <3>2, NotTransferring DEF Unstarted
  <2> QED  BY <2>2, <2>3
<1>15. CASE ReceiveFollows
  <2>1. hba'.ci = hba.ci /\ UNCHANGED <<dev, pc, op, disk, data>>
    BY <1>15 DEF ReceiveFollows, driverVars, DmaInv, AhciType, Registers
  <2> QED  BY <2>1 DEF Transferring, Calling, Polling, Moved
<1>16. CASE BecomeReady
  <2>1. hba'.ci = hba.ci /\ UNCHANGED <<dev, pc, op, disk, data>>
    BY <1>16 DEF BecomeReady, driverVars, DmaInv, AhciType, Registers
  <2> QED  BY <2>1 DEF Transferring, Calling, Polling, Moved
<1>17. CASE Fetch
  <2>1. /\ hba.ci /\ hba'.ci /\ dev'.done = 0 /\ UNCHANGED <<pc, op, disk, data>>
    BY <1>17 DEF Fetch, driverVars, DmaInv, AhciType, Registers, Engine
  <2>2. Calling /\ op.start + op.count <= DiskSize
    BY <1>1, <1>17, <2>1 DEF Fetch, Running, Handshake, Polling, Calling, Transferring
  <2>3. SaidCount(op.count) \in Nat
    BY <2>2, SaidOfCall DEF DmaInv
  <2> QED  BY <2>1, <2>3 DEF Transferring, Calling, Moved
<1>18. CASE Transfer
  BY <1>18, TransferStep
<1>19. CASE Complete
  <2>1. /\ dev.active /\ dev.done = cmd.count /\ ~dev'.active /\ UNCHANGED <<pc, op, disk, data>>
    BY <1>19 DEF Complete, driverVars, DmaInv, AhciType, Engine
  <2>2. Polling /\ Calling /\ op.start + op.count <= DiskSize
    BY <1>1, <2>1 DEF Handshake, Polling, Calling, Transferring
  <2>3. cmd.count = Described(op.count) /\ SaidCount(op.count) = Described(op.count)
    BY <2>2, SaidOfCall DEF DmaInv, Commanded, Command
  <2>4. Moved(SaidCount(op.count))
    BY <2>1, <2>3 DEF Transferring
  <2> QED  BY <2>1, <2>4 DEF Transferring, Calling, Moved
<1>20. CASE Fail
  <2>1. /\ hba.ci /\ hba'.ci /\ ~dev'.active /\ UNCHANGED <<pc, op, disk, data>>
    BY <1>1, <1>20 DEF Fail, driverVars, DmaInv, AhciType, Registers, Handshake
  <2> QED  BY <2>1 DEF Transferring, Calling
<1>21. CASE UNCHANGED vars
  BY <1>21 DEF vars, Transferring, Calling, Polling, Moved
<1> QED  BY <1>3, <1>4, <1>6, <1>7, <1>9, <1>10, <1>11, <1>12, <1>13, <1>14, <1>16, <1>17,
            <1>18, <1>19, <1>20, <1>21, <1>15, StartsAre DEF Next, Driver, Work

-----------------------------------------------------------------------------
\* The refinement of BlockDevice.

\* Outside of calls, and as long as a call lasts, BlockDevice sees nothing happen.
LEMMA NoDiskCall == ~(Calling \/ pc = "fault") => diskCall = BlockDev!NoCall
BY DEF diskCall, BlockDev!NoCall

LEMMA StaysQuiet ==
  ASSUME UNCHANGED <<disk, op>>, (Calling \/ pc = "fault")' <=> (Calling \/ pc = "fault")
  PROVE  UNCHANGED BlockDev!deviceVars
BY DEF BlockDev!deviceVars, diskCall, diskAnswer

\* A call that is refused, or fails.
LEMMA RefusedGivesUp ==
  ASSUME disk' = disk, ~op'.ok, pc' = "idle"
  PROVE  BlockDev!GiveUp
<1>1. diskCall' = BlockDev!NoCall
  BY DEF diskCall, Calling, BlockDev!NoCall
<1>2. op'.ok = FALSE => diskAnswer' = BlockDev!NoAnswer
  BY DEF diskAnswer, BlockDev!NoAnswer
<1> QED  BY <1>1, <1>2 DEF BlockDev!GiveUp

\* A call that begins.
LEMMA BeginsCall ==
  ASSUME DmaInv, pc = "idle", NEW start \in Sector, NEW count \in Counts,
         count > 0, start + count <= DiskSize,
         NEW kind \in {"read", "write"}, NEW run, NEW map, NEW content,
         Begin(kind, start, count, run, map, content), pc' \in {"spin", "fault"}
  PROVE  BlockDev!DeviceNext
<1>1. count \in Nat \ {0}
  BY AhciAssumption
<1>2. PICK a \in BlockDev!Sector : a = SaidStart(start)
  BY <1>1, SaidIs DEF Sector, BlockDev!Sector
<1>3. PICK n \in 0..DiskSize : n = SaidCount(count)
  BY <1>1, SaidIs
<1>4. op' = [kind |-> kind, start |-> start, count |-> count, buf |-> First(run),
             ok |-> FALSE, data |-> NoOp.data]
  BY DEF Begin, NoOp
<1>5. op'.kind = kind /\ op'.ok = FALSE /\ op'.start = start /\ op'.count = count
  BY <1>4
<1>6. diskCall = BlockDev!NoCall /\ disk' = disk
  BY NoDiskCall DEF Calling, Begin
<1>7. diskAnswer' = BlockDev!NoAnswer
  BY <1>5 DEF diskAnswer, BlockDev!NoAnswer
<1>8. diskCall' = [kind |-> kind, start |-> a, count |-> n,
                   content |-> IF kind = "read" THEN <<>>
                               ELSE [k \in 0..n - 1 |-> DiskSize + k]]
  BY <1>5, <1>2, <1>3 DEF diskCall, Calling
<1>9. CASE kind = "read"
  <2>1. diskCall' = [kind |-> "read", start |-> a, count |-> n, content |-> <<>>]
    BY <1>8, <1>9
  <2>2. BlockDev!BeginRead(a, n)
    BY <1>6, <1>7, <2>1 DEF BlockDev!BeginRead
  <2> QED  BY <2>2 DEF BlockDev!DeviceNext
<1>10. CASE kind = "write"
  <2>1. diskCall' = [kind |-> "write", start |-> a, count |-> n,
                     content |-> [k \in 0..n - 1 |-> DiskSize + k]]
    BY <1>8, <1>10
  <2>2. [k \in 0..n - 1 |-> DiskSize + k] \in [0..n - 1 -> Content]
    BY AhciAssumption DEF Content
  <2>3. BlockDev!BeginWrite(a, n, diskCall'.content)
    BY <1>6, <1>7, <2>1 DEF BlockDev!BeginWrite
  <2>4. diskCall'.kind = "write" /\ diskCall'.content \in [0..n - 1 -> Content]
    BY <2>1, <2>2
  <2> QED  BY <2>3, <2>4 DEF BlockDev!DeviceNext
<1> QED  BY <1>9, <1>10

\* What BlockDevice sees while a call lasts.
LEMMA DuringCall ==
  ASSUME Calling
  PROVE  /\ diskCall.kind = op.kind /\ diskCall.start = SaidStart(op.start)
         /\ diskCall.count = SaidCount(op.count)
         /\ op.kind # "read" =>
               diskCall.content = [k \in 0..SaidCount(op.count) - 1 |-> DiskSize + k]
BY DEF diskCall

\* A call that returns true.
LEMMA ReturnSucceeds ==
  ASSUME DmaInv, Transferring, Polling, ~hba.ci, Return(TRUE)
  PROVE  BlockDev!Succeed
<1>1. Calling
  BY DEF Polling, Calling
<1> DEFINE st == SaidStart(op.start)
           ct == SaidCount(op.count)
<1>2. op.kind \in {"read", "write"} /\ op.start + op.count <= DiskSize
  BY <1>1 DEF Transferring, DmaInv, AhciType, Calls
<1>3. st \in Sector /\ ct \in 1..op.count /\ st + ct <= DiskSize /\ DiskSize \in Nat
      /\ op.count \in Nat
  BY <1>1, <1>2, SaidOfCall DEF DmaInv
<1>4. /\ op'.ok = TRUE /\ op'.kind = op.kind /\ op'.start = op.start /\ op'.count = op.count
      /\ op'.data = data /\ disk' = disk /\ pc' = "idle"
  BY DEF Return, DmaInv, AhciType, Calls
<1>5. diskCall' = BlockDev!NoCall
  BY <1>4 DEF diskCall, Calling, BlockDev!NoCall
<1>6. st..st + ct - 1 \subseteq BlockDev!Sector
  BY <1>3 DEF Sector, BlockDev!Sector
<1>7. \A j \in 0..ct - 1 : disk[st + j] = data[j]
  BY DEF Transferring, Moved
<1>8. /\ diskCall.kind = op.kind /\ diskCall.start = st /\ diskCall.count = ct
      /\ op.kind # "read" => diskCall.content = [k \in 0..ct - 1 |-> DiskSize + k]
  BY <1>1, DuringCall
<1>9. diskAnswer' = [ok |-> TRUE, data |-> IF op.kind = "read" THEN [k \in 0..ct - 1 |-> data[k]]
                                           ELSE <<>>]
  BY <1>4 DEF diskAnswer
<1>10. op.kind = "write" => \A k \in 0..op.count - 1 : data[k] = DiskSize + k
  BY <1>1 DEF Transferring
<1> HIDE DEF st, ct
<1>11. CASE op.kind = "read"
  <2>1. diskAnswer' = [ok |-> TRUE, data |-> [k \in 0..ct - 1 |-> data[k]]]
    BY <1>9, <1>11
  <2>2. [k \in 0..ct - 1 |-> data[k]] = [k \in 0..ct - 1 |-> disk[st + k]]
    BY <1>7
  <2>3. diskAnswer' = [ok |-> TRUE, data |-> [k \in 0..ct - 1 |-> disk[st + k]]]
    BY <2>1, <2>2
  <2> QED  BY <1>4, <1>5, <1>6, <1>8, <1>11, <2>3 DEF BlockDev!Succeed
<1>12. CASE op.kind = "write"
  <2>1. diskAnswer' = [ok |-> TRUE, data |-> <<>>]
    BY <1>9, <1>12
  <2>2. \A k \in 0..ct - 1 : disk[st + k] = diskCall.content[k]
    <3>1. \A k \in 0..ct - 1 : k \in 0..op.count - 1
      BY <1>3
    <3> QED  BY <1>7, <1>8, <1>10, <1>12, <3>1
  <2> QED  BY <1>4, <1>5, <1>6, <1>8, <1>12, <2>1, <2>2 DEF BlockDev!Succeed
<1> QED  BY <1>2, <1>11, <1>12

\* A sector that is moved: of a write, the next one; of a read, nothing BlockDevice sees.
LEMMA TransferWrites ==
  ASSUME DmaInv, Transferring, Transfer
  PROVE  BlockDev!WriteSector \/ UNCHANGED BlockDev!deviceVars
<1>1. Polling /\ Calling
  BY DEF DmaInv, Handshake, Transfer, Polling, Calling
<1>2. cmd = Command
  BY <1>1 DEF DmaInv, Commanded
<1>3. op.start + op.count <= DiskSize /\ dev.done \in Nat
  BY <1>1 DEF Transferring, DmaInv, AhciType, Engine
<1> DEFINE n == dev.done
           st == SaidStart(op.start)
           ct == SaidCount(op.count)
<1>4. /\ st = FisLba(op.start) /\ ct = Described(op.count)
      /\ st \in Sector /\ ct \in 1..op.count /\ st + ct <= DiskSize /\ op.count \in Nat
      /\ DiskSize \in Nat
  BY <1>1, <1>3, SaidOfCall DEF DmaInv
<1>5. /\ cmd.count = ct /\ cmd.lba = st /\ cmd.write = (op.kind = "write")
  BY <1>2, <1>4 DEF Command
<1>6. UNCHANGED <<op, pc>>
  BY DEF Transfer, driverVars
<1>7. CASE op.kind = "write"
  <2>1. /\ diskCall.kind = "write" /\ diskCall.start = st /\ diskCall.count = ct
        /\ diskCall.content = [k \in 0..ct - 1 |-> DiskSize + k]
    BY <1>1, <1>7, DuringCall
  <2>2. \A k \in 0..op.count - 1 : data[k] = DiskSize + k
    BY <1>1, <1>7 DEF Transferring
  <2>3. \A j \in 0..n - 1 : disk[st + j] = data[j]
    BY DEF Transferring, Transfer, Moved
  <2>4. n < ct /\ disk' = [disk EXCEPT ![st + n] = data[n]]
    BY <1>5, <1>7 DEF Transfer
  <2>5. UNCHANGED <<diskCall, diskAnswer>>
    BY <1>6 DEF diskCall, diskAnswer, Calling
  <2> HIDE DEF st, ct, n
  <2>6. n \in 0..ct - 1 /\ st + n \in BlockDev!Sector
    BY <1>3, <1>4, <2>4 DEF Sector, BlockDev!Sector, n
  <2>7. \A k \in 0..ct - 1 : data[k] = diskCall.content[k]
    <3>1. \A k \in 0..ct - 1 : k \in 0..op.count - 1
      BY <1>4
    <3> QED  BY <2>1, <2>2, <3>1
  <2>8. \A j \in 0..n - 1 : disk[st + j] = diskCall.content[j]
    <3>1. \A j \in 0..n - 1 : j \in 0..ct - 1
      BY <1>4, <2>6
    <3> QED  BY <2>3, <2>7, <3>1
  <2>9. disk' = [disk EXCEPT ![st + n] = diskCall.content[n]]
    BY <2>4, <2>6, <2>7
  <2>10. \E k \in 0..ct - 1 :
            /\ st + k \in BlockDev!Sector
            /\ \A j \in 0..k - 1 : disk[st + j] = diskCall.content[j]
            /\ disk' = [disk EXCEPT ![st + k] = diskCall.content[k]]
    BY <2>6, <2>8, <2>9, Zenon
  <2> QED  BY <2>1, <2>5, <2>10 DEF BlockDev!WriteSector
<1>8. CASE op.kind # "write"
  <2>1. disk' = disk
    BY <1>5, <1>8 DEF Transfer
  <2> QED  BY <1>6, <2>1, StaysQuiet DEF Calling
<1> QED  BY <1>7, <1>8

LEMMA StepImplementsDisk ==
  ASSUME DmaInv, Transferring, [Next]_vars
  PROVE  [BlockDev!DeviceNext]_(BlockDev!deviceVars)
<1>1. ASSUME BlockDev!Device PROVE BlockDev!DeviceNext
  BY <1>1 DEF BlockDev!DeviceNext
<1>2. ASSUME NEW d, NEW i, NEW g, ProbePort(d, i, g)
      PROVE  UNCHANGED BlockDev!deviceVars
  BY <1>2, StaysQuiet DEF ProbePort, Calling
<1>3. ASSUME ConfigurePort \/ StartPort \/ Prepare \/ Issue
      PROVE  UNCHANGED BlockDev!deviceVars
  BY <1>3, StaysQuiet DEF ConfigurePort, StartPort, Prepare, Issue, Calling
<1>4. ASSUME pc = "idle", NEW s, NEW n, NEW k, OutOfPages(k, s, n)
      PROVE  BlockDev!DeviceNext
  <2>1. op' = [kind |-> k, start |-> s, count |-> n, buf |-> NULL, ok |-> FALSE,
               data |-> NoOp.data]
    BY <1>4 DEF OutOfPages, NoOp
  <2>2. op'.ok = FALSE
    BY <2>1
  <2>3. disk' = disk /\ ~op'.ok /\ pc' = "idle"
    BY <1>4, <2>2 DEF OutOfPages
  <2> QED  BY <1>1, <2>3, RefusedGivesUp DEF BlockDev!Device
<1>5. ASSUME NEW s \in Sector, NEW n \in Counts, ReadVirt(s, n) PROVE BlockDev!DeviceNext
  <2> DEFINE run == FirstRun(ReadPages(n))
  <2>1. CASE run = {}
    BY <1>4, <1>5, <2>1 DEF ReadVirt
  <2>2. CASE run # {}
    <3>1. /\ Begin("read", s, n, run, ReadMaps(run), [k \in Sector |-> ZERO])
          /\ pc = "idle" /\ pc' \in {"spin", "fault"} /\ s + n <= DiskSize
      BY <1>5, <2>2 DEF ReadVirt, Touch
    <3>2. n \in Nat /\ n # 0
      BY <2>2, NoneIsNone, AhciAssumption
    <3>3. n > 0
      BY <3>2
    <3> QED  BY <3>1, <3>3, BeginsCall
  <2> QED  BY <2>1, <2>2
<1>6. ASSUME NEW s \in Sector, NEW n \in Counts, WriteVirt(s, n) PROVE BlockDev!DeviceNext
  <2> DEFINE run == FirstRun(WritePages(n))
  <2>1. CASE run = {}
    BY <1>4, <1>6, <2>1 DEF WriteVirt
  <2>2. CASE run # {}
    <3>1. /\ Begin("write", s, n, run, WriteMaps(run), [k \in Sector |-> DiskSize + k])
          /\ pc = "idle" /\ pc' \in {"spin", "fault"} /\ s + n <= DiskSize
      BY <1>6, <2>2 DEF WriteVirt, Touch
    <3>2. n \in Nat /\ n # 0
      BY <2>2, NoneIsNone, AhciAssumption
    <3>3. n > 0
      BY <3>2
    <3> QED  BY <3>1, <3>3, BeginsCall
  <2> QED  BY <2>1, <2>2
<1>7. ASSUME Calling, Return(FALSE) PROVE BlockDev!DeviceNext
  <2>1. disk' = disk /\ ~op'.ok /\ pc' = "idle"
    BY <1>7 DEF Return, DmaInv, AhciType, Calls
  <2> QED  BY <1>1, <2>1, RefusedGivesUp DEF BlockDev!Device
<1>8. CASE SpinTimeout
  BY <1>7, <1>8 DEF SpinTimeout, Calling
<1>9. CASE PollCi
  <2>1. CASE ~hba.ci
    BY <1>1, <1>9, <2>1, ReturnSucceeds DEF PollCi, Polling, BlockDev!Device
  <2>2. CASE hba.ci
    BY <1>9, <2>2, StaysQuiet DEF PollCi, Calling
  <2> QED  BY <2>1, <2>2
<1>10. CASE PollIs
  <2>1. CASE hba.tfes
    BY <1>7, <1>10, <2>1 DEF PollIs, Calling
  <2>2. CASE ~hba.tfes
    BY <1>10, <2>2, StaysQuiet DEF PollIs, Calling
  <2> QED  BY <2>1, <2>2
<1>11. ASSUME EngineFollows \/ ReceiveFollows \/ BecomeReady \/ Fetch \/ Complete \/ Fail
       PROVE  UNCHANGED BlockDev!deviceVars
  BY <1>11, StaysQuiet DEF EngineFollows, ReceiveFollows, BecomeReady, Fetch, Complete, Fail,
                            driverVars, Calling
<1>12. CASE Transfer
  BY <1>1, <1>12, TransferWrites DEF BlockDev!Device
<1>13. CASE UNCHANGED vars
  BY <1>13, StaysQuiet DEF vars, Calling
<1> QED  BY <1>2, <1>3, <1>5, <1>6, <1>8, <1>9, <1>10, <1>11, <1>12, <1>13,
            StartsAre
         DEF Next, Driver, Work

\* Driver and controller implement BlockDevice: a read that returned true read each sector it
\* was for, a write that returned true wrote each, one that did not the first few, and nothing
\* else changes the disk; whatever fails, whatever is refused and however the polling goes.
\* What a call is for is what was asked, if three bytes can name the first sector and a PRDT
\* entry describe them all; otherwise it is what the command
\* names (CommandNames).
THEOREM DriverImplementsDisk == Spec => ImplementsDisk
<1>1. Init => BlockDev!DeviceInit
  <2> SUFFICES ASSUME Init PROVE BlockDev!DeviceInit
    OBVIOUS
  <2>1. pc = "probe" /\ op = NoOp
    BY DEF Init
  <2>2. diskCall = BlockDev!NoCall
    BY <2>1, NoDiskCall DEF Calling
  <2>3. diskAnswer = BlockDev!NoAnswer
    BY <2>1 DEF diskAnswer, NoOp, BlockDev!NoAnswer
  <2>4. disk \in [BlockDev!Sector -> Content]
    BY InitHandshake DEF AhciType, Sector, BlockDev!Sector
  <2> QED  BY <2>2, <2>3, <2>4 DEF BlockDev!DeviceInit
<1>2. Init => Transferring
  BY InitHandshake DEF Init, Transferring, Handshake, Unstarted, Calling, Polling
<1>3. DmaInv /\ Transferring /\ [Next]_vars => Transferring'
  BY TransferringStep
<1>4. DmaInv /\ Transferring /\ [Next]_vars => [BlockDev!DeviceNext]_(BlockDev!deviceVars)
  BY StepImplementsDisk
<1> QED  BY <1>1, <1>2, <1>3, <1>4, DmaInvInductive, PTL
         DEF Spec, ImplementsDisk, BlockDev!DeviceSpec
=============================================================================
