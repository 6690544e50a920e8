------------------------------- MODULE SM213 -------------------------------
(***************************************************************************)
(* The Simple Machine, four times over: sm.c with a switch, sm-jt.c with    *)
(* jump tables, and the CPUs of a6 and of a2 in Java.  The machines run the  *)
(* same program in step, each on its own registers and memory.              *)
(*                                                                         *)
(* A machine is a record.  Its memory holds the bytes that were loaded or   *)
(* stored, all others are 0.  It is "undefined" once C has left its arrays, *)
(* "thrown" once Java has thrown an exception.                              *)
(***************************************************************************)
EXTENDS Word, SequencesExt

CONSTANT MemSize   \* of mem, in bytes: less than 2^16

VARIABLES
  sm, jt,        \* the C machines
  cpu6, cpu2,    \* the Java machines
  rest           \* how many more instructions are followed

machines == <<sm, jt, cpu6, cpu2, rest>>

Register == 0 .. 7

\* loadFile: each line has an address and bytes; if no -p has set the pc, which is then negative,
\* it becomes the address of the first line.
loadFile(lines, start, reg) ==
  LET Covered(n) == lines[n][1] .. lines[n][1] + Len(lines[n][2]) - 1
      last(a) == CHOOSE n \in DOMAIN lines :
                   a \in Covered(n) /\ \A m \in DOMAIN lines : m > n => a \notin Covered(m)
  IN
  [reg |-> reg,
   mem |-> [a \in UNION {Covered(n) : n \in DOMAIN lines} |-> lines[last(a)][2][a - lines[last(a)][1] + 1]],
   pc |-> WordOf(IF start < 0 THEN lines[1][1] ELSE start),
   run |-> "running", own |-> FALSE]

Init(lines, start, reg, limit) ==
  /\ sm = loadFile(lines, start, reg)
  /\ jt = sm /\ cpu6 = sm /\ cpu2 = sm
  /\ rest = limit

Inside(a, length) == a[1] = 0 /\ a[2] + length =< MemSize
Bytes(m, a, length) ==
  [k \in 1 .. length |-> LET b == a[2] + k - 1 IN IF b \in DOMAIN m.mem THEN m.mem[b] ELSE 0]

Stop(m, why) == [m EXCEPT !.run = why]
SetReg(m, r, w) == [m EXCEPT !.reg[r] = w]
-----------------------------------------------------------------------------
\* fetch, of an instruction that is inside the memory.
Length(m) == IF Bytes(m, m.pc, 1)[1] \div 16 \in {0, 11} THEN 6 ELSE 2

Decode(m) ==
  LET b == Bytes(m, m.pc, 6) IN
    [op |-> b[1] \div 16, op0 |-> b[1] % 16, op1 |-> b[2] \div 16, op2 |-> b[2] % 16,
     imm |-> IF b[2] > 127 THEN b[2] - 256 ELSE b[2],
     ext |-> bytesToInteger(SubSeq(b, 3, 6))]

Advance(m) == [m EXCEPT !.pc = Add(@, WordOf(Length(m)))]

CanFetch(m) == Inside(m.pc, 2) /\ Inside(m.pc, Length(m))

\* Mistake: it is the base that is scaled.
Address_Base(label, i, m) ==
  CASE label = "L1" -> Add(WordOf(4 * i.op0), m.reg[i.op1])
    [] label = "L2" -> Add(m.reg[i.op1], ShiftLeft(m.reg[i.op0], 2))
    [] label = "L3" -> Add(WordOf(4 * i.op1), m.reg[i.op2])
    [] label = "L4" -> Add(m.reg[i.op2], ShiftLeft(m.reg[i.op1], 2))

\* The address of a load or a store.
Address(label, i, m) ==
  CASE label = "L1" -> Add(WordOf(4 * i.op0), m.reg[i.op1])
    [] label = "L2" -> Add(m.reg[i.op0], ShiftLeft(m.reg[i.op1], 2))
    [] label = "L3" -> Add(WordOf(4 * i.op1), m.reg[i.op2])
    [] label = "L4" -> Add(m.reg[i.op1], ShiftLeft(m.reg[i.op2], 2))

\* The registers that an instruction names.
Named(label, i) ==
  CASE label \in {"L0", "L7", "L9", "La", "Lc"} -> {i.op0}
    [] label \in {"L1", "A0", "A1", "A2"} -> {i.op1, i.op2}
    [] label \in {"L2", "L4"} -> {i.op0, i.op1, i.op2}
    [] label = "L3" -> {i.op0, i.op2}
    [] label \in {"A3", "A4", "A5", "A6", "A7", "Af"} -> {i.op2}
    [] OTHER -> {}

Branch(m, i) == [m EXCEPT !.pc = Add(@, WordOf(2 * i.imm))]

\* What the instructions do that are the same in all machines.
Effect(label, i, m) ==
  LET S == m.reg[i.op1]  D == m.reg[i.op2]  R == m.reg[i.op0] IN
  CASE label = "L0" -> SetReg(m, i.op0, i.ext)
    [] label \in {"L1", "L2"} -> SetReg(m, i.op2, bytesToInteger(Bytes(m, Address(label, i, m), 4)))
    [] label \in {"L3", "L4"} ->
         LET a == Address(label, i, m)[2] IN
           [m EXCEPT !.mem = [b \in DOMAIN @ \cup a .. a + 3 |->
                                IF b \in a .. a + 3 THEN integerToBytes(R)[b - a + 1] ELSE @[b]]]
    [] label = "A0" -> SetReg(m, i.op2, S)
    [] label = "A1" -> SetReg(m, i.op2, Add(S, D))
    [] label = "A2" -> SetReg(m, i.op2, AndWord(S, D))
    [] label = "A3" -> SetReg(m, i.op2, Add(D, WordOf(1)))
    [] label = "A4" -> SetReg(m, i.op2, Add(D, WordOf(4)))
    [] label = "A5" -> SetReg(m, i.op2, Add(D, WordOf(-1)))
    [] label = "A6" -> SetReg(m, i.op2, Add(D, WordOf(-4)))
    [] label = "A7" -> SetReg(m, i.op2, Complement(D))
    [] label = "Af" -> SetReg(m, i.op2, Add(m.pc, WordOf(2 * i.op1)))
    [] label = "L7" -> SetReg(m, i.op0, IF i.imm > 0 THEN ShiftLeft(R, i.imm) ELSE ShiftRight(R, -i.imm))
    [] label = "L8" -> Branch(m, i)
    [] label = "L9" -> IF R = Zero THEN Branch(m, i) ELSE m
    [] label = "La" -> IF Positive(R) THEN Branch(m, i) ELSE m
    [] label = "Lb" -> [m EXCEPT !.pc = i.ext]

\* The instructions that load or store.
Accesses(label) == label \in {"L1", "L2", "L3", "L4"}
-----------------------------------------------------------------------------
\* The cases of the switch in sm.c and in a6, and of the one inside it for the ALU.
Cases ==
  [op \in (0 .. 4) \cup (6 .. 12) \cup {15} |->
    <<"L0", "L1", "L2", "L3", "L4", "L5", "L6", "L7", "L8", "L9", "La", "Lb", "Lc", "Ld", "Le", "Lf">>[op + 1]]
AluCases ==
  [fun \in (0 .. 7) \cup {15} |->
    IF fun = 15 THEN "Af" ELSE <<"A0", "A1", "A2", "A3", "A4", "A5", "A6", "A7">>[fun + 1]]

Switch(i, cases, alu) ==
  IF i.op = 6 THEN IF i.op0 \in DOMAIN alu THEN alu[i.op0] ELSE "default"
  ELSE IF i.op \in DOMAIN cases THEN cases[i.op] ELSE "default"

\* Mistake: the test does not keep the empty entries of the table out.
JumpTable_Unguarded(i) ==
  LET jt1 == <<"L0", "L1", "L2", "L3", "L4", "null", "L6", "L7", "L8", "L9", "La", "Lb", "Lc", "null", "null", "Lf">>
      jt2 == [fun \in 0 .. 15 |-> IF fun \in DOMAIN AluCases THEN AluCases[fun] ELSE "null"]
  IN IF i.op = 6 THEN IF i.op0 < 9 \/ i.op0 = 15 THEN jt2[i.op0] ELSE "default"
     ELSE IF i.op \in {5, 13, 14} THEN "default" ELSE jt1[i.op + 1]

\* The tables of sm-jt.c, where null is a null pointer, and the tests that come before them.
JumpTable(i) ==
  LET jt1 == <<"L0", "L1", "L2", "L3", "L4", "null", "L6", "L7", "L8", "L9", "La", "Lb", "Lc", "null", "null", "Lf">>
      jt2 == [fun \in 0 .. 15 |-> IF fun \in DOMAIN AluCases THEN AluCases[fun] ELSE "null"]
  IN IF i.op = 6 THEN IF i.op0 < 8 \/ i.op0 = 15 THEN jt2[i.op0] ELSE "default"
     ELSE IF i.op \in {5, 13, 14} THEN "default" ELSE jt1[i.op + 1]

\* sys, where the standard input is at its end, the standard outputs take all, no other file is
\* open, and SIMPLE_MACHINE_ALLOW_EXEC is not set.
Sys(i, m) ==
  LET fd == m.reg[0]
      call == [m EXCEPT !.own = TRUE]
  IN CASE i.imm = 0 -> SetReg(call, 0, IF fd = Zero /\ ~Negative(m.reg[2]) THEN Zero ELSE WordOf(-1))
       [] i.imm = 1 -> SetReg(call, 0, IF fd \in {WordOf(1), WordOf(2)} /\ ~Negative(m.reg[2])
                                         THEN m.reg[2] ELSE WordOf(-1))
       [] OTHER -> call

\* j o(rr) in C: the offset is a char that becomes an unsigned short.
JumpTo(i, m) ==
  [m EXCEPT !.pc = Add(WordOf(2 * (i.imm % Half)), m.reg[i.op0]), !.own = @ \/ i.imm < 0]

\* exec in C: an illegal instruction is reported and passed over.
exec(label, i, m) ==
  CASE label = "null" -> Stop(m, "undefined")
    [] label = "default" -> m
    [] label = "Lf" -> IF i.op0 = 0 THEN Stop(m, "halted") ELSE IF i.op0 = 1 THEN Sys(i, m) ELSE m
    [] OTHER ->
         IF ~(Named(label, i) \subseteq Register) THEN Stop(m, "undefined")
         ELSE IF Accesses(label) /\ ~Inside(Address(label, i, m), 4) THEN Stop(m, "undefined")
         ELSE IF label = "Lc" THEN JumpTo(i, m) ELSE Effect(label, i, m)

JavaJumpTo(i, m) == [m EXCEPT !.pc = Add(m.reg[i.op0], WordOf(2 * (i.imm % 256)))]

\* execute in Java: what is illegal, or out of the memory, or not aligned, throws an exception.
execute(label, i, m) ==
  CASE label = "default" -> Stop(m, "thrown")
    [] label = "Lf" -> IF i.op0 = 0 THEN Stop(m, "halted") ELSE m
    [] OTHER ->
         IF ~(Named(label, i) \subseteq Register) THEN Stop(m, "thrown")
         ELSE IF Accesses(label) /\ (~Inside(Address(label, i, m), 4) \/ Address(label, i, m)[2] % 4 # 0)
           THEN Stop(m, "thrown")
         ELSE IF label = "Lc" THEN JavaJumpTo(i, m) ELSE Effect(label, i, m)

\* One round of compute of machine m, which is executed if its instruction can be fetched.
Run(m, executed, bad) ==
  IF m.run # "running" THEN m ELSE IF CanFetch(m) THEN executed ELSE Stop(m, bad)

SwitchExec(m) == exec(Switch(Decode(m), Cases, AluCases), Decode(m), Advance(m))
JumpExec(m) == exec(JumpTable(Decode(m)), Decode(m), Advance(m))
Execute6(m) == execute(Switch(Decode(m), Cases, AluCases), Decode(m), Advance(m))

\* The CPU of a2 has neither jumps nor branches nor gpc.
Cases2 == [op \in (0 .. 4) \cup {7, 15} |-> Cases[op]]

AluCases2 == [fun \in 0 .. 7 |-> AluCases[fun]]

Execute2(m) == execute(Switch(Decode(m), Cases2, AluCases2), Decode(m), Advance(m))

Next ==
  /\ rest > 0 /\ \E m \in {sm, jt, cpu6, cpu2} : m.run = "running"
  /\ rest' = rest - 1
  /\ sm' = Run(sm, SwitchExec(sm), "undefined")
  /\ jt' = Run(jt, JumpExec(jt), "undefined")
  /\ cpu6' = Run(cpu6, Execute6(cpu6), "thrown")
  /\ cpu2' = Run(cpu2, Execute2(cpu2), "thrown")
-----------------------------------------------------------------------------
\* sm-jt.c does what sm.c does, and never jumps through an empty entry of its tables.
JumpTablesRight == jt = sm

\* While neither has left what it defines, C and Java agree on registers, memory and pc, and on
\* when to halt.  The exceptions are the C machine's own: sys, which Java takes for a nop, and a
\* jump with an offset of 0x80 or more, where C extends the sign of the byte before it makes it
\* unsigned.
JavaAgrees ==
  cpu6.run # "thrown" /\ sm.run # "undefined" /\ ~sm.own => cpu6 = sm

\* What the CPU of a2 does, that of a6 does too.
EarlierCPU == cpu2.run # "thrown" => cpu2 = cpu6

\* A word that is stored byte by byte is the word that is read back, in the order of Java's
\* memory and of Endianness.java.
WordsKept ==
  \A r \in Register : LET w == cpu6.reg[r]  b == integerToBytes(w) IN
    bytesToInteger(b) = w /\ bigEndianValue(b) = w /\ littleEndianValue(Reverse(b)) = w
=============================================================================
