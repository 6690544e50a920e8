--------------------------- MODULE MachinePrograms ---------------------------
(***************************************************************************)
(* What the simple machines are given to run: max.s and a2-test.s of a8/q3, *)
(* assembled, and single instructions.                                      *)
(***************************************************************************)
EXTENDS SM213

VARIABLE program   \* which of them is run, and the address where a test starts

\* A line of a .machine file, of 16 bit numbers.
Line(addr, numbers) ==
  <<addr, [k \in 1 .. 2 * Len(numbers) |->
             IF k % 2 = 1 THEN numbers[(k + 1) \div 2] \div 256 ELSE numbers[k \div 2] % 256]>>

max_s == <<
  Line(\h1000, <<0, 0, 0, \h0100, \hffff, \hfff6, \h0200, 0, \h2000, \h1023, \h0400, 0, \h2008,
                 \h6005, \h6115, \h9509, \h2405, \h6057, \h6707, \h6307, \h6137, \ha701, \h6053,
                 \h6300, \h80f4, \h3302, \h0100, 0, \h2004, \h3001, \hf000>>),
  Line(\h2000, <<\hffff, \hffff, 0, 0, 0, 2, 0, \h28, 0, 6, 0, \h50, 0, \ha, 0, \h78, 0, \he,
                 0, \h10, 0, \h12, 0, \h14>>)>>

a2_test_s == <<
  Line(\h1000, <<\h0100, 0, \h2000, \h0200, 0, 0, \h0300, 0, 1, \h2124, \h2135, \hf000>>),
  Line(\h1100, <<\h0100, 0, \h2000, \h0200, 0, 0, \h0300, 0, 3, \h0400, 0, 1, \h4312, \h4414, \hf000>>),
  Line(\h1200, <<\h0100, 0, 1, \h6012, \hf000>>),
  Line(\h1300, <<\h0100, 0, 1, \h0200, 0, 2, \h6112, \hf000>>),
  Line(\h1400, <<\h0100, 0, 10, \h0200, 0, 6, \h6212, \hf000>>),
  Line(\h1500, <<\h0100, 0, 1, \h6301, \hf000>>),
  Line(\h1600, <<\h0100, 0, 1, \h6401, \hf000>>),
  Line(\h1700, <<\h0100, 0, 2, \h6501, \hf000>>),
  Line(\h1800, <<\h0100, 0, 5, \h6601, \hf000>>),
  Line(\h1900, <<\h0100, \hffff, 0, \h6701, \hf000>>),
  Line(\h1a00, <<\h0100, \h1234, \h5678, \h7111, \hf000>>),
  Line(\h2000, <<0, 1, 0, 2>>)>>

\* The comments of a2-test.s: where each test starts, and its results, in registers or in the
\* memory.
Results ==
  {<<\h1000, {<<"reg", 4, <<0, 1>>>>, <<"reg", 5, <<0, 2>>>>}>>,
   <<\h1100, {<<"mem", \h2000, <<0, 3>>>>, <<"mem", \h2004, <<0, 1>>>>}>>,
   <<\h1200, {<<"reg", 2, <<0, 1>>>>}>>, <<\h1300, {<<"reg", 2, <<0, 3>>>>}>>,
   <<\h1400, {<<"reg", 2, <<0, 2>>>>}>>, <<\h1500, {<<"reg", 1, <<0, 2>>>>}>>,
   <<\h1600, {<<"reg", 1, <<0, 5>>>>}>>, <<\h1700, {<<"reg", 1, <<0, 1>>>>}>>,
   <<\h1800, {<<"reg", 1, <<0, 1>>>>}>>, <<\h1900, {<<"reg", 1, <<0, \hffff>>>>}>>,
   <<\h1a00, {<<"reg", 1, <<\hacf0, 0>>>>}>>}

\* A C program's registers are 0; so are those of the Java machines when they are made.
NoReg == [r \in Register |-> Zero]

\* The registers before a single instruction: small numbers and addresses; the edges of the words.
SomeReg == {[r \in Register |-> <<<<0, 0>>, <<0, 1>>, <<0, \h2000>>, <<0, 4>>, <<\hffff, \hfffc>>,
                                  <<0, \h1006>>, <<\h7fff, \hffff>>, <<\h8000, 0>>>>[r + 1]],
            [r \in Register |-> <<<<\hffff, \hffff>>, <<0, \h2001>>, <<0, \h0800>>, <<\h4000, 0>>,
                                  <<0, \h9c3c>>, <<0, \h9c40>>, <<0, 2>>, <<0, \h3c>>>>[r + 1]]}

\* An instruction at 0x1000, with a halt behind it, and one where short branches lead to.
Single(op, op0, op1, op2) ==
  LET first == 4096 * op + 256 * op0 + 16 * op1 + op2
  IN <<Line(\h1000, IF op \in {0, 11} THEN <<first, \h8000, \h1002, \hf000>> ELSE <<first, \hf000, \hf100>>),
       Line(\h2000, <<\h0001, \h8002, \hfffe, \h1234>>)>>

\* The numbers of operands, and how many steps are followed.
MachineInit(digits, longest) ==
  \/ program = <<"max", 0>> /\ Init(max_s, -1, NoReg, longest)
  \/ \E test \in Results : program = <<"test", test[1]>> /\ Init(a2_test_s, test[1], NoReg, longest)
  \/ program = <<"single", 0>> /\
       \E op \in 0 .. 15, op0 \in 0 .. 15, op1, op2 \in digits, reg \in SomeReg :
         Init(Single(op, op0, op1, op2), -1, reg, 2)
-----------------------------------------------------------------------------
Holds(m, result) ==
  result[3] = IF result[1] = "reg" THEN m.reg[result[2]] ELSE bytesToInteger(Bytes(m, <<0, result[2]>>, 4))

\* max.s comes to its end with the maximum found and all of its array seen, but for the CPU of a2,
\* that has no branches.
MaxFound ==
  program[1] = "max" => \A m \in {sm, jt, cpu6} :
    /\ m.run = "halted" \/ (m.run = "running" /\ rest > 0)
    /\ m.run = "halted" =>
         Holds(m, <<"mem", \h2000, <<0, \h78>>>>) /\ Holds(m, <<"mem", \h2004, <<0, 10>>>>)

\* The tests of a2-test.s end with the results that its comments give, on every machine.
TestsPass ==
  program[1] = "test" => \A m \in {sm, jt, cpu6, cpu2} :
    /\ m.run \in {"running", "halted"}
    /\ m.run = "halted" =>
         \A test \in Results : test[1] = program[2] => \A result \in test[2] : Holds(m, result)
=============================================================================
