----------------------------- MODULE Sequential -----------------------------
(***************************************************************************)
(* The programs and libraries without threads, checked in one run: the      *)
(* machines, and the data structures.                                       *)
(***************************************************************************)
EXTENDS MachinePrograms, DataStructures

CONSTANTS digits, longest   \* operands of single instructions; the steps followed

\* A number of an operand has four bits.
ASSUME DigitsAssumption == digits \subseteq 0 .. 15

machine == <<program, machines>>
everything == <<machine, data>>

NoMachine == program = <<>> /\ sm = <<>> /\ jt = <<>> /\ cpu6 = <<>> /\ cpu2 = <<>> /\ rest = 0

SuiteInit ==
  /\ DataInit
  /\ IF subject = "machine" THEN MachineInit(digits, longest) ELSE NoMachine

\* A machine runs its program.
RunMachine ==
  /\ subject = "machine" /\ Next
  /\ UNCHANGED <<program, data>>

\* A data structure takes its step.
UseData == DataNext /\ UNCHANGED machine

SuiteNext == RunMachine \/ UseData

SuiteSpec == SuiteInit /\ [][SuiteNext]_everything

\* The lists have no order.
Symmetric == Permutations(Lists)
-----------------------------------------------------------------------------
Machine(property) == subject = "machine" => property

\* sm.c, sm-jt.c and the two CPU.java: tables do what the switch does, C and Java agree wherever
\* both are defined, and the CPU of a2 is that of a6 with fewer instructions.
MachinesAgree == Machine(JumpTablesRight /\ JavaAgrees /\ EarlierCPU)

\* The machines compute: max.s finds its maximum, a2-test.s has the results of its comments, and
\* the bytes of a word are put together as they were taken apart, in either order.
ResultsRight == Machine(MaxFound /\ TestsPass /\ WordsKept)
=============================================================================
