------------------------ MODULE VerilatorSims_proofs ------------------------
(***************************************************************************)
(* The two Verilator simulations: the program and the debug program that    *)
(* the test bench of RI5CY has its core run (DebugHart), and the reset that *)
(* the simulation of Ibex drives (VerilatorSimCtrl).  They share nothing    *)
(* but this module.                                                         *)
(*                                                                         *)
(* DebugHart.  What the hart decodes at an address follows from how the     *)
(* memory was written; then each of the debug program's instructions, and   *)
(* each part of the program's, is a lemma of its own, which says where it   *)
(* leads and what it leaves behind.  The invariant HartInv says where the   *)
(* hart can be and what it holds there.                                     *)
(***************************************************************************)
EXTENDS DebugHart, VerilatorSimCtrl, TLAPS

-----------------------------------------------------------------------------
(***************************************************************************)
(* What lies where in the memory.                                           *)
(***************************************************************************)
LEMMA CodeIs ==
    ASSUME NEW first \in Nat, NEW list, DOMAIN list \subseteq Nat, NEW i \in DOMAIN list
    PROVE  /\ first + 4 * (i - 1) \in DOMAIN Code(first, list)
           /\ Code(first, list)[first + 4 * (i - 1)] = list[i]
<1> DEFINE a == first + 4 * (i - 1)
<1>1. ((a - first) \div 4) + 1 = i
  OBVIOUS
<1>2. a \in {first + 4 * (j - 1) : j \in DOMAIN list}
  OBVIOUS
<1> HIDE DEF a
<1>3. a \in DOMAIN Code(first, list) /\ Code(first, list)[a] = list[((a - first) \div 4) + 1]
  BY <1>2 DEF Code
<1> QED BY <1>1, <1>3 DEF a

LEMMA CodeRange ==
    ASSUME NEW first \in Nat, NEW n \in Nat, NEW list, DOMAIN list = 1..n
    PROVE  \A a \in DOMAIN Code(first, list) : first <= a /\ a < first + 4 * n /\ a \in Nat
<1>1. DOMAIN Code(first, list) = {first + 4 * (i - 1) : i \in 1..n}
  BY DEF Code
<1> QED BY <1>1

LEMMA OverIs ==
    ASSUME NEW f, NEW g, NEW a
    PROVE  /\ a \in DOMAIN Over(f, g) <=> a \in DOMAIN f \/ a \in DOMAIN g
           /\ a \in DOMAIN f => Over(f, g)[a] = f[a]
           /\ a \notin DOMAIN f /\ a \in DOMAIN g => Over(f, g)[a] = g[a]
BY DEF Over

LEMMA Lists ==
    /\ DOMAIN Stores = 1..3 * RepeatFactor
    /\ DOMAIN AllOnes = 1..31
    /\ DOMAIN ExitArguments = 1..4
    /\ DOMAIN Exit = 1..5
BY ProgramAssumption DEF Stores, AllOnes, ExitArguments, Exit, Op, Addi

\* The addresses of the program's parts, one behind the other.
LEMMA Addresses ==
    /\ RepeatFactor \in Nat \ {0}
    /\ AtOnes = 128 + 12 * RepeatFactor
    /\ AtExitArguments = AtOnes + 124
    /\ AtStores = AtExitArguments + 16
    /\ AtExit = AtStores + 12 * RepeatFactor
    /\ AtExit + 20 <= 67584
    /\ StartProgram = 128 /\ AtOnes \in Nat /\ AtExitArguments \in Nat
    /\ AtStores \in Nat /\ AtExit \in Nat
BY ProgramAssumption
   DEF AtOnes, AtExitArguments, AtStores, AtExit, StartProgram, AsInstantiated

LEMMA ProgramCode ==
    /\ \A k \in 0..(3 * RepeatFactor - 1) :
          /\ StartProgram + 4 * k \in DOMAIN Program
          /\ Program[StartProgram + 4 * k] = Stores[k + 1]
    /\ \A k \in 0..30 : /\ AtOnes + 4 * k \in DOMAIN Program
                        /\ Program[AtOnes + 4 * k] = AllOnes[k + 1]
    /\ \A k \in 0..3 : /\ AtExitArguments + 4 * k \in DOMAIN Program
                       /\ Program[AtExitArguments + 4 * k] = ExitArguments[k + 1]
    /\ \A k \in 0..(3 * RepeatFactor - 1) :
          /\ AtStores + 4 * k \in DOMAIN Program
          /\ Program[AtStores + 4 * k] = Stores[k + 1]
    /\ \A k \in 0..4 : /\ AtExit + 4 * k \in DOMAIN Program
                       /\ Program[AtExit + 4 * k] = Exit[k + 1]
    /\ \A a \in DOMAIN Program : a \in Nat /\ 128 <= a /\ a < 67584
<1> DEFINE E == Code(AtExit, Exit)
           S == Code(AtStores, Stores)
           A == Code(AtExitArguments, ExitArguments)
           O == Code(AtOnes, AllOnes)
           P == Code(StartProgram, Stores)
           n == 3 * RepeatFactor
<1>1. /\ n \in Nat /\ n >= 3 /\ StartProgram = 128 /\ AtOnes = 128 + 4 * n
      /\ AtExitArguments = AtOnes + 124 /\ AtStores = AtOnes + 140
      /\ AtExit = AtStores + 4 * n /\ AtExit + 20 <= 67584
  BY Addresses
<1>2. \A i \in 1..5 : AtExit + 4 * (i - 1) \in DOMAIN E /\ E[AtExit + 4 * (i - 1)] = Exit[i]
  <2> SUFFICES ASSUME NEW i \in 1..5
               PROVE  AtExit + 4 * (i - 1) \in DOMAIN E /\ E[AtExit + 4 * (i - 1)] = Exit[i]
    OBVIOUS
  <2>1. AtExit \in Nat /\ i \in DOMAIN Exit /\ DOMAIN Exit \subseteq Nat
    BY Lists, Addresses
  <2> QED BY <2>1, CodeIs
<1>3. \A i \in 1..n : AtStores + 4 * (i - 1) \in DOMAIN S /\ S[AtStores + 4 * (i - 1)] = Stores[i]
  <2> SUFFICES ASSUME NEW i \in 1..n
               PROVE  AtStores + 4 * (i - 1) \in DOMAIN S /\ S[AtStores + 4 * (i - 1)] = Stores[i]
    OBVIOUS
  <2>1. AtStores \in Nat /\ i \in DOMAIN Stores /\ DOMAIN Stores \subseteq Nat
    BY <1>1, Lists, Addresses
  <2> QED BY <2>1, CodeIs
<1>4. \A i \in 1..4 : AtExitArguments + 4 * (i - 1) \in DOMAIN A /\ A[AtExitArguments + 4 * (i - 1)] = ExitArguments[i]
  <2> SUFFICES ASSUME NEW i \in 1..4
               PROVE  AtExitArguments + 4 * (i - 1) \in DOMAIN A /\ A[AtExitArguments + 4 * (i - 1)] = ExitArguments[i]
    OBVIOUS
  <2>1. AtExitArguments \in Nat /\ i \in DOMAIN ExitArguments /\ DOMAIN ExitArguments \subseteq Nat
    BY Lists, Addresses
  <2> QED BY <2>1, CodeIs
<1>5. \A i \in 1..31 : AtOnes + 4 * (i - 1) \in DOMAIN O /\ O[AtOnes + 4 * (i - 1)] = AllOnes[i]
  <2> SUFFICES ASSUME NEW i \in 1..31
               PROVE  AtOnes + 4 * (i - 1) \in DOMAIN O /\ O[AtOnes + 4 * (i - 1)] = AllOnes[i]
    OBVIOUS
  <2>1. AtOnes \in Nat /\ i \in DOMAIN AllOnes /\ DOMAIN AllOnes \subseteq Nat
    BY Lists, Addresses
  <2> QED BY <2>1, CodeIs
<1>6. \A i \in 1..n : StartProgram + 4 * (i - 1) \in DOMAIN P /\ P[StartProgram + 4 * (i - 1)] = Stores[i]
  <2> SUFFICES ASSUME NEW i \in 1..n
               PROVE  StartProgram + 4 * (i - 1) \in DOMAIN P /\ P[StartProgram + 4 * (i - 1)] = Stores[i]
    OBVIOUS
  <2>1. StartProgram \in Nat /\ i \in DOMAIN Stores /\ DOMAIN Stores \subseteq Nat
    BY <1>1, Lists, Addresses
  <2> QED BY <2>1, CodeIs
<1>7. \A a \in DOMAIN E : AtExit <= a /\ a < AtExit + 4 * 5 /\ a \in Nat
  <2>1. AtExit \in Nat /\ 5 \in Nat /\ DOMAIN Exit = 1..5
    BY Lists, Addresses
  <2> QED BY <2>1, CodeRange
<1>8. \A a \in DOMAIN S : AtStores <= a /\ a < AtStores + 4 * n /\ a \in Nat
  <2>1. AtStores \in Nat /\ n \in Nat /\ DOMAIN Stores = 1..n
    BY <1>1, Lists, Addresses
  <2> QED BY <2>1, CodeRange
<1>9. \A a \in DOMAIN A : AtExitArguments <= a /\ a < AtExitArguments + 4 * 4 /\ a \in Nat
  <2>1. AtExitArguments \in Nat /\ 4 \in Nat /\ DOMAIN ExitArguments = 1..4
    BY Lists, Addresses
  <2> QED BY <2>1, CodeRange
<1>10. \A a \in DOMAIN O : AtOnes <= a /\ a < AtOnes + 4 * 31 /\ a \in Nat
  <2>1. AtOnes \in Nat /\ 31 \in Nat /\ DOMAIN AllOnes = 1..31
    BY Lists, Addresses
  <2> QED BY <2>1, CodeRange
<1>11. \A a \in DOMAIN P : StartProgram <= a /\ a < StartProgram + 4 * n /\ a \in Nat
  <2>1. StartProgram \in Nat /\ n \in Nat /\ DOMAIN Stores = 1..n
    BY <1>1, Lists, Addresses
  <2> QED BY <2>1, CodeRange
<1> HIDE DEF E, S, A, O, P, n
<1>12. Program = Over(E, Over(S, Over(A, Over(O, P))))
  BY DEF Program, E, S, A, O, P
<1>13. ASSUME NEW k \in 0..(n - 1)
      PROVE  /\ StartProgram + 4 * k \in DOMAIN Program
             /\ Program[StartProgram + 4 * k] = Stores[k + 1]
  <2>1. StartProgram + 4 * k \in DOMAIN P /\ P[StartProgram + 4 * k] = Stores[k + 1]
    <3>1. k + 1 \in 1..n /\ (k + 1) - 1 = k
      BY <1>1
    <3> QED BY <1>6, <3>1
  <2>2. /\ StartProgram + 4 * k \notin DOMAIN E /\ StartProgram + 4 * k \notin DOMAIN S
        /\ StartProgram + 4 * k \notin DOMAIN A /\ StartProgram + 4 * k \notin DOMAIN O
    BY <1>1, <1>7, <1>8, <1>9, <1>10
  <2> QED BY <1>12, <2>1, <2>2, OverIs
<1>14. ASSUME NEW k \in 0..30
      PROVE  AtOnes + 4 * k \in DOMAIN Program /\ Program[AtOnes + 4 * k] = AllOnes[k + 1]
  <2>1. AtOnes + 4 * k \in DOMAIN O /\ O[AtOnes + 4 * k] = AllOnes[k + 1]
    <3>1. k + 1 \in 1..31 /\ (k + 1) - 1 = k
      OBVIOUS
    <3> QED BY <1>5, <3>1
  <2>2. /\ AtOnes + 4 * k \notin DOMAIN E /\ AtOnes + 4 * k \notin DOMAIN S
        /\ AtOnes + 4 * k \notin DOMAIN A
    BY <1>1, <1>7, <1>8, <1>9
  <2> QED BY <1>12, <2>1, <2>2, OverIs
<1>15. ASSUME NEW k \in 0..3
       PROVE  /\ AtExitArguments + 4 * k \in DOMAIN Program
              /\ Program[AtExitArguments + 4 * k] = ExitArguments[k + 1]
  <2>1. AtExitArguments + 4 * k \in DOMAIN A /\ A[AtExitArguments + 4 * k] = ExitArguments[k + 1]
    <3>1. k + 1 \in 1..4 /\ (k + 1) - 1 = k
      OBVIOUS
    <3> QED BY <1>4, <3>1
  <2>2. AtExitArguments + 4 * k \notin DOMAIN E /\ AtExitArguments + 4 * k \notin DOMAIN S
    BY <1>1, <1>7, <1>8
  <2> QED BY <1>12, <2>1, <2>2, OverIs
<1>16. ASSUME NEW k \in 0..(n - 1)
       PROVE  AtStores + 4 * k \in DOMAIN Program /\ Program[AtStores + 4 * k] = Stores[k + 1]
  <2>1. AtStores + 4 * k \in DOMAIN S /\ S[AtStores + 4 * k] = Stores[k + 1]
    <3>1. k + 1 \in 1..n /\ (k + 1) - 1 = k
      BY <1>1
    <3> QED BY <1>3, <3>1
  <2>2. AtStores + 4 * k \notin DOMAIN E
    BY <1>1, <1>7
  <2> QED BY <1>12, <2>1, <2>2, OverIs
<1>17. ASSUME NEW k \in 0..4
       PROVE  AtExit + 4 * k \in DOMAIN Program /\ Program[AtExit + 4 * k] = Exit[k + 1]
  <2>1. k + 1 \in 1..5 /\ (k + 1) - 1 = k
    OBVIOUS
  <2> QED BY <1>2, <1>12, <2>1, OverIs
<1>18. ASSUME NEW a \in DOMAIN Program
       PROVE  a \in Nat /\ 128 <= a /\ a < 67584
  <2>1. a \in DOMAIN E \/ a \in DOMAIN S \/ a \in DOMAIN A \/ a \in DOMAIN O \/ a \in DOMAIN P
    BY <1>12, OverIs
  <2>2. CASE a \in DOMAIN E
    BY <1>1, <1>7, <2>2
  <2>3. CASE a \in DOMAIN S
    BY <1>1, <1>8, <2>3
  <2>4. CASE a \in DOMAIN A
    BY <1>1, <1>9, <2>4
  <2>5. CASE a \in DOMAIN O
    BY <1>1, <1>10, <2>5
  <2>6. CASE a \in DOMAIN P
    BY <1>1, <1>11, <2>6
  <2> QED BY <2>1, <2>2, <2>3, <2>4, <2>5, <2>6
<1> QED BY <1>13, <1>14, <1>15, <1>16, <1>17, <1>18 DEF n

\* What the hart decodes at an address of the debug program.
At(offset, instruction) ==
    /\ DebugProgramAt + offset \in DOMAIN DebugProgram
    /\ DebugProgram[DebugProgramAt + offset] = instruction

LEMMA DebugCode ==
    /\ At(\h00, J(\h0c))
    /\ At(\h04, J(\h60))
    /\ At(\h0c, Addi(0, 0, 0))
    /\ At(\h10, Csrw("dscratch0", s0))
    /\ At(\h14, Csrw("dscratch1", a0))
    /\ At(\h18, Csrr(s0, "mhartid"))
    /\ At(\h1c, Lui(a0, Base))
    /\ At(\h20, Sw(s0, a0, HALTED - Base))
    /\ At(\h24, Add(s0, s0, a0))
    /\ At(\h28, Lbu(s0, s0, FlagBase - Base))
    /\ At(\h2c, Andi(s0, s0, FLAGgo))
    /\ At(\h30, Bnez(s0, \h24))
    /\ At(\h34, Csrr(s0, "mhartid"))
    /\ At(\h38, Add(s0, s0, a0))
    /\ At(\h3c, Lbu(s0, s0, FlagBase - Base))
    /\ At(\h40, Andi(s0, s0, FLAGresume))
    /\ At(\h44, Bnez(s0, -\h40))
    /\ At(\h48, J(-\h30))
    /\ At(\h54, Csrr(s0, "dscratch0"))
    /\ At(\h58, Sw(0, a0, GOING - Base))
    /\ At(\h5c, Csrr(a0, "dscratch1"))
    /\ At(\h60, J(-\h560))
    /\ At(\h64, Csrr(s0, "mhartid"))
    /\ At(\h68, Lui(a0, Base))
    /\ At(\h6c, Sw(s0, a0, RESUMING - Base))
    /\ At(\h70, Csrr(s0, "dscratch0"))
    /\ At(\h74, Csrr(a0, "dscratch1"))
    /\ At(\h78, Op("dret"))
    /\ \A a \in DOMAIN DebugProgram : a \in Nat /\ DebugProgramAt <= a /\ a < DebugProgramAt + 124
<1> DEFINE list == Entries \o Enter \o Wait \o Exception \o Going \o Resume
<1>1. /\ DOMAIN list = 1..31
      /\ list[1] = J(\h0c)
      /\ list[2] = J(\h60)
      /\ list[4] = Addi(0, 0, 0)
      /\ list[5] = Csrw("dscratch0", s0)
      /\ list[6] = Csrw("dscratch1", a0)
      /\ list[7] = Csrr(s0, "mhartid")
      /\ list[8] = Lui(a0, Base)
      /\ list[9] = Sw(s0, a0, HALTED - Base)
      /\ list[10] = Add(s0, s0, a0)
      /\ list[11] = Lbu(s0, s0, FlagBase - Base)
      /\ list[12] = Andi(s0, s0, FLAGgo)
      /\ list[13] = Bnez(s0, \h24)
      /\ list[14] = Csrr(s0, "mhartid")
      /\ list[15] = Add(s0, s0, a0)
      /\ list[16] = Lbu(s0, s0, FlagBase - Base)
      /\ list[17] = Andi(s0, s0, FLAGresume)
      /\ list[18] = Bnez(s0, -\h40)
      /\ list[19] = J(-\h30)
      /\ list[22] = Csrr(s0, "dscratch0")
      /\ list[23] = Sw(0, a0, GOING - Base)
      /\ list[24] = Csrr(a0, "dscratch1")
      /\ list[25] = J(-\h560)
      /\ list[26] = Csrr(s0, "mhartid")
      /\ list[27] = Lui(a0, Base)
      /\ list[28] = Sw(s0, a0, RESUMING - Base)
      /\ list[29] = Csrr(s0, "dscratch0")
      /\ list[30] = Csrr(a0, "dscratch1")
      /\ list[31] = Op("dret")
  BY DEF Entries, Enter, Wait, Exception, Going, Resume, Report, Flag
<1> HIDE DEF list
<1>2. DebugProgramAt \in Nat /\ 31 \in Nat /\ DebugProgram = Code(DebugProgramAt, list)
  BY DEF DebugProgramAt, Base, DebugProgram, list
<1>3. ASSUME NEW i \in 1..31 PROVE At(4 * (i - 1), list[i])
  <2>1. i \in DOMAIN list /\ DOMAIN list \subseteq Nat
    BY <1>1
  <2> QED BY <1>2, <2>1, CodeIs DEF At
<1>4. \A a \in DOMAIN DebugProgram : a \in Nat /\ DebugProgramAt <= a /\ a < DebugProgramAt + 124
  <2>1. \A a \in DOMAIN DebugProgram :
           DebugProgramAt <= a /\ a < DebugProgramAt + 4 * 31 /\ a \in Nat
    <3>1. DOMAIN list = 1..31
      BY <1>1
    <3> QED BY <1>2, <3>1, CodeRange
  <2> QED BY <1>2, <2>1
<1>5. /\ At(\h00, list[1])
      /\ At(\h04, list[2])
      /\ At(\h0c, list[4])
      /\ At(\h10, list[5])
      /\ At(\h14, list[6])
      /\ At(\h18, list[7])
      /\ At(\h1c, list[8])
      /\ At(\h20, list[9])
      /\ At(\h24, list[10])
      /\ At(\h28, list[11])
      /\ At(\h2c, list[12])
      /\ At(\h30, list[13])
      /\ At(\h34, list[14])
      /\ At(\h38, list[15])
      /\ At(\h3c, list[16])
      /\ At(\h40, list[17])
      /\ At(\h44, list[18])
      /\ At(\h48, list[19])
      /\ At(\h54, list[22])
      /\ At(\h58, list[23])
      /\ At(\h5c, list[24])
      /\ At(\h60, list[25])
      /\ At(\h64, list[26])
      /\ At(\h68, list[27])
      /\ At(\h6c, list[28])
      /\ At(\h70, list[29])
      /\ At(\h74, list[30])
      /\ At(\h78, list[31])
  BY <1>3
<1> QED BY <1>1, <1>4, <1>5
-----------------------------------------------------------------------------
(***************************************************************************)
(* Where the program is and what it has by then in its registers R and in   *)
(* its word W.                                                              *)
(***************************************************************************)
Phase(k, R) == /\ k % 3 # 0 => R[a5] = Word
               /\ k % 3 = 2 => R[a4] = 102

InStart(p, R) ==
    \E k \in 0..(3 * RepeatFactor - 1) : p = StartProgram + 4 * k /\ Phase(k, R)

InOnes(p, R) ==
    \E k \in 0..30 : p = AtOnes + 4 * k /\ \A r \in 1..k : R[r] = -1

InArguments(p, R) ==
    \E k \in 0..3 : /\ p = AtExitArguments + 4 * k
                    /\ \A r \in 1..31 \ Used : R[r] = -1

InStores(p, R, W) ==
    \E k \in 0..(3 * RepeatFactor - 1) :
        /\ p = AtStores + 4 * k /\ Phase(k, R)
        /\ \A r \in 1..31 \ Used : R[r] = -1
        /\ k >= 3 => R[a4] = 102 /\ R[a5] = Word /\ W = 102

InExit(p, R, W) ==
    \E k \in 0..4 :
        /\ p = AtExit + 4 * k
        /\ \A r \in 1..31 \ Used : R[r] = -1
        /\ R[a4] = 102 /\ R[a5] = Word /\ W = 102
        /\ k >= 1 => R[a1] = 0
        /\ k >= 2 => R[a2] = 0
        /\ k >= 3 => R[a3] = 0
        /\ k >= 4 => R[a7] = 93

InProgram(p, R, W) == \/ InStart(p, R) \/ InOnes(p, R) \/ InArguments(p, R)
                      \/ InStores(p, R, W) \/ InExit(p, R, W)

(***************************************************************************)
(* Where the debug program is, by the offset from its start, and what it    *)
(* holds by then: of the program it interrupted, of its own, and what it    *)
(* has reported.  The jump that main writes lies below it.                  *)
(***************************************************************************)
Jumps == Whereto - DebugProgramAt

SessionAt(o) ==
    /\ o \in {\h00, \h0c, \h10} => regs[s0] = entry.regs[s0] /\ regs[a0] = entry.regs[a0]
    /\ o = \h14 => regs[a0] = entry.regs[a0]
    /\ o \notin {\h00, \h0c, \h10} => dscratch.dscratch0 = entry.regs[s0]
    /\ o \notin {\h00, \h0c, \h10, \h14} => dscratch.dscratch1 = entry.regs[a0]
    /\ o \in {\h1c, \h20, \h24, \h38, \h68, \h6c} => regs[s0] = core.mhartid
    /\ o \in {\h28, \h3c} => regs[s0] = core.mhartid + Base
    /\ o \in {\h2c, \h30, \h40, \h44} =>
          regs[s0] \in {0, 1, 2} /\ (regs[s0] # 0 => whereto)
    /\ o \in {\h20, \h24, \h28, \h2c, \h30, \h34, \h38, \h3c, \h40, \h44, \h54, \h58, \h6c} =>
          regs[a0] = Base
    /\ o \in {\h54, \h58, \h5c, \h60, Jumps, \h04, \h64, \h68, \h6c, \h70, \h74, \h78} => whereto
    /\ o \in {\h58, \h5c, \h60, Jumps, \h74, \h78} => regs[s0] = entry.regs[s0]
    /\ o \in {\h60, Jumps, \h78} => regs[a0] = entry.regs[a0]

ReportAt(o) ==
    /\ o \in {\h00, \h0c, \h10, \h14} => report = "none"
    /\ o \in {\h18, \h1c, \h20} => report \in {"none", "halted"}
    /\ o \in {\h24, \h28, \h2c, \h30, \h34, \h38, \h3c, \h40, \h44, \h48, \h54, \h58} =>
          report = "halted"
    /\ o \in {\h5c, \h60, Jumps} => report = "going"
    /\ o \in {\h04, \h64, \h68, \h6c} => report \in {"halted", "going"}
    /\ o \in {\h70, \h74, \h78} => report = "resuming"

Offsets == {\h00, \h04, \h0c, \h10, \h14, \h18, \h1c, \h20, \h24, \h28, \h2c, \h30,
            \h34, \h38, \h3c, \h40, \h44, \h48, \h54, \h58, \h5c, \h60,
            \h64, \h68, \h6c, \h70, \h74, \h78, Jumps}

InSession ==
    /\ ctrl = "DECODE" /\ main # "running"
    /\ \A r \in 0..31 \ {s0, a0} : regs[r] = entry.regs[r]
    /\ \/ pc = AsInstantiated.halt /\ report = "none"
       \/ \E o \in Offsets :
             pc = DebugProgramAt + o /\ SessionAt(o) /\ ReportAt(o)

HartTypes ==
    /\ core \in Cores
    /\ regs \in [0..31 -> Int] /\ regs[0] = 0
    /\ mem \in [Data -> Int]
    /\ dscratch \in [dscratch0 : Int, dscratch1 : Int]
    /\ pc \in Int /\ dpc \in Int
    /\ debug_mode \in BOOLEAN /\ whereto \in BOOLEAN
    /\ ctrl \in {"DECODE", "DBG_TAKEN"}
    /\ main \in {"running", "requested", "flagged"}
    /\ entry \in [pc : Int, regs : [0..31 -> Int], saved : BOOLEAN] /\ entry.regs[0] = 0

\* What main has done by now; the flag is there only with the jump.
MainInv ==
    /\ debug_req_i = IF main = "requested" THEN 1 ELSE 0
    /\ whereto <=> main = "flagged"
    /\ mem[FlagBase + core.mhartid] \in {0, 1, 2}
    /\ mem[FlagBase + core.mhartid] # 0 => whereto

\* There is one session, and until it starts nothing has been reported and
\* dpc is 0, where the hart goes when its address was not saved.
SessionInv ==
    /\ ctrl = "DBG_TAKEN" => ~debug_mode /\ main # "running"
    /\ ~debug_mode => report \in {"none", "resuming"}
    /\ ~debug_mode /\ (ctrl = "DBG_TAKEN" \/ main # "flagged") => report = "none" /\ dpc = 0
    /\ debug_mode => /\ InSession
                     /\ dpc = IF entry.saved THEN entry.pc ELSE 0
                     /\ InProgram(entry.pc, entry.regs, mem[Word])

\* The program goes on with what it had, or the hart is stuck.
GoesOn ==
    ~debug_mode => \/ InProgram(pc, regs, mem[Word])
                   \/ pc = 0 /\ main = "flagged" /\ ctrl = "DECODE"

HartInv == HartTypes /\ MainInv /\ SessionInv /\ GoesOn

-----------------------------------------------------------------------------
(***************************************************************************)
(* What a step of the hart does, by the instruction that is decoded.        *)
(***************************************************************************)
LEMMA Dispatch ==
    ASSUME HartStep, Decodes
    PROVE  /\ pc \in DOMAIN Memory
           /\ \/ Compute /\ Instr.op \in {"addi", "andi", "add", "lui"}
              \/ Load /\ Instr.op = "lbu"
              \/ Store /\ Instr.op = "sw"
              \/ Jump /\ Instr.op \in {"jal", "bnez"}
              \/ ReadCsr /\ Instr.op = "csrr"
              \/ WriteCsr /\ Instr.op = "csrw"
              \/ Dret /\ Instr.op = "dret"
BY DEF HartStep, Compute, Load, Store, Jump, ReadCsr, WriteCsr, Dret, TakeRequest,
       EnterDebug, Runs, Decodes

Computes(rd, v) == SetReg(rd, v) /\ NextPc /\ SameMode /\ UNCHANGED <<mem, dscratch, report>>

LEMMA ExecAddi ==
    ASSUME HartStep, Decodes, NEW rd, NEW rs, NEW imm, Instr = Addi(rd, rs, imm)
    PROVE  Computes(rd, regs[rs] + imm)
<1>1. /\ Instr.op = "addi" /\ Instr.rd = rd /\ Instr.rs = rs /\ Instr.imm = imm
  BY DEF Addi
<1> QED BY <1>1, Dispatch DEF Compute, Computes

LEMMA ExecAndi ==
    ASSUME HartStep, Decodes, NEW rd, NEW rs, NEW imm, Instr = Andi(rd, rs, imm)
    PROVE  Computes(rd, MaskBit(regs[rs], imm))
<1>1. /\ Instr.op = "andi" /\ Instr.rd = rd /\ Instr.rs = rs /\ Instr.imm = imm
  BY DEF Andi
<1> QED BY <1>1, Dispatch DEF Compute, Computes

LEMMA ExecAdd ==
    ASSUME HartStep, Decodes, NEW rd, NEW rs, NEW rt, Instr = Add(rd, rs, rt)
    PROVE  Computes(rd, regs[rs] + regs[rt])
<1>1. /\ Instr.op = "add" /\ Instr.rd = rd /\ Instr.rs = rs /\ Instr.rt = rt
  BY DEF Add
<1> QED BY <1>1, Dispatch DEF Compute, Computes

LEMMA ExecLui ==
    ASSUME HartStep, Decodes, NEW rd, NEW value, Instr = Lui(rd, value)
    PROVE  Computes(rd, value)
<1>1. /\ Instr.op = "lui" /\ Instr.rd = rd /\ Instr.imm = value
  BY DEF Lui
<1> QED BY <1>1, Dispatch DEF Compute, Computes

LEMMA ExecLbu ==
    ASSUME HartStep, Decodes, NEW rd, NEW rs, NEW imm, Instr = Lbu(rd, rs, imm)
    PROVE  Computes(rd, mem[regs[rs] + imm])
<1>1. /\ Instr.op = "lbu" /\ Instr.rd = rd /\ Instr.rs = rs /\ Instr.imm = imm
  BY DEF Lbu
<1> QED BY <1>1, Dispatch DEF Load, Computes

LEMMA ExecCsrr ==
    ASSUME HartStep, Decodes, NEW rd, NEW csr, Instr = Csrr(rd, csr)
    PROVE  Computes(rd, IF csr = "mhartid" THEN core.mhartid ELSE dscratch[csr])
<1>1. /\ Instr.op = "csrr" /\ Instr.rd = rd /\ Instr.csr = csr
  BY DEF Csrr
<1> QED BY <1>1, Dispatch DEF ReadCsr, Computes

LEMMA ExecCsrw ==
    ASSUME HartStep, Decodes, NEW csr, NEW rs, Instr = Csrw(csr, rs)
    PROVE  /\ dscratch' = [dscratch EXCEPT ![csr] = regs[rs]]
           /\ NextPc /\ SameMode /\ UNCHANGED <<regs, mem, report>>
<1>1. /\ Instr.op = "csrw" /\ Instr.csr = csr /\ Instr.rs = rs
  BY DEF Csrw
<1> QED BY <1>1, Dispatch DEF WriteCsr

LEMMA ExecSw ==
    ASSUME HartStep, Decodes, NEW rt, NEW rs, NEW imm, Instr = Sw(rt, rs, imm)
    PROVE  /\ mem' = [mem EXCEPT ![regs[rs] + imm] = regs[rt]]
           /\ regs[rs] + imm = HALTED => report' = "halted"
           /\ regs[rs] + imm = GOING => report' = "going"
           /\ regs[rs] + imm = RESUMING => report' = "resuming"
           /\ regs[rs] + imm \notin {HALTED, GOING, RESUMING} => report' = report
           /\ NextPc /\ SameMode /\ UNCHANGED <<regs, dscratch>>
<1>1. /\ Instr.op = "sw" /\ Instr.rt = rt /\ Instr.rs = rs /\ Instr.imm = imm
  BY DEF Sw
<1>2. Store
  BY <1>1, Dispatch
<1> DEFINE where == regs[rs] + imm
<1>3. /\ mem' = [mem EXCEPT ![where] = regs[rt]]
      /\ report' = CASE where = HALTED   -> "halted"
                     [] where = GOING    -> "going"
                     [] where = RESUMING -> "resuming"
                     [] OTHER            -> report
      /\ NextPc /\ SameMode /\ UNCHANGED <<regs, dscratch>>
  BY <1>1, <1>2 DEF Store
<1>4. HALTED # GOING /\ HALTED # RESUMING /\ GOING # RESUMING
  BY DEF HALTED, GOING, RESUMING, Base
<1> HIDE DEF where
<1>5. /\ where = HALTED => report' = "halted"
      /\ where = GOING => report' = "going"
      /\ where = RESUMING => report' = "resuming"
      /\ where \notin {HALTED, GOING, RESUMING} => report' = report
  BY <1>3, <1>4
<1> QED BY <1>3, <1>5 DEF where

LEMMA ExecJ ==
    ASSUME HartStep, Decodes, NEW imm, Instr = J(imm)
    PROVE  pc' = pc + imm /\ SameMode /\ UNCHANGED <<regs, mem, dscratch, report>>
<1>1. /\ Instr.op = "jal" /\ Instr.imm = imm
  BY DEF J
<1> QED BY <1>1, Dispatch DEF Jump

LEMMA ExecBnez ==
    ASSUME HartStep, Decodes, NEW rs, NEW imm, Instr = Bnez(rs, imm)
    PROVE  /\ pc' = IF regs[rs] = 0 THEN pc + 4 ELSE pc + imm
           /\ SameMode /\ UNCHANGED <<regs, mem, dscratch, report>>
<1>1. /\ Instr.op = "bnez" /\ Instr.rs = rs /\ Instr.imm = imm
  BY DEF Bnez
<1> QED BY <1>1, Dispatch DEF Jump

LEMMA ExecOp ==
    ASSUME HartStep, Decodes, NEW op, Instr = Op(op), op \in {"dret", "ecall", "ebreak"}
    PROVE  op = "dret" /\ Dret
<1>1. Instr.op = op
  BY DEF Op
<1> QED BY <1>1, Dispatch

\* A register that is set, and those that are not.
LEMMA RegisterSet ==
    ASSUME regs \in [0..31 -> Int], regs[0] = 0, NEW rd \in 0..31, NEW v \in Int,
           SetReg(rd, v)
    PROVE  /\ regs' \in [0..31 -> Int] /\ regs'[0] = 0
           /\ rd # 0 => regs'[rd] = v
           /\ \A r \in 0..31 : r # rd => regs'[r] = regs[r]
           /\ rd = 0 => \A r \in 0..31 : regs'[r] = regs[r]
BY DEF SetReg

(***************************************************************************)
(* What is decoded where.                                                   *)
(***************************************************************************)
LEMMA JumpCode ==
    /\ DOMAIN Code(Whereto, <<J(\h504)>>) = {Whereto}
    /\ Code(Whereto, <<J(\h504)>>)[Whereto] = J(\h504)
<1> DEFINE list == <<J(\h504)>>
<1>1. DOMAIN list = 1..1 /\ list[1] = J(\h504) /\ Whereto \in Nat
  BY DEF Whereto, Base
<1> HIDE DEF list
<1>2. DOMAIN Code(Whereto, list) = {Whereto + 4 * (i - 1) : i \in 1..1}
  BY <1>1 DEF Code
<1>3. DOMAIN Code(Whereto, list) = {Whereto}
  BY <1>1, <1>2
<1>4. 1 \in DOMAIN list /\ DOMAIN list \subseteq Nat
  BY <1>1
<1>5. Code(Whereto, list)[Whereto + 4 * (1 - 1)] = list[1]
  BY <1>1, <1>4, CodeIs
<1>6. Whereto + 4 * (1 - 1) = Whereto
  BY <1>1
<1> QED BY <1>1, <1>3, <1>5, <1>6 DEF list

LEMMA FetchDebug ==
    ASSUME NEW o \in Int, NEW i, At(o, i), pc = DebugProgramAt + o
    PROVE  Instr = i
<1>1. pc \in DOMAIN DebugProgram /\ DebugProgram[pc] = i
  BY DEF At
<1>2. pc # Whereto
  BY <1>1, DebugCode DEF Whereto, DebugProgramAt, Base
<1>3. pc \in DOMAIN Loaded /\ Loaded[pc] = i
  BY <1>1, OverIs DEF Loaded
<1>4. Sent[pc] = i
  BY <1>2, <1>3, JumpCode, OverIs DEF Sent
<1> QED BY <1>3, <1>4 DEF Instr, Memory

LEMMA FetchJump ==
    ASSUME pc = Whereto, whereto
    PROVE  Instr = J(\h504)
BY JumpCode, OverIs DEF Instr, Memory, Sent

LEMMA FetchProgram ==
    ASSUME pc \in DOMAIN Program
    PROVE  Instr = Program[pc]
<1>1. pc \in Nat /\ pc < 67584
  BY ProgramCode
<1>2. pc # Whereto /\ pc \notin DOMAIN DebugProgram
  BY <1>1, DebugCode DEF Whereto, DebugProgramAt, Base
<1>3. pc \in DOMAIN Loaded /\ Loaded[pc] = Program[pc]
  BY <1>2, OverIs DEF Loaded
<1>4. Sent[pc] = Program[pc]
  BY <1>2, <1>3, JumpCode, OverIs DEF Sent
<1> QED BY <1>3, <1>4 DEF Instr, Memory

\* There is nothing at address 0 nor where a core is halted that nobody told
\* of the debug program.
LEMMA NothingThere ==
    /\ 0 \notin DOMAIN Memory
    /\ AsInstantiated.halt \notin DOMAIN Memory
<1>1. ASSUME NEW a \in {0, 67584} PROVE a \notin DOMAIN Memory
  <2>1. a \notin DOMAIN Program
    BY ProgramCode
  <2>2. a \notin DOMAIN DebugProgram /\ a # Whereto
    BY DebugCode DEF Whereto, DebugProgramAt, Base
  <2>3. a \notin DOMAIN Loaded
    BY <2>1, <2>2, OverIs DEF Loaded
  <2>4. a \notin DOMAIN Sent
    BY <2>2, <2>3, JumpCode, OverIs DEF Sent
  <2> QED BY <2>3, <2>4 DEF Memory
<1> QED BY <1>1 DEF AsInstantiated

-----------------------------------------------------------------------------
(***************************************************************************)
(* A step of the debug program.                                             *)
(***************************************************************************)
\* What every step of it leaves alone.
Keeps ==
    /\ SameMode
    /\ regs' \in [0..31 -> Int] /\ regs'[0] = 0
    /\ \A r \in 0..31 \ {s0, a0} : regs'[r] = regs[r]
    /\ mem' \in [Data -> Int] /\ mem'[Word] = mem[Word]
    /\ mem'[FlagBase + core.mhartid] = mem[FlagBase + core.mhartid]
    /\ dscratch' \in [dscratch0 : Int, dscratch1 : Int]

Reports ==
    report' # report =>
        /\ <<report, report'>> \in {<<"none", "halted">>, <<"halted", "going">>,
                                    <<"halted", "resuming">>, <<"going", "resuming">>}
        /\ report' = "halted" => mem'[HALTED] = core.mhartid
        /\ report' = "resuming" => mem'[RESUMING] = core.mhartid

GoesTo(o) ==
    /\ o \in Offsets /\ pc' = DebugProgramAt + o
    /\ SessionAt(o)' /\ ReportAt(o)'

Here(o) ==
    /\ debug_mode /\ Decodes /\ HartTypes /\ MainInv
    /\ o \in Offsets /\ pc = DebugProgramAt + o
    /\ SessionAt(o) /\ ReportAt(o)

LEMMA Numbers ==
    /\ DebugProgramAt = 657408 /\ FlagBase = 656384 /\ Whereto = 656128
    /\ Base = 655360
    /\ HALTED = 655616 /\ GOING = 655620 /\ RESUMING = 655624 /\ Word = 64
    /\ Jumps = -1280 /\ s0 = 8 /\ a0 = 10
BY DEF DebugProgramAt, FlagBase, Whereto, Base, HALTED, GOING, RESUMING, Word, Jumps,
       s0, a0

LEMMA Registers == HartTypes => regs \in [0..31 -> Int] /\ regs[0] = 0
BY Zenon DEF HartTypes

LEMMA Ranges ==
    ASSUME HartTypes
    PROVE  /\ core.mhartid \in Nat /\ core.mhartid < 1024
           /\ core.halt \in {AsInstantiated.halt, AsAddressed.halt}
           /\ FlagBase + core.mhartid \in Data
           /\ HALTED \in Data /\ GOING \in Data /\ RESUMING \in Data /\ Word \in Data
           /\ FlagBase + core.mhartid \notin {HALTED, GOING, RESUMING, Word}
<1>1. core \in [mhartid : 0..(DebugProgramAt - FlagBase - 1),
                halt    : {AsInstantiated.halt, AsAddressed.halt}]
  BY CoresAssumption DEF HartTypes
<1>2. core.mhartid \in Nat /\ core.mhartid < 1024
  <2> DEFINE last == DebugProgramAt - FlagBase - 1
  <2>1. core.mhartid \in 0..last
    BY <1>1
  <2>2. last = 1023
    BY Numbers
  <2>3. last \in Int
    BY <2>2
  <2> HIDE DEF last
  <2>4. core.mhartid \in Nat /\ core.mhartid <= last
    BY <2>1, <2>3
  <2> QED BY <2>2, <2>4
<1>3. core.halt \in {AsInstantiated.halt, AsAddressed.halt}
  BY <1>1
<1>4. FlagBase + core.mhartid \in Data
  BY DEF Data, HartTypes
<1>5. FlagBase + core.mhartid \notin {HALTED, GOING, RESUMING, Word}
  BY <1>2, Numbers
<1> QED BY <1>2, <1>3, <1>4, <1>5 DEF Data

\* A register of the debug program is set.
LEMMA SetsRegister ==
    ASSUME HartTypes, NEW rd \in {s0, a0}, NEW v \in Int, Computes(rd, v)
    PROVE  /\ Keeps /\ Reports /\ regs'[rd] = v
           /\ \A r \in 0..31 : r # rd => regs'[r] = regs[r]
           /\ pc' = pc + 4 /\ UNCHANGED <<core, entry, whereto, dscratch, report>>
<1>1. rd \in 0..31 /\ rd # 0
  BY Numbers
<1>2. SetReg(rd, v) /\ NextPc /\ SameMode /\ UNCHANGED <<mem, dscratch, report>>
  BY Zenon DEF Computes
<1>3. /\ regs' \in [0..31 -> Int] /\ regs'[0] = 0
      /\ regs'[rd] = v
      /\ \A r \in 0..31 : r # rd => regs'[r] = regs[r]
  BY <1>1, <1>2, Registers, RegisterSet
<1>4. UNCHANGED <<core, entry, whereto>>
  BY <1>2 DEF SameMode
<1>5. Keeps
  BY <1>2, <1>3, <1>4 DEF Keeps, HartTypes
<1> QED BY <1>2, <1>3, <1>4, <1>5 DEF Reports, NextPc

LEMMA KeepsAll ==
    ASSUME HartTypes, SameMode, UNCHANGED <<regs, mem, dscratch, report>>
    PROVE  Keeps /\ Reports /\ UNCHANGED <<core, entry, whereto, regs, dscratch, report>>
BY DEF Keeps, Reports, HartTypes, SameMode

\* Its register 0 stays 0.
LEMMA Nops ==
    ASSUME HartTypes, Computes(0, regs[0] + 0)
    PROVE  /\ Keeps /\ Reports /\ pc' = pc + 4
           /\ UNCHANGED <<core, entry, whereto, dscratch, report>>
           /\ \A r \in 0..31 : regs'[r] = regs[r]
<1>1. /\ SetReg(0, regs[0] + 0) /\ NextPc /\ SameMode
      /\ UNCHANGED <<mem, dscratch, report>>
  BY DEF Computes
<1>2. regs[0] + 0 \in Int
  <2>1. regs[0] = 0
    BY Registers, Zenon
  <2> QED BY <2>1
<1>3. /\ regs' \in [0..31 -> Int] /\ regs'[0] = 0
      /\ \A r \in 0..31 : regs'[r] = regs[r]
  <2>1. regs \in [0..31 -> Int] /\ regs[0] = 0 /\ 0 \in 0..31
    BY DEF HartTypes
  <2> QED BY <1>1, <1>2, <2>1, RegisterSet
<1>4. UNCHANGED <<core, entry, whereto>>
  BY <1>1 DEF SameMode
<1>5. Keeps
  BY <1>1, <1>3, <1>4 DEF Keeps, HartTypes
<1> QED BY <1>1, <1>3, <1>4, <1>5 DEF Reports, NextPc

\* A value of the debug CSRs is put aside or a report is written.
LEMMA PutsAside ==
    ASSUME HartTypes, NEW csr \in {"dscratch0", "dscratch1"}, NEW rs \in {s0, a0},
           dscratch' = [dscratch EXCEPT ![csr] = regs[rs]],
           NextPc, SameMode, UNCHANGED <<regs, mem, report>>
    PROVE  /\ Keeps /\ Reports /\ pc' = pc + 4
           /\ UNCHANGED <<core, entry, whereto, regs, report>>
           /\ dscratch'[csr] = regs[rs]
           /\ csr = "dscratch1" => dscratch'.dscratch0 = dscratch.dscratch0
<1>1. regs[rs] \in Int /\ dscratch \in [dscratch0 : Int, dscratch1 : Int]
  BY Numbers DEF HartTypes
<1>2. /\ dscratch' \in [dscratch0 : Int, dscratch1 : Int]
      /\ dscratch'[csr] = regs[rs]
      /\ csr = "dscratch1" => dscratch'.dscratch0 = dscratch.dscratch0
  BY <1>1
<1> QED BY <1>2 DEF Keeps, Reports, HartTypes, SameMode, NextPc

LEMMA Writes ==
    ASSUME HartTypes, NEW where \in {HALTED, GOING, RESUMING}, NEW v \in Int,
           mem' = [mem EXCEPT ![where] = v],
           NextPc, SameMode, UNCHANGED <<regs, dscratch>>
    PROVE  /\ Keeps /\ pc' = pc + 4 /\ mem'[where] = v
           /\ UNCHANGED <<core, entry, whereto, regs, dscratch>>
<1>1. /\ mem' \in [Data -> Int] /\ mem'[where] = v
      /\ \A d \in Data : d # where => mem'[d] = mem[d]
  BY Ranges DEF HartTypes
<1>2. /\ where # Word /\ where # FlagBase + core.mhartid
      /\ Word \in Data /\ FlagBase + core.mhartid \in Data
  BY Ranges, Numbers
<1>3. /\ mem'[Word] = mem[Word]
      /\ mem'[FlagBase + core.mhartid] = mem[FlagBase + core.mhartid]
  BY <1>1, <1>2
<1> QED BY <1>1, <1>3 DEF Keeps, HartTypes, SameMode, NextPc

\* Coming in: the program's two registers are put aside.
LEMMA StepsIn ==
    ASSUME NEW o \in {\h00, \h0c, \h10, \h14}, Here(o), HartStep
    PROVE  Keeps /\ Reports /\ \E p \in Offsets : GoesTo(p)
<1>1. /\ Decodes /\ HartTypes /\ MainInv
      /\ pc = DebugProgramAt + o /\ ReportAt(o) /\ SessionAt(o)
  BY DEF Here
<1>2. CASE o = \h00
  <2>1. Instr = J(\h0c)
    BY <1>1, <1>2, DebugCode, FetchDebug
  <2>2. pc' = pc + \h0c /\ SameMode /\ UNCHANGED <<regs, mem, dscratch, report>>
    BY <1>1, <2>1, ExecJ
  <2>3. Keeps /\ Reports /\ UNCHANGED <<core, entry, whereto, regs, dscratch, report>>
    BY <1>1, <2>2, KeepsAll
  <2>4. GoesTo(\h0c)
    BY <1>1, <1>2, <2>2, <2>3, Numbers DEF GoesTo, SessionAt, ReportAt, Offsets
  <2> QED BY <2>3, <2>4 DEF GoesTo
<1>3. CASE o = \h0c
  <2>1. Instr = Addi(0, 0, 0)
    BY <1>1, <1>3, DebugCode, FetchDebug
  <2>2. Computes(0, regs[0] + 0)
    BY <1>1, <2>1, ExecAddi
  <2>3. /\ Keeps /\ Reports /\ pc' = pc + 4
        /\ UNCHANGED <<core, entry, whereto, dscratch, report>>
        /\ \A r \in 0..31 : regs'[r] = regs[r]
    BY <1>1, <2>2, Nops
  <2>4. GoesTo(\h10)
    BY <1>1, <1>3, <2>3, Numbers DEF GoesTo, SessionAt, ReportAt, Offsets
  <2> QED BY <2>3, <2>4 DEF GoesTo
<1>4. CASE o = \h10
  <2>1. Instr = Csrw("dscratch0", s0)
    BY <1>1, <1>4, DebugCode, FetchDebug
  <2>2. /\ dscratch' = [dscratch EXCEPT !["dscratch0"] = regs[s0]]
        /\ NextPc /\ SameMode /\ UNCHANGED <<regs, mem, report>>
    BY <1>1, <2>1, ExecCsrw
  <2>3. /\ Keeps /\ Reports /\ pc' = pc + 4
        /\ UNCHANGED <<core, entry, whereto, regs, report>>
        /\ dscratch'["dscratch0"] = regs[s0]
        /\ "dscratch0" = "dscratch1" => dscratch'.dscratch0 = dscratch.dscratch0
    BY <1>1, <2>2, PutsAside
  <2>4. GoesTo(\h14)
    BY <1>1, <1>4, <2>3, Numbers DEF GoesTo, SessionAt, ReportAt, Offsets
  <2> QED BY <2>3, <2>4 DEF GoesTo
<1>5. CASE o = \h14
  <2>1. Instr = Csrw("dscratch1", a0)
    BY <1>1, <1>5, DebugCode, FetchDebug
  <2>2. /\ dscratch' = [dscratch EXCEPT !["dscratch1"] = regs[a0]]
        /\ NextPc /\ SameMode /\ UNCHANGED <<regs, mem, report>>
    BY <1>1, <2>1, ExecCsrw
  <2>3. /\ Keeps /\ Reports /\ pc' = pc + 4
        /\ UNCHANGED <<core, entry, whereto, regs, report>>
        /\ dscratch'["dscratch1"] = regs[a0]
        /\ "dscratch1" = "dscratch1" => dscratch'.dscratch0 = dscratch.dscratch0
    BY <1>1, <2>2, PutsAside
  <2>4. GoesTo(\h18)
    BY <1>1, <1>5, <2>3, Numbers DEF GoesTo, SessionAt, ReportAt, Offsets
  <2> QED BY <2>3, <2>4 DEF GoesTo
<1> QED BY <1>2, <1>3, <1>4, <1>5

\* The reports of its number, on halting and on resuming.
LEMMA StepsReporting ==
    ASSUME NEW o \in {\h18, \h1c, \h20, \h64, \h68, \h6c}, Here(o), HartStep
    PROVE  Keeps /\ Reports /\ \E p \in Offsets : GoesTo(p)
<1>1. /\ Decodes /\ HartTypes /\ MainInv
      /\ pc = DebugProgramAt + o /\ ReportAt(o) /\ SessionAt(o)
  BY DEF Here
<1>2. CASE o = \h18
  <2>1. Instr = Csrr(s0, "mhartid")
    BY <1>1, <1>2, DebugCode, FetchDebug
  <2>2. Computes(s0, IF "mhartid" = "mhartid" THEN core.mhartid ELSE dscratch["mhartid"])
    BY <1>1, <2>1, ExecCsrr
  <2> DEFINE v == IF "mhartid" = "mhartid" THEN core.mhartid ELSE dscratch["mhartid"]
  <2>3. v = core.mhartid /\ v \in Int
    BY <1>1, <1>2, Numbers, Ranges
  <2>4. Computes(s0, v)
    BY <2>2
  <2> HIDE DEF v
  <2>5. /\ Keeps /\ Reports /\ regs'[s0] = v
        /\ \A r \in 0..31 : r # s0 => regs'[r] = regs[r]
        /\ pc' = pc + 4 /\ UNCHANGED <<core, entry, whereto, dscratch, report>>
    BY <1>1, <2>3, <2>4, SetsRegister
  <2>6. GoesTo(\h1c)
    BY <1>1, <1>2, <2>3, <2>5, Numbers DEF GoesTo, SessionAt, ReportAt, Offsets
  <2> QED BY <2>5, <2>6 DEF GoesTo
<1>3. CASE o = \h1c
  <2>1. Instr = Lui(a0, Base)
    BY <1>1, <1>3, DebugCode, FetchDebug
  <2>2. Computes(a0, Base)
    BY <1>1, <2>1, ExecLui
  <2> DEFINE v == Base
  <2>3. v = Base /\ v \in Int
    BY <1>1, <1>3, Numbers
  <2>4. Computes(a0, v)
    BY <2>2
  <2> HIDE DEF v
  <2>5. /\ Keeps /\ Reports /\ regs'[a0] = v
        /\ \A r \in 0..31 : r # a0 => regs'[r] = regs[r]
        /\ pc' = pc + 4 /\ UNCHANGED <<core, entry, whereto, dscratch, report>>
    BY <1>1, <2>3, <2>4, SetsRegister
  <2>6. GoesTo(\h20)
    BY <1>1, <1>3, <2>3, <2>5, Numbers DEF GoesTo, SessionAt, ReportAt, Offsets
  <2> QED BY <2>5, <2>6 DEF GoesTo
<1>4. CASE o = \h20
  <2>1. Instr = Sw(s0, a0, HALTED - Base)
    BY <1>1, <1>4, DebugCode, FetchDebug
  <2> DEFINE where == regs[a0] + (HALTED - Base)
  <2>2. /\ mem' = [mem EXCEPT ![where] = regs[s0]]
        /\ where = HALTED => report' = "halted"
        /\ NextPc /\ SameMode /\ UNCHANGED <<regs, dscratch>>
    BY <1>1, <2>1, ExecSw
  <2>3. where = HALTED /\ regs[s0] \in Int
    <3>1. regs[s0] \in Int
      BY <1>1, Numbers DEF HartTypes
    <3>2. regs[a0] = Base
      BY <1>1, <1>4, Numbers DEF SessionAt
    <3> QED BY <3>1, <3>2, Numbers
  <2> HIDE DEF where
  <2>4. mem' = [mem EXCEPT ![HALTED] = regs[s0]] /\ report' = "halted"
    BY <2>2, <2>3
  <2>5. /\ Keeps /\ pc' = pc + 4 /\ mem'[HALTED] = regs[s0]
        /\ UNCHANGED <<core, entry, whereto, regs, dscratch>>
    BY <1>1, <2>2, <2>3, <2>4, Writes, Zenon
  <2>6. Reports
    BY <1>1, <1>4, <2>4, <2>5, Numbers DEF Reports, ReportAt, SessionAt
  <2>7. GoesTo(\h24)
    BY <1>1, <1>4, <2>4, <2>5, Numbers DEF GoesTo, SessionAt, ReportAt, Offsets
  <2> QED BY <2>5, <2>6, <2>7 DEF GoesTo
<1>5. CASE o = \h64
  <2>1. Instr = Csrr(s0, "mhartid")
    BY <1>1, <1>5, DebugCode, FetchDebug
  <2>2. Computes(s0, IF "mhartid" = "mhartid" THEN core.mhartid ELSE dscratch["mhartid"])
    BY <1>1, <2>1, ExecCsrr
  <2> DEFINE v == IF "mhartid" = "mhartid" THEN core.mhartid ELSE dscratch["mhartid"]
  <2>3. v = core.mhartid /\ v \in Int
    BY <1>1, <1>5, Numbers, Ranges
  <2>4. Computes(s0, v)
    BY <2>2
  <2> HIDE DEF v
  <2>5. /\ Keeps /\ Reports /\ regs'[s0] = v
        /\ \A r \in 0..31 : r # s0 => regs'[r] = regs[r]
        /\ pc' = pc + 4 /\ UNCHANGED <<core, entry, whereto, dscratch, report>>
    BY <1>1, <2>3, <2>4, SetsRegister
  <2>6. GoesTo(\h68)
    BY <1>1, <1>5, <2>3, <2>5, Numbers DEF GoesTo, SessionAt, ReportAt, Offsets
  <2> QED BY <2>5, <2>6 DEF GoesTo
<1>6. CASE o = \h68
  <2>1. Instr = Lui(a0, Base)
    BY <1>1, <1>6, DebugCode, FetchDebug
  <2>2. Computes(a0, Base)
    BY <1>1, <2>1, ExecLui
  <2> DEFINE v == Base
  <2>3. v = Base /\ v \in Int
    BY <1>1, <1>6, Numbers
  <2>4. Computes(a0, v)
    BY <2>2
  <2> HIDE DEF v
  <2>5. /\ Keeps /\ Reports /\ regs'[a0] = v
        /\ \A r \in 0..31 : r # a0 => regs'[r] = regs[r]
        /\ pc' = pc + 4 /\ UNCHANGED <<core, entry, whereto, dscratch, report>>
    BY <1>1, <2>3, <2>4, SetsRegister
  <2>6. GoesTo(\h6c)
    BY <1>1, <1>6, <2>3, <2>5, Numbers DEF GoesTo, SessionAt, ReportAt, Offsets
  <2> QED BY <2>5, <2>6 DEF GoesTo
<1>7. CASE o = \h6c
  <2>1. Instr = Sw(s0, a0, RESUMING - Base)
    BY <1>1, <1>7, DebugCode, FetchDebug
  <2> DEFINE where == regs[a0] + (RESUMING - Base)
  <2>2. /\ mem' = [mem EXCEPT ![where] = regs[s0]]
        /\ where = RESUMING => report' = "resuming"
        /\ NextPc /\ SameMode /\ UNCHANGED <<regs, dscratch>>
    BY <1>1, <2>1, ExecSw
  <2>3. where = RESUMING /\ regs[s0] \in Int
    <3>1. regs[s0] \in Int
      BY <1>1, Numbers DEF HartTypes
    <3>2. regs[a0] = Base
      BY <1>1, <1>7, Numbers DEF SessionAt
    <3> QED BY <3>1, <3>2, Numbers
  <2> HIDE DEF where
  <2>4. mem' = [mem EXCEPT ![RESUMING] = regs[s0]] /\ report' = "resuming"
    BY <2>2, <2>3
  <2>5. /\ Keeps /\ pc' = pc + 4 /\ mem'[RESUMING] = regs[s0]
        /\ UNCHANGED <<core, entry, whereto, regs, dscratch>>
    BY <1>1, <2>2, <2>3, <2>4, Writes, Zenon
  <2>6. Reports
    BY <1>1, <1>7, <2>4, <2>5, Numbers DEF Reports, ReportAt, SessionAt
  <2>7. GoesTo(\h70)
    BY <1>1, <1>7, <2>4, <2>5, Numbers DEF GoesTo, SessionAt, ReportAt, Offsets
  <2> QED BY <2>5, <2>6, <2>7 DEF GoesTo
<1> QED BY <1>2, <1>3, <1>4, <1>5, <1>6, <1>7

\* The loop that looks at the flag.
LEMMA StepsWaiting ==
    ASSUME NEW o \in {\h24, \h28, \h2c, \h30, \h34, \h38, \h3c, \h40, \h44, \h48}, Here(o), HartStep
    PROVE  Keeps /\ Reports /\ \E p \in Offsets : GoesTo(p)
<1>1. /\ Decodes /\ HartTypes /\ MainInv
      /\ pc = DebugProgramAt + o /\ ReportAt(o) /\ SessionAt(o)
  BY DEF Here
<1>2. CASE o = \h24
  <2>1. Instr = Add(s0, s0, a0)
    BY <1>1, <1>2, DebugCode, FetchDebug
  <2>2. Computes(s0, regs[s0] + regs[a0])
    BY <1>1, <2>1, ExecAdd
  <2> DEFINE v == regs[s0] + regs[a0]
  <2>3. v = core.mhartid + Base /\ v \in Int
    BY <1>1, <1>2, Numbers, Ranges DEF SessionAt
  <2>4. Computes(s0, v)
    BY <2>2
  <2> HIDE DEF v
  <2>5. /\ Keeps /\ Reports /\ regs'[s0] = v
        /\ \A r \in 0..31 : r # s0 => regs'[r] = regs[r]
        /\ pc' = pc + 4 /\ UNCHANGED <<core, entry, whereto, dscratch, report>>
    BY <1>1, <2>3, <2>4, SetsRegister
  <2>6. GoesTo(\h28)
    BY <1>1, <1>2, <2>3, <2>5, Numbers DEF GoesTo, SessionAt, ReportAt, Offsets
  <2> QED BY <2>5, <2>6 DEF GoesTo
<1>3. CASE o = \h28
  <2>1. Instr = Lbu(s0, s0, FlagBase - Base)
    BY <1>1, <1>3, DebugCode, FetchDebug
  <2>2. Computes(s0, mem[regs[s0] + (FlagBase - Base)])
    BY <1>1, <2>1, ExecLbu
  <2> DEFINE v == mem[regs[s0] + (FlagBase - Base)]
  <2>3. v \in {0, 1, 2} /\ (v # 0 => whereto)
    BY <1>1, <1>3, Ranges, Numbers DEF MainInv, SessionAt
  <2>4. Computes(s0, v)
    BY <2>2
  <2> HIDE DEF v
  <2>5. /\ Keeps /\ Reports /\ regs'[s0] = v
        /\ \A r \in 0..31 : r # s0 => regs'[r] = regs[r]
        /\ pc' = pc + 4 /\ UNCHANGED <<core, entry, whereto, dscratch, report>>
    BY <1>1, <2>3, <2>4, SetsRegister
  <2>6. GoesTo(\h2c)
    BY <1>1, <1>3, <2>3, <2>5, Numbers DEF GoesTo, SessionAt, ReportAt, Offsets
  <2> QED BY <2>5, <2>6 DEF GoesTo
<1>4. CASE o = \h2c
  <2>1. Instr = Andi(s0, s0, FLAGgo)
    BY <1>1, <1>4, DebugCode, FetchDebug
  <2>2. Computes(s0, MaskBit(regs[s0], FLAGgo))
    BY <1>1, <2>1, ExecAndi
  <2> DEFINE v == MaskBit(regs[s0], FLAGgo)
  <2>3. v \in {0, 1, 2} /\ (v # 0 => whereto)
    BY <1>1, <1>4, Numbers DEF SessionAt, MaskBit, FLAGgo
  <2>4. Computes(s0, v)
    BY <2>2
  <2> HIDE DEF v
  <2>5. /\ Keeps /\ Reports /\ regs'[s0] = v
        /\ \A r \in 0..31 : r # s0 => regs'[r] = regs[r]
        /\ pc' = pc + 4 /\ UNCHANGED <<core, entry, whereto, dscratch, report>>
    BY <1>1, <2>3, <2>4, SetsRegister
  <2>6. GoesTo(\h30)
    BY <1>1, <1>4, <2>3, <2>5, Numbers DEF GoesTo, SessionAt, ReportAt, Offsets
  <2> QED BY <2>5, <2>6 DEF GoesTo
<1>5. CASE o = \h30
  <2>1. Instr = Bnez(s0, \h24)
    BY <1>1, <1>5, DebugCode, FetchDebug
  <2>2. /\ pc' = IF regs[s0] = 0 THEN pc + 4 ELSE pc + \h24
        /\ SameMode /\ UNCHANGED <<regs, mem, dscratch, report>>
    BY <1>1, <2>1, ExecBnez
  <2>3. Keeps /\ Reports /\ UNCHANGED <<core, entry, whereto, regs, dscratch, report>>
    BY <1>1, <2>2, KeepsAll
  <2>4. regs[s0] # 0 => whereto
    BY <1>1, <1>5, Numbers DEF SessionAt
  <2>5. CASE regs[s0] = 0
    <3>1. GoesTo(\h34)
      BY <1>1, <1>5, <2>2, <2>3, <2>5, Numbers DEF GoesTo, SessionAt, ReportAt, Offsets
    <3> QED BY <2>3, <3>1 DEF GoesTo
  <2>6. CASE regs[s0] # 0
    <3>1. GoesTo(\h54)
      BY <1>1, <1>5, <2>2, <2>3, <2>4, <2>6, Numbers DEF GoesTo, SessionAt, ReportAt, Offsets
    <3> QED BY <2>3, <3>1 DEF GoesTo
  <2> QED BY <2>5, <2>6
<1>6. CASE o = \h34
  <2>1. Instr = Csrr(s0, "mhartid")
    BY <1>1, <1>6, DebugCode, FetchDebug
  <2>2. Computes(s0, IF "mhartid" = "mhartid" THEN core.mhartid ELSE dscratch["mhartid"])
    BY <1>1, <2>1, ExecCsrr
  <2> DEFINE v == IF "mhartid" = "mhartid" THEN core.mhartid ELSE dscratch["mhartid"]
  <2>3. v = core.mhartid /\ v \in Int
    BY <1>1, <1>6, Numbers, Ranges
  <2>4. Computes(s0, v)
    BY <2>2
  <2> HIDE DEF v
  <2>5. /\ Keeps /\ Reports /\ regs'[s0] = v
        /\ \A r \in 0..31 : r # s0 => regs'[r] = regs[r]
        /\ pc' = pc + 4 /\ UNCHANGED <<core, entry, whereto, dscratch, report>>
    BY <1>1, <2>3, <2>4, SetsRegister
  <2>6. GoesTo(\h38)
    BY <1>1, <1>6, <2>3, <2>5, Numbers DEF GoesTo, SessionAt, ReportAt, Offsets
  <2> QED BY <2>5, <2>6 DEF GoesTo
<1>7. CASE o = \h38
  <2>1. Instr = Add(s0, s0, a0)
    BY <1>1, <1>7, DebugCode, FetchDebug
  <2>2. Computes(s0, regs[s0] + regs[a0])
    BY <1>1, <2>1, ExecAdd
  <2> DEFINE v == regs[s0] + regs[a0]
  <2>3. v = core.mhartid + Base /\ v \in Int
    BY <1>1, <1>7, Numbers, Ranges DEF SessionAt
  <2>4. Computes(s0, v)
    BY <2>2
  <2> HIDE DEF v
  <2>5. /\ Keeps /\ Reports /\ regs'[s0] = v
        /\ \A r \in 0..31 : r # s0 => regs'[r] = regs[r]
        /\ pc' = pc + 4 /\ UNCHANGED <<core, entry, whereto, dscratch, report>>
    BY <1>1, <2>3, <2>4, SetsRegister
  <2>6. GoesTo(\h3c)
    BY <1>1, <1>7, <2>3, <2>5, Numbers DEF GoesTo, SessionAt, ReportAt, Offsets
  <2> QED BY <2>5, <2>6 DEF GoesTo
<1>8. CASE o = \h3c
  <2>1. Instr = Lbu(s0, s0, FlagBase - Base)
    BY <1>1, <1>8, DebugCode, FetchDebug
  <2>2. Computes(s0, mem[regs[s0] + (FlagBase - Base)])
    BY <1>1, <2>1, ExecLbu
  <2> DEFINE v == mem[regs[s0] + (FlagBase - Base)]
  <2>3. v \in {0, 1, 2} /\ (v # 0 => whereto)
    BY <1>1, <1>8, Ranges, Numbers DEF MainInv, SessionAt
  <2>4. Computes(s0, v)
    BY <2>2
  <2> HIDE DEF v
  <2>5. /\ Keeps /\ Reports /\ regs'[s0] = v
        /\ \A r \in 0..31 : r # s0 => regs'[r] = regs[r]
        /\ pc' = pc + 4 /\ UNCHANGED <<core, entry, whereto, dscratch, report>>
    BY <1>1, <2>3, <2>4, SetsRegister
  <2>6. GoesTo(\h40)
    BY <1>1, <1>8, <2>3, <2>5, Numbers DEF GoesTo, SessionAt, ReportAt, Offsets
  <2> QED BY <2>5, <2>6 DEF GoesTo
<1>9. CASE o = \h40
  <2>1. Instr = Andi(s0, s0, FLAGresume)
    BY <1>1, <1>9, DebugCode, FetchDebug
  <2>2. Computes(s0, MaskBit(regs[s0], FLAGresume))
    BY <1>1, <2>1, ExecAndi
  <2> DEFINE v == MaskBit(regs[s0], FLAGresume)
  <2>3. v \in {0, 1, 2} /\ (v # 0 => whereto)
    BY <1>1, <1>9, Numbers DEF SessionAt, MaskBit, FLAGresume
  <2>4. Computes(s0, v)
    BY <2>2
  <2> HIDE DEF v
  <2>5. /\ Keeps /\ Reports /\ regs'[s0] = v
        /\ \A r \in 0..31 : r # s0 => regs'[r] = regs[r]
        /\ pc' = pc + 4 /\ UNCHANGED <<core, entry, whereto, dscratch, report>>
    BY <1>1, <2>3, <2>4, SetsRegister
  <2>6. GoesTo(\h44)
    BY <1>1, <1>9, <2>3, <2>5, Numbers DEF GoesTo, SessionAt, ReportAt, Offsets
  <2> QED BY <2>5, <2>6 DEF GoesTo
<1>10. CASE o = \h44
  <2>1. Instr = Bnez(s0, -\h40)
    BY <1>1, <1>10, DebugCode, FetchDebug
  <2>2. /\ pc' = IF regs[s0] = 0 THEN pc + 4 ELSE pc + (-\h40)
        /\ SameMode /\ UNCHANGED <<regs, mem, dscratch, report>>
    BY <1>1, <2>1, ExecBnez
  <2>3. Keeps /\ Reports /\ UNCHANGED <<core, entry, whereto, regs, dscratch, report>>
    BY <1>1, <2>2, KeepsAll
  <2>4. regs[s0] # 0 => whereto
    BY <1>1, <1>10, Numbers DEF SessionAt
  <2>5. CASE regs[s0] = 0
    <3>1. GoesTo(\h48)
      BY <1>1, <1>10, <2>2, <2>3, <2>5, Numbers DEF GoesTo, SessionAt, ReportAt, Offsets
    <3> QED BY <2>3, <3>1 DEF GoesTo
  <2>6. CASE regs[s0] # 0
    <3>1. GoesTo(\h04)
      BY <1>1, <1>10, <2>2, <2>3, <2>4, <2>6, Numbers DEF GoesTo, SessionAt, ReportAt, Offsets
    <3> QED BY <2>3, <3>1 DEF GoesTo
  <2> QED BY <2>5, <2>6
<1>11. CASE o = \h48
  <2>1. Instr = J(-\h30)
    BY <1>1, <1>11, DebugCode, FetchDebug
  <2>2. pc' = pc + (-\h30) /\ SameMode /\ UNCHANGED <<regs, mem, dscratch, report>>
    BY <1>1, <2>1, ExecJ
  <2>3. Keeps /\ Reports /\ UNCHANGED <<core, entry, whereto, regs, dscratch, report>>
    BY <1>1, <2>2, KeepsAll
  <2>4. GoesTo(\h18)
    BY <1>1, <1>11, <2>2, <2>3, Numbers DEF GoesTo, SessionAt, ReportAt, Offsets
  <2> QED BY <2>3, <2>4 DEF GoesTo
<1> QED BY <1>2, <1>3, <1>4, <1>5, <1>6, <1>7, <1>8, <1>9, <1>10, <1>11

\* Going and resuming: the program's two registers are taken back.
LEMMA StepsOut ==
    ASSUME NEW o \in {\h54, \h58, \h5c, \h60, Jumps, \h04, \h70, \h74}, Here(o), HartStep
    PROVE  Keeps /\ Reports /\ \E p \in Offsets : GoesTo(p)
<1>1. /\ Decodes /\ HartTypes /\ MainInv
      /\ pc = DebugProgramAt + o /\ ReportAt(o) /\ SessionAt(o)
  BY DEF Here
<1>2. CASE o = \h54
  <2>1. Instr = Csrr(s0, "dscratch0")
    BY <1>1, <1>2, DebugCode, FetchDebug
  <2>2. Computes(s0, IF "dscratch0" = "mhartid" THEN core.mhartid ELSE dscratch["dscratch0"])
    BY <1>1, <2>1, ExecCsrr
  <2> DEFINE v == IF "dscratch0" = "mhartid" THEN core.mhartid ELSE dscratch["dscratch0"]
  <2>3. v = entry.regs[s0] /\ v \in Int
    BY <1>1, <1>2, Numbers DEF SessionAt, HartTypes
  <2>4. Computes(s0, v)
    BY <2>2
  <2> HIDE DEF v
  <2>5. /\ Keeps /\ Reports /\ regs'[s0] = v
        /\ \A r \in 0..31 : r # s0 => regs'[r] = regs[r]
        /\ pc' = pc + 4 /\ UNCHANGED <<core, entry, whereto, dscratch, report>>
    BY <1>1, <2>3, <2>4, SetsRegister
  <2>6. GoesTo(\h58)
    BY <1>1, <1>2, <2>3, <2>5, Numbers DEF GoesTo, SessionAt, ReportAt, Offsets
  <2> QED BY <2>5, <2>6 DEF GoesTo
<1>3. CASE o = \h58
  <2>1. Instr = Sw(0, a0, GOING - Base)
    BY <1>1, <1>3, DebugCode, FetchDebug
  <2> DEFINE where == regs[a0] + (GOING - Base)
  <2>2. /\ mem' = [mem EXCEPT ![where] = regs[0]]
        /\ where = GOING => report' = "going"
        /\ NextPc /\ SameMode /\ UNCHANGED <<regs, dscratch>>
    BY <1>1, <2>1, ExecSw
  <2>3. where = GOING /\ regs[0] \in Int
    <3>1. regs[0] \in Int
      BY <1>1, Numbers DEF HartTypes
    <3>2. regs[a0] = Base
      BY <1>1, <1>3, Numbers DEF SessionAt
    <3> QED BY <3>1, <3>2, Numbers
  <2> HIDE DEF where
  <2>4. mem' = [mem EXCEPT ![GOING] = regs[0]] /\ report' = "going"
    BY <2>2, <2>3
  <2>5. /\ Keeps /\ pc' = pc + 4 /\ mem'[GOING] = regs[0]
        /\ UNCHANGED <<core, entry, whereto, regs, dscratch>>
    BY <1>1, <2>2, <2>3, <2>4, Writes, Zenon
  <2>6. Reports
    BY <1>1, <1>3, <2>4, <2>5, Numbers DEF Reports, ReportAt, SessionAt
  <2>7. GoesTo(\h5c)
    BY <1>1, <1>3, <2>4, <2>5, Numbers DEF GoesTo, SessionAt, ReportAt, Offsets
  <2> QED BY <2>5, <2>6, <2>7 DEF GoesTo
<1>4. CASE o = \h5c
  <2>1. Instr = Csrr(a0, "dscratch1")
    BY <1>1, <1>4, DebugCode, FetchDebug
  <2>2. Computes(a0, IF "dscratch1" = "mhartid" THEN core.mhartid ELSE dscratch["dscratch1"])
    BY <1>1, <2>1, ExecCsrr
  <2> DEFINE v == IF "dscratch1" = "mhartid" THEN core.mhartid ELSE dscratch["dscratch1"]
  <2>3. v = entry.regs[a0] /\ v \in Int
    BY <1>1, <1>4, Numbers DEF SessionAt, HartTypes
  <2>4. Computes(a0, v)
    BY <2>2
  <2> HIDE DEF v
  <2>5. /\ Keeps /\ Reports /\ regs'[a0] = v
        /\ \A r \in 0..31 : r # a0 => regs'[r] = regs[r]
        /\ pc' = pc + 4 /\ UNCHANGED <<core, entry, whereto, dscratch, report>>
    BY <1>1, <2>3, <2>4, SetsRegister
  <2>6. GoesTo(\h60)
    BY <1>1, <1>4, <2>3, <2>5, Numbers DEF GoesTo, SessionAt, ReportAt, Offsets
  <2> QED BY <2>5, <2>6 DEF GoesTo
<1>5. CASE o = \h60
  <2>1. Instr = J(-\h560)
    BY <1>1, <1>5, DebugCode, FetchDebug
  <2>2. pc' = pc + (-\h560) /\ SameMode /\ UNCHANGED <<regs, mem, dscratch, report>>
    BY <1>1, <2>1, ExecJ
  <2>3. Keeps /\ Reports /\ UNCHANGED <<core, entry, whereto, regs, dscratch, report>>
    BY <1>1, <2>2, KeepsAll
  <2>4. GoesTo(Jumps)
    BY <1>1, <1>5, <2>2, <2>3, Numbers DEF GoesTo, SessionAt, ReportAt, Offsets
  <2> QED BY <2>3, <2>4 DEF GoesTo
<1>6. CASE o = Jumps
  <2>1. Instr = J(\h504)
    BY <1>1, <1>6, FetchJump, Numbers DEF SessionAt
  <2>2. pc' = pc + \h504 /\ SameMode /\ UNCHANGED <<regs, mem, dscratch, report>>
    BY <1>1, <2>1, ExecJ
  <2>3. Keeps /\ Reports /\ UNCHANGED <<core, entry, whereto, regs, dscratch, report>>
    BY <1>1, <2>2, KeepsAll
  <2>4. GoesTo(\h04)
    BY <1>1, <1>6, <2>2, <2>3, Numbers DEF GoesTo, SessionAt, ReportAt, Offsets
  <2> QED BY <2>3, <2>4 DEF GoesTo
<1>7. CASE o = \h04
  <2>1. Instr = J(\h60)
    BY <1>1, <1>7, DebugCode, FetchDebug
  <2>2. pc' = pc + \h60 /\ SameMode /\ UNCHANGED <<regs, mem, dscratch, report>>
    BY <1>1, <2>1, ExecJ
  <2>3. Keeps /\ Reports /\ UNCHANGED <<core, entry, whereto, regs, dscratch, report>>
    BY <1>1, <2>2, KeepsAll
  <2>4. GoesTo(\h64)
    BY <1>1, <1>7, <2>2, <2>3, Numbers DEF GoesTo, SessionAt, ReportAt, Offsets
  <2> QED BY <2>3, <2>4 DEF GoesTo
<1>8. CASE o = \h70
  <2>1. Instr = Csrr(s0, "dscratch0")
    BY <1>1, <1>8, DebugCode, FetchDebug
  <2>2. Computes(s0, IF "dscratch0" = "mhartid" THEN core.mhartid ELSE dscratch["dscratch0"])
    BY <1>1, <2>1, ExecCsrr
  <2> DEFINE v == IF "dscratch0" = "mhartid" THEN core.mhartid ELSE dscratch["dscratch0"]
  <2>3. v = entry.regs[s0] /\ v \in Int
    BY <1>1, <1>8, Numbers DEF SessionAt, HartTypes
  <2>4. Computes(s0, v)
    BY <2>2
  <2> HIDE DEF v
  <2>5. /\ Keeps /\ Reports /\ regs'[s0] = v
        /\ \A r \in 0..31 : r # s0 => regs'[r] = regs[r]
        /\ pc' = pc + 4 /\ UNCHANGED <<core, entry, whereto, dscratch, report>>
    BY <1>1, <2>3, <2>4, SetsRegister
  <2>6. GoesTo(\h74)
    BY <1>1, <1>8, <2>3, <2>5, Numbers DEF GoesTo, SessionAt, ReportAt, Offsets
  <2> QED BY <2>5, <2>6 DEF GoesTo
<1>9. CASE o = \h74
  <2>1. Instr = Csrr(a0, "dscratch1")
    BY <1>1, <1>9, DebugCode, FetchDebug
  <2>2. Computes(a0, IF "dscratch1" = "mhartid" THEN core.mhartid ELSE dscratch["dscratch1"])
    BY <1>1, <2>1, ExecCsrr
  <2> DEFINE v == IF "dscratch1" = "mhartid" THEN core.mhartid ELSE dscratch["dscratch1"]
  <2>3. v = entry.regs[a0] /\ v \in Int
    BY <1>1, <1>9, Numbers DEF SessionAt, HartTypes
  <2>4. Computes(a0, v)
    BY <2>2
  <2> HIDE DEF v
  <2>5. /\ Keeps /\ Reports /\ regs'[a0] = v
        /\ \A r \in 0..31 : r # a0 => regs'[r] = regs[r]
        /\ pc' = pc + 4 /\ UNCHANGED <<core, entry, whereto, dscratch, report>>
    BY <1>1, <2>3, <2>4, SetsRegister
  <2>6. GoesTo(\h78)
    BY <1>1, <1>9, <2>3, <2>5, Numbers DEF GoesTo, SessionAt, ReportAt, Offsets
  <2> QED BY <2>5, <2>6 DEF GoesTo
<1> QED BY <1>2, <1>3, <1>4, <1>5, <1>6, <1>7, <1>8, <1>9

\* Leaving: the program has all its registers again.
LEMMA StepDret ==
    ASSUME Here(\h78), HartStep,
           \A r \in 0..31 \ {s0, a0} : regs[r] = entry.regs[r]
    PROVE  Dret /\ regs = entry.regs /\ whereto /\ report = "resuming"
<1>1. /\ Decodes /\ HartTypes /\ pc = DebugProgramAt + \h78
      /\ SessionAt(\h78) /\ ReportAt(\h78)
  BY DEF Here
<1>2. Instr = Op("dret")
  BY <1>1, DebugCode, FetchDebug
<1>3. Dret
  BY <1>1, <1>2, ExecOp
<1>4. regs[s0] = entry.regs[s0] /\ regs[a0] = entry.regs[a0] /\ whereto /\ report = "resuming"
  BY <1>1, Numbers DEF SessionAt, ReportAt
<1>5. \A r \in 0..31 : regs[r] = entry.regs[r]
  BY <1>4
<1>6. regs \in [0..31 -> Int] /\ entry.regs \in [0..31 -> Int]
  BY <1>1 DEF HartTypes
<1>7. regs = entry.regs
  BY <1>5, <1>6
<1> QED BY <1>3, <1>4, <1>7

LEMMA SessionStep ==
    ASSUME NEW o \in Offsets \ {\h78}, Here(o), HartStep
    PROVE  Keeps /\ Reports /\ \E p \in Offsets : GoesTo(p)
<1>1. \/ o \in {\h00, \h0c, \h10, \h14}
      \/ o \in {\h18, \h1c, \h20, \h64, \h68, \h6c}
      \/ o \in {\h24, \h28, \h2c, \h30, \h34, \h38, \h3c, \h40, \h44, \h48}
      \/ o \in {\h54, \h58, \h5c, \h60, Jumps, \h04, \h70, \h74}
  BY DEF Offsets
<1> QED BY <1>1, StepsIn, StepsReporting, StepsWaiting, StepsOut

-----------------------------------------------------------------------------
(***************************************************************************)
(* A step of the program.                                                   *)
(***************************************************************************)
\* The instructions of the two lists that are computed.
LEMMA StoresCode ==
    ASSUME NEW k \in 0..(3 * RepeatFactor - 1)
    PROVE  /\ k % 3 = 0 => Stores[k + 1] = Addi(a5, 0, Word)
           /\ k % 3 = 1 => Stores[k + 1] = Addi(a4, 0, 102)
           /\ k % 3 = 2 => Stores[k + 1] = Sw(a4, a5, 0)
           /\ k % 3 \in 0..2
           /\ k + 1 = 3 * RepeatFactor => (k + 1) % 3 = 0
           /\ (k + 1) % 3 = (IF k % 3 = 2 THEN 0 ELSE (k % 3) + 1)
           /\ k < 3 => k % 3 = k
<1>1. RepeatFactor \in Nat
  BY ProgramAssumption
<1>2. k + 1 \in 1..3 * RepeatFactor /\ (k + 1) - 1 = k
  BY <1>1
<1>3. Stores[k + 1] = StoreWord[(k % 3) + 1]
  BY <1>2 DEF Stores
<1>4. k % 3 \in 0..2
  BY <1>1
<1>5. /\ StoreWord[1] = Addi(a5, 0, Word) /\ StoreWord[2] = Addi(a4, 0, 102)
      /\ StoreWord[3] = Sw(a4, a5, 0)
  BY DEF StoreWord
<1>6. k + 1 = 3 * RepeatFactor => (k + 1) % 3 = 0
  BY <1>1
<1>7. (k + 1) % 3 = (IF k % 3 = 2 THEN 0 ELSE (k % 3) + 1)
  BY <1>1
<1>8. k < 3 => k % 3 = k
  BY <1>1
<1> QED BY <1>3, <1>4, <1>5, <1>6, <1>7, <1>8

LEMMA Names ==
    a1 = 11 /\ a2 = 12 /\ a3 = 13 /\ a4 = 14 /\ a5 = 15 /\ a7 = 17
    /\ Used = {0, 11, 12, 13, 14, 15, 17}
BY DEF a1, a2, a3, a4, a5, a7, Used

\* What a step of the program, outside a session, leaves alone.
Proceeds ==
    /\ pc' = pc + 4 /\ SameMode /\ UNCHANGED <<dscratch, report>>
    /\ regs' \in [0..31 -> Int] /\ regs'[0] = 0
    /\ mem' \in [Data -> Int]
    /\ \A d \in Data : d # Word => mem'[d] = mem[d]

LEMMA ProgramSets ==
    ASSUME HartTypes, NEW rd \in 1..31, NEW imm \in Int, Decodes, HartStep,
           Instr = Addi(rd, 0, imm)
    PROVE  /\ Proceeds /\ regs'[rd] = imm /\ mem' = mem
           /\ \A r \in 0..31 : r # rd => regs'[r] = regs[r]
<1> DEFINE v == regs[0] + imm
<1>1. Computes(rd, v)
  BY ExecAddi
<1>2. v = imm
  <2>1. regs[0] = 0
    BY Registers, Zenon
  <2> QED BY <2>1
<1> HIDE DEF v
<1>3. /\ SetReg(rd, imm) /\ NextPc /\ SameMode /\ UNCHANGED <<mem, dscratch, report>>
  BY <1>1, <1>2, Zenon DEF Computes
<1>4. rd \in 0..31 /\ rd # 0
  OBVIOUS
<1>5. /\ regs' \in [0..31 -> Int] /\ regs'[0] = 0
      /\ regs'[rd] = imm
      /\ \A r \in 0..31 : r # rd => regs'[r] = regs[r]
  BY <1>3, <1>4, RegisterSet DEF HartTypes
<1> QED BY <1>3, <1>5 DEF Proceeds, NextPc, HartTypes

LEMMA ProgramStores ==
    ASSUME HartTypes, Decodes, HartStep, Instr = Sw(a4, a5, 0), regs[a5] = Word
    PROVE  Proceeds /\ regs' = regs /\ mem'[Word] = regs[a4]
<1> DEFINE where == regs[a5] + 0
<1>1. /\ mem' = [mem EXCEPT ![where] = regs[a4]]
      /\ where \notin {HALTED, GOING, RESUMING} => report' = report
      /\ NextPc /\ SameMode /\ UNCHANGED <<regs, dscratch>>
  BY ExecSw
<1>2. where = Word /\ Word \notin {HALTED, GOING, RESUMING}
  BY Numbers
<1> HIDE DEF where
<1>3. mem' = [mem EXCEPT ![Word] = regs[a4]] /\ report' = report
  BY <1>1, <1>2
<1>4. regs[a4] \in Int /\ Word \in Data /\ mem \in [Data -> Int]
  BY Names, Ranges DEF HartTypes
<1>5. /\ mem' \in [Data -> Int] /\ mem'[Word] = regs[a4]
      /\ \A d \in Data : d # Word => mem'[d] = mem[d]
  BY <1>3, <1>4
<1> QED BY <1>1, <1>3, <1>5 DEF Proceeds, HartTypes, NextPc

\* One instruction of the list that stores the word.
LEMMA StoreWordStep ==
    ASSUME HartTypes, Decodes, HartStep, NEW k \in 0..(3 * RepeatFactor - 1),
           Instr = Stores[k + 1], Phase(k, regs)
    PROVE  /\ Proceeds /\ Phase(k + 1, regs')
           /\ \A r \in 1..31 \ Used : regs'[r] = regs[r]
           /\ regs'[a4] \in {regs[a4], 102} /\ regs'[a5] \in {regs[a5], Word}
           /\ mem'[Word] \in {mem[Word], 102}
           /\ k >= 2 /\ (k >= 3 => regs[a4] = 102 /\ regs[a5] = Word /\ mem[Word] = 102) =>
                 regs'[a4] = 102 /\ regs'[a5] = Word /\ mem'[Word] = 102
<1>1. a4 = 14 /\ a5 = 15 /\ Used = {0, 11, 12, 13, 14, 15, 17} /\ Word = 64
  BY Names, Numbers
<1>2. k % 3 \in 0..2 /\ (k + 1) % 3 = (IF k % 3 = 2 THEN 0 ELSE (k % 3) + 1)
      /\ (k < 3 => k % 3 = k)
  BY StoresCode
<1>3. CASE k % 3 = 0
  <2>1. Instr = Addi(a5, 0, Word)
    BY <1>3, StoresCode
  <2>2. a5 \in 1..31 /\ Word \in Int
    BY <1>1
  <2>3. /\ Proceeds /\ regs'[a5] = Word /\ mem' = mem
        /\ \A r \in 0..31 : r # a5 => regs'[r] = regs[r]
    BY <2>1, <2>2, ProgramSets
  <2> QED BY <1>1, <1>2, <1>3, <2>3 DEF Phase
<1>4. CASE k % 3 = 1
  <2>1. Instr = Addi(a4, 0, 102)
    BY <1>4, StoresCode
  <2>2. a4 \in 1..31 /\ 102 \in Int
    BY <1>1
  <2>3. /\ Proceeds /\ regs'[a4] = 102 /\ mem' = mem
        /\ \A r \in 0..31 : r # a4 => regs'[r] = regs[r]
    BY <2>1, <2>2, ProgramSets
  <2> QED BY <1>1, <1>2, <1>4, <2>3 DEF Phase
<1>5. CASE k % 3 = 2
  <2>1. Instr = Sw(a4, a5, 0)
    BY <1>5, StoresCode
  <2>2. regs[a5] = Word /\ regs[a4] = 102
    BY <1>5 DEF Phase
  <2>3. Proceeds /\ regs' = regs /\ mem'[Word] = regs[a4]
    BY <2>1, <2>2, ProgramStores
  <2> QED BY <1>1, <1>2, <1>5, <2>2, <2>3 DEF Phase
<1> QED BY <1>2, <1>3, <1>4, <1>5

LEMMA StartStep ==
    ASSUME HartTypes, Decodes, HartStep, InStart(pc, regs)
    PROVE  Proceeds /\ (InStart(pc', regs') \/ InOnes(pc', regs'))
<1> DEFINE n == 3 * RepeatFactor
<1>1. PICK k \in 0..(n - 1) : pc = StartProgram + 4 * k /\ Phase(k, regs)
  BY DEF InStart
<1>2. RepeatFactor \in Nat /\ n \in Nat /\ k + 1 \in Nat /\ n = 3 * RepeatFactor
  BY ProgramAssumption
<1>3. Instr = Stores[k + 1]
  BY <1>1, ProgramCode, FetchProgram
<1>4. Proceeds /\ Phase(k + 1, regs')
  BY <1>1, <1>3, StoreWordStep
<1>5. pc' = StartProgram + 4 * (k + 1)
  BY <1>1, <1>4, Addresses DEF Proceeds
<1>6. CASE k + 1 \in 0..(n - 1)
  BY <1>4, <1>5, <1>6 DEF InStart
<1>7. CASE k + 1 = n
  <2>1. pc' = AtOnes + 4 * 0
    BY <1>2, <1>5, <1>7, Addresses
  <2>2. 0 \in 0..30 /\ \A r \in 1..0 : regs'[r] = -1
    OBVIOUS
  <2> QED BY <1>4, <2>1, <2>2 DEF InOnes
<1> QED BY <1>2, <1>6, <1>7

LEMMA OnesStep ==
    ASSUME HartTypes, Decodes, HartStep, InOnes(pc, regs)
    PROVE  Proceeds /\ (InOnes(pc', regs') \/ InArguments(pc', regs'))
<1>1. PICK k \in 0..30 : pc = AtOnes + 4 * k /\ \A r \in 1..k : regs[r] = -1
  BY DEF InOnes
<1>2. k + 1 \in 1..31 /\ -1 \in Int
  OBVIOUS
<1>3. AllOnes[k + 1] = Addi(k + 1, 0, -1)
  BY <1>2 DEF AllOnes
<1>4. Instr = Addi(k + 1, 0, -1)
  <2>1. /\ AtOnes + 4 * k \in DOMAIN Program
        /\ Program[AtOnes + 4 * k] = AllOnes[k + 1]
    BY ProgramCode
  <2>2. pc \in DOMAIN Program /\ Program[pc] = AllOnes[k + 1]
    BY <1>1, <2>1
  <2> QED BY <1>3, <2>2, FetchProgram
<1>5. /\ Proceeds /\ regs'[k + 1] = -1
      /\ \A r \in 0..31 : r # k + 1 => regs'[r] = regs[r]
  BY <1>2, <1>4, ProgramSets
<1>6. pc' = AtOnes + 4 * (k + 1)
  BY <1>1, <1>5, Addresses DEF Proceeds
<1>7. \A r \in 1..(k + 1) : regs'[r] = -1
  BY <1>1, <1>5
<1>8. CASE k + 1 \in 0..30
  BY <1>5, <1>6, <1>7, <1>8 DEF InOnes
<1>9. CASE k = 30
  <2>1. pc' = AtExitArguments + 4 * 0 /\ 0 \in 0..3
    BY <1>6, <1>9, Addresses
  <2>2. \A r \in 1..31 \ Used : regs'[r] = -1
    BY <1>7, <1>9
  <2> QED BY <1>5, <2>1, <2>2 DEF InArguments
<1> QED BY <1>8, <1>9

LEMMA ExitArgumentsCode ==
    /\ ExitArguments[1] = Addi(a1, 0, 0) /\ ExitArguments[2] = Addi(a2, 0, 0)
    /\ ExitArguments[3] = Addi(a3, 0, 0) /\ ExitArguments[4] = Addi(a7, 0, 93)
    /\ \A i \in 1..4 : Exit[i] = ExitArguments[i]
    /\ Exit[5] = Op("ecall")
BY DEF ExitArguments, Exit

LEMMA ArgumentsStep ==
    ASSUME HartTypes, Decodes, HartStep, InArguments(pc, regs)
    PROVE  Proceeds /\ (InArguments(pc', regs') \/ InStores(pc', regs', mem'[Word]))
<1>1. PICK k \in 0..3 : /\ pc = AtExitArguments + 4 * k
                        /\ \A r \in 1..31 \ Used : regs[r] = -1
  BY DEF InArguments
<1>2. Instr = ExitArguments[k + 1]
  BY <1>1, ProgramCode, FetchProgram
<1>3. PICK rd \in 1..31, imm \in Int :
         Instr = Addi(rd, 0, imm) /\ rd \in {11, 12, 13, 17}
  <2>1. CASE k = 0
    BY <1>2, <2>1, ExitArgumentsCode, Names
  <2>2. CASE k = 1
    BY <1>2, <2>2, ExitArgumentsCode, Names
  <2>3. CASE k = 2
    BY <1>2, <2>3, ExitArgumentsCode, Names
  <2>4. CASE k = 3
    BY <1>2, <2>4, ExitArgumentsCode, Names
  <2> QED BY <2>1, <2>2, <2>3, <2>4
<1>4. /\ Proceeds /\ regs'[rd] = imm /\ mem' = mem
      /\ \A r \in 0..31 : r # rd => regs'[r] = regs[r]
  <2>1. Instr = Addi(rd, 0, imm)
    BY <1>3
  <2> QED BY <2>1, ProgramSets
<1>5. pc' = AtExitArguments + 4 * (k + 1)
  BY <1>1, <1>4, Addresses DEF Proceeds
<1>6. \A r \in 1..31 \ Used : regs'[r] = -1
  BY <1>1, <1>3, <1>4, Names
<1>7. CASE k + 1 \in 0..3
  BY <1>4, <1>5, <1>6, <1>7 DEF InArguments
<1>8. CASE k = 3
  <2>1. pc' = AtStores + 4 * 0 /\ 0 \in 0..(3 * RepeatFactor - 1)
    BY <1>5, <1>8, Addresses
  <2>2. Phase(0, regs') /\ ~(0 >= 3)
    BY DEF Phase
  <2> QED BY <1>4, <1>6, <2>1, <2>2 DEF InStores
<1> QED BY <1>7, <1>8

LEMMA StoresStep ==
    ASSUME HartTypes, Decodes, HartStep, InStores(pc, regs, mem[Word])
    PROVE  Proceeds /\ (InStores(pc', regs', mem'[Word]) \/ InExit(pc', regs', mem'[Word]))
<1> DEFINE n == 3 * RepeatFactor
<1>1. PICK k \in 0..(n - 1) :
         /\ pc = AtStores + 4 * k /\ Phase(k, regs)
         /\ \A r \in 1..31 \ Used : regs[r] = -1
         /\ k >= 3 => regs[a4] = 102 /\ regs[a5] = Word /\ mem[Word] = 102
  BY DEF InStores
<1>2. /\ RepeatFactor \in Nat /\ n \in Nat /\ k \in Nat /\ k + 1 \in Nat
      /\ n = 3 * RepeatFactor /\ n >= 3
  BY ProgramAssumption
<1>3. Instr = Stores[k + 1]
  BY <1>1, ProgramCode, FetchProgram
<1>4. /\ Proceeds /\ Phase(k + 1, regs')
      /\ \A r \in 1..31 \ Used : regs'[r] = -1
      /\ k >= 2 => regs'[a4] = 102 /\ regs'[a5] = Word /\ mem'[Word] = 102
  BY <1>1, <1>3, StoreWordStep
<1>5. pc' = AtStores + 4 * (k + 1)
  BY <1>1, <1>4, Addresses DEF Proceeds
<1>6. k + 1 >= 3 => regs'[a4] = 102 /\ regs'[a5] = Word /\ mem'[Word] = 102
  BY <1>2, <1>4
<1>7. CASE k + 1 \in 0..(n - 1)
  BY <1>4, <1>5, <1>6, <1>7 DEF InStores
<1>8. CASE k + 1 = n
  <2>1. pc' = AtExit + 4 * 0 /\ 0 \in 0..4
    BY <1>2, <1>5, <1>8, Addresses
  <2>2. regs'[a4] = 102 /\ regs'[a5] = Word /\ mem'[Word] = 102
    BY <1>2, <1>6, <1>8
  <2> QED BY <1>4, <2>1, <2>2 DEF InExit
<1> QED BY <1>2, <1>7, <1>8

LEMMA ExitStep ==
    ASSUME HartTypes, Decodes, HartStep, InExit(pc, regs, mem[Word])
    PROVE  Proceeds /\ InExit(pc', regs', mem'[Word])
<1>1. PICK k \in 0..4 :
         /\ pc = AtExit + 4 * k
         /\ \A r \in 1..31 \ Used : regs[r] = -1
         /\ regs[a4] = 102 /\ regs[a5] = Word /\ mem[Word] = 102
         /\ k >= 1 => regs[a1] = 0
         /\ k >= 2 => regs[a2] = 0
         /\ k >= 3 => regs[a3] = 0
         /\ k >= 4 => regs[a7] = 93
  BY DEF InExit
<1>2. Instr = Exit[k + 1]
  BY <1>1, ProgramCode, FetchProgram
<1>3. k # 4
  <2>1. SUFFICES ASSUME k = 4 PROVE FALSE
    OBVIOUS
  <2>2. Instr = Op("ecall")
    BY <1>2, <2>1, ExitArgumentsCode
  <2>3. "ecall" = "dret"
    BY <2>2, ExecOp
  <2> QED BY <2>3
<1>4. Instr = ExitArguments[k + 1] /\ k + 1 \in 0..4
  BY <1>2, <1>3, ExitArgumentsCode
<1>5. PICK rd \in 1..31, imm \in Int :
         /\ Instr = Addi(rd, 0, imm)
         /\ <<k, rd, imm>> \in {<<0, a1, 0>>, <<1, a2, 0>>, <<2, a3, 0>>, <<3, a7, 93>>}
  <2>1. CASE k = 0
    BY <1>4, <2>1, ExitArgumentsCode, Names
  <2>2. CASE k = 1
    BY <1>4, <2>2, ExitArgumentsCode, Names
  <2>3. CASE k = 2
    BY <1>4, <2>3, ExitArgumentsCode, Names
  <2>4. CASE k = 3
    BY <1>4, <2>4, ExitArgumentsCode, Names
  <2> QED BY <1>3, <2>1, <2>2, <2>3, <2>4
<1>6. /\ Proceeds /\ regs'[rd] = imm /\ mem' = mem
      /\ \A r \in 0..31 : r # rd => regs'[r] = regs[r]
  <2>1. Instr = Addi(rd, 0, imm)
    BY <1>5
  <2> QED BY <2>1, ProgramSets
<1>7. pc' = AtExit + 4 * (k + 1)
  BY <1>1, <1>6, Addresses DEF Proceeds
<1>8. /\ rd \in {11, 12, 13, 17}
      /\ k = 0 => rd = 11 /\ imm = 0
      /\ k = 1 => rd = 12 /\ imm = 0
      /\ k = 2 => rd = 13 /\ imm = 0
      /\ k = 3 => rd = 17 /\ imm = 93
  BY <1>5, Names
<1>9. /\ \A r \in 1..31 \ Used : regs'[r] = -1
      /\ regs'[a4] = 102 /\ regs'[a5] = Word /\ mem'[Word] = 102
  BY <1>1, <1>6, <1>8, Names
<1>10. /\ k + 1 >= 1 => regs'[a1] = 0
       /\ k + 1 >= 2 => regs'[a2] = 0
       /\ k + 1 >= 3 => regs'[a3] = 0
       /\ k + 1 >= 4 => regs'[a7] = 93
  BY <1>1, <1>3, <1>6, <1>8, Names
<1> QED BY <1>4, <1>6, <1>7, <1>9, <1>10 DEF InExit

LEMMA ProgramStep ==
    ASSUME HartTypes, Decodes, HartStep, InProgram(pc, regs, mem[Word])
    PROVE  Proceeds /\ InProgram(pc', regs', mem'[Word])
BY StartStep, OnesStep, ArgumentsStep, StoresStep, ExitStep DEF InProgram

-----------------------------------------------------------------------------
(***************************************************************************)
(* The invariant holds at first and every step keeps it.                    *)
(***************************************************************************)
LEMMA HartStarts == Init => HartInv
<1> SUFFICES ASSUME Init PROVE HartInv
  OBVIOUS
<1>1. /\ core \in Cores /\ pc = StartProgram /\ regs = [r \in 0..31 |-> 0]
      /\ mem = [d \in Data |-> 0] /\ dpc = 0
      /\ dscratch = [dscratch0 |-> 0, dscratch1 |-> 0]
      /\ debug_mode = FALSE /\ ctrl = "DECODE" /\ whereto = FALSE
      /\ debug_req_i = 0 /\ main = "running" /\ report = "none"
      /\ entry = [pc |-> 0, regs |-> regs, saved |-> FALSE]
  BY DEF Init
<1>2. regs \in [0..31 -> Int] /\ regs[0] = 0 /\ pc \in Int
  BY <1>1, Addresses
<1>3. entry \in [pc : Int, regs : [0..31 -> Int], saved : BOOLEAN] /\ entry.regs[0] = 0
  BY <1>1, <1>2
<1>4. HartTypes
  BY <1>1, <1>2, <1>3 DEF HartTypes
<1>5. mem[FlagBase + core.mhartid] = 0
  BY <1>1, <1>4, Ranges
<1>6. InStart(pc, regs)
  <2>1. pc = StartProgram + 4 * 0 /\ 0 \in 0..(3 * RepeatFactor - 1)
    BY <1>1, Addresses
  <2>2. Phase(0, regs)
    BY DEF Phase
  <2> QED BY <2>1, <2>2 DEF InStart
<1>7. MainInv
  BY <1>1, <1>5 DEF MainInv
<1>8. SessionInv
  BY <1>1 DEF SessionInv
<1>9. GoesOn
  BY <1>6 DEF GoesOn, InProgram
<1> QED BY <1>4, <1>7, <1>8, <1>9 DEF HartInv

\* What a step can be.
InProgramStep == ~debug_mode /\ Decodes /\ Proceeds /\ InProgram(pc', regs', mem'[Word])
InSessionStep == debug_mode /\ Decodes /\ Keeps /\ Reports /\ \E o \in Offsets : GoesTo(o)
LastStep      == debug_mode /\ Decodes /\ Dret /\ regs = entry.regs /\ whereto
                   /\ report = "resuming"

LEMMA WhatAStepIs ==
    ASSUME HartInv, Next
    PROVE  \/ InProgramStep \/ InSessionStep \/ LastStep \/ TakeRequest \/ EnterDebug
           \/ Request \/ Release(FLAGgo) \/ Release(FLAGresume)
<1> USE DEF HartInv
<1>1. ASSUME HartStep, Decodes, ~debug_mode PROVE InProgramStep
  <2>1. pc # 0
    BY <1>1, Dispatch, NothingThere
  <2>2. InProgram(pc, regs, mem[Word])
    BY <1>1, <2>1 DEF GoesOn
  <2> QED BY <1>1, <2>2, ProgramStep DEF InProgramStep
<1>2. ASSUME HartStep, Decodes, debug_mode PROVE InSessionStep \/ LastStep
  <2>1. pc # AsInstantiated.halt
    BY <1>2, Dispatch, NothingThere
  <2>2. InSession
    BY <1>2 DEF SessionInv
  <2>3. PICK o \in Offsets : pc = DebugProgramAt + o /\ SessionAt(o) /\ ReportAt(o)
    BY <2>1, <2>2 DEF InSession
  <2>4. \A r \in 0..31 \ {s0, a0} : regs[r] = entry.regs[r]
    BY <2>2 DEF InSession
  <2>5. Here(o)
    BY <1>2, <2>3 DEF Here
  <2>6. CASE o = \h78
    BY <1>2, <2>4, <2>5, <2>6, StepDret DEF LastStep
  <2>7. CASE o # \h78
    BY <1>2, <2>5, <2>7, SessionStep DEF InSessionStep
  <2> QED BY <2>6, <2>7
<1>3. HartStep => Decodes \/ TakeRequest \/ EnterDebug
  BY DEF HartStep, Compute, Load, Store, Jump, ReadCsr, WriteCsr, Dret, Runs
<1> QED BY <1>1, <1>2, <1>3 DEF Next

\* The same place, said of the values after a step and after the step.
LEMMA Running ==
    ASSUME InProgram(pc', regs', mem'[Word])
    PROVE  InProgram(pc, regs, mem[Word])'
<1>1. InStart(pc', regs') => InStart(pc, regs)'
  BY DEF InStart, Phase
<1>2. InOnes(pc', regs') => InOnes(pc, regs)'
  BY DEF InOnes
<1>3. InArguments(pc', regs') => InArguments(pc, regs)'
  BY DEF InArguments
<1>4. InStores(pc', regs', mem'[Word]) => InStores(pc, regs, mem[Word])'
  BY DEF InStores, Phase
<1>5. InExit(pc', regs', mem'[Word]) => InExit(pc, regs, mem[Word])'
  BY DEF InExit
<1> QED BY <1>1, <1>2, <1>3, <1>4, <1>5 DEF InProgram

LEMMA Interrupted ==
    ASSUME InProgram(entry'.pc, entry'.regs, mem'[Word])
    PROVE  InProgram(entry.pc, entry.regs, mem[Word])'
<1>1. InStart(entry'.pc, entry'.regs) => InStart(entry.pc, entry.regs)'
  BY DEF InStart, Phase
<1>2. InOnes(entry'.pc, entry'.regs) => InOnes(entry.pc, entry.regs)'
  BY DEF InOnes
<1>3. InArguments(entry'.pc, entry'.regs) => InArguments(entry.pc, entry.regs)'
  BY DEF InArguments
<1>4. InStores(entry'.pc, entry'.regs, mem'[Word]) => InStores(entry.pc, entry.regs, mem[Word])'
  BY DEF InStores, Phase
<1>5. InExit(entry'.pc, entry'.regs, mem'[Word]) => InExit(entry.pc, entry.regs, mem[Word])'
  BY DEF InExit
<1> QED BY <1>1, <1>2, <1>3, <1>4, <1>5 DEF InProgram

LEMMA InProgramKeeps == HartInv /\ InProgramStep => HartInv'
<1> SUFFICES ASSUME HartInv, InProgramStep PROVE HartInv'
  OBVIOUS
<1>1. HartTypes /\ MainInv /\ SessionInv
  BY DEF HartInv
<1>2. /\ ~debug_mode /\ ctrl = "DECODE" /\ Proceeds /\ InProgram(pc', regs', mem'[Word])
      /\ UNCHANGED <<core, debug_mode, ctrl, dpc, entry, whereto, debug_req_i, main>>
      /\ UNCHANGED <<dscratch, report>>
  BY DEF InProgramStep, Decodes, Proceeds, SameMode
<1>3. mem'[FlagBase + core.mhartid] = mem[FlagBase + core.mhartid]
  BY <1>1, <1>2, Ranges DEF Proceeds
<1>4. HartTypes'
  BY <1>1, <1>2 DEF HartTypes, Proceeds
<1>5. MainInv'
  BY <1>1, <1>2, <1>3 DEF MainInv
<1>6. SessionInv'
  BY <1>1, <1>2 DEF SessionInv
<1>7. GoesOn'
  <2>1. InProgram(pc, regs, mem[Word])'
    BY <1>2, Running
  <2> QED BY <2>1 DEF GoesOn
<1> QED BY <1>4, <1>5, <1>6, <1>7 DEF HartInv

LEMMA InSessionKeeps == HartInv /\ InSessionStep => HartInv'
<1> SUFFICES ASSUME HartInv, InSessionStep PROVE HartInv'
  OBVIOUS
<1>1. HartTypes /\ MainInv /\ SessionInv
  BY DEF HartInv
<1>2. /\ debug_mode /\ ctrl = "DECODE" /\ Keeps
      /\ UNCHANGED <<core, debug_mode, ctrl, dpc, entry, whereto, debug_req_i, main>>
  BY DEF InSessionStep, Decodes, Keeps, SameMode
<1>3. PICK o \in Offsets : GoesTo(o)
  BY DEF InSessionStep
<1>4. pc' = DebugProgramAt + o /\ SessionAt(o)' /\ ReportAt(o)'
  BY <1>3 DEF GoesTo
<1>5. HartTypes'
  <2>1. pc' \in Int
    BY <1>4, Numbers DEF Offsets
  <2> QED BY <1>1, <1>2, <2>1 DEF HartTypes, Keeps
<1>6. MainInv'
  BY <1>1, <1>2 DEF MainInv, Keeps
<1>7. /\ InSession /\ dpc = (IF entry.saved THEN entry.pc ELSE 0)
      /\ InProgram(entry.pc, entry.regs, mem[Word])
  BY <1>1, <1>2 DEF SessionInv
<1>8. InSession'
  <2>1. \A r \in 0..31 \ {s0, a0} : regs'[r] = entry'.regs[r]
    BY <1>2, <1>7 DEF InSession, Keeps
  <2> QED BY <1>2, <1>4, <1>7, <2>1 DEF InSession
<1>9. InProgram(entry.pc, entry.regs, mem[Word])'
  <2>1. entry' = entry /\ mem'[Word] = mem[Word]
    BY <1>2 DEF Keeps
  <2>2. InProgram(entry'.pc, entry'.regs, mem'[Word])
    BY <1>7, <2>1
  <2> QED BY <2>2, Interrupted
<1>10. SessionInv'
  BY <1>2, <1>7, <1>8, <1>9 DEF SessionInv
<1>11. GoesOn'
  BY <1>2 DEF GoesOn
<1> QED BY <1>5, <1>6, <1>10, <1>11 DEF HartInv

LEMMA LastKeeps == HartInv /\ LastStep => HartInv'
<1> SUFFICES ASSUME HartInv, LastStep PROVE HartInv'
  OBVIOUS
<1>1. HartTypes /\ MainInv /\ SessionInv
  BY DEF HartInv
<1>2. /\ debug_mode /\ ctrl = "DECODE" /\ regs = entry.regs /\ whereto /\ report = "resuming"
      /\ pc' = dpc /\ debug_mode' = FALSE
      /\ UNCHANGED <<core, regs, mem, dpc, dscratch, ctrl, entry, report,
                     whereto, debug_req_i, main>>
  BY DEF LastStep, Decodes, Dret
<1>3. main = "flagged"
  BY <1>1, <1>2 DEF MainInv
<1>4. dpc = (IF entry.saved THEN entry.pc ELSE 0) /\ InProgram(entry.pc, entry.regs, mem[Word])
  BY <1>1, <1>2 DEF SessionInv
<1>5. HartTypes'
  BY <1>1, <1>2 DEF HartTypes
<1>6. MainInv'
  BY <1>1, <1>2 DEF MainInv
<1>7. SessionInv'
  BY <1>2, <1>3 DEF SessionInv
<1>8. GoesOn'
  <2>1. CASE entry.saved
    <3>1. InProgram(pc', regs', mem'[Word])
      BY <1>2, <1>4, <2>1
    <3>2. InProgram(pc, regs, mem[Word])'
      BY <3>1, Running
    <3> QED BY <3>2 DEF GoesOn
  <2>2. CASE ~entry.saved
    BY <1>2, <1>3, <1>4, <2>2 DEF GoesOn
  <2> QED BY <2>1, <2>2
<1> QED BY <1>5, <1>6, <1>7, <1>8 DEF HartInv

LEMMA TakeRequestKeeps == HartInv /\ TakeRequest => HartInv'
<1> SUFFICES ASSUME HartInv, TakeRequest PROVE HartInv'
  OBVIOUS
<1>1. HartTypes /\ MainInv /\ SessionInv /\ GoesOn
  BY DEF HartInv
<1>2. /\ debug_req_i = 1 /\ ~debug_mode /\ ctrl' = "DBG_TAKEN"
      /\ UNCHANGED <<core, pc, regs, mem, dpc, dscratch, debug_mode, entry, report,
                     whereto, debug_req_i, main>>
  BY DEF TakeRequest
<1>3. main = "requested"
  BY <1>1, <1>2 DEF MainInv
<1>4. HartTypes'
  BY <1>1, <1>2 DEF HartTypes
<1>5. MainInv'
  BY <1>1, <1>2 DEF MainInv
<1>6. SessionInv'
  BY <1>1, <1>2, <1>3 DEF SessionInv
<1>7. InProgram(pc, regs, mem[Word])
  BY <1>1, <1>2, <1>3 DEF GoesOn
<1>8. GoesOn'
  <2>1. InProgram(pc', regs', mem'[Word])
    BY <1>2, <1>7
  <2>2. InProgram(pc, regs, mem[Word])'
    BY <2>1, Running
  <2> QED BY <2>2 DEF GoesOn
<1> QED BY <1>4, <1>5, <1>6, <1>8 DEF HartInv

LEMMA EnterDebugKeeps == HartInv /\ EnterDebug => HartInv'
<1> SUFFICES ASSUME HartInv, EnterDebug PROVE HartInv'
  OBVIOUS
<1>1. HartTypes /\ MainInv /\ SessionInv /\ GoesOn
  BY DEF HartInv
<1>2. /\ ctrl = "DBG_TAKEN" /\ ctrl' = "DECODE" /\ debug_mode' = TRUE /\ pc' = core.halt
      /\ dpc' = (IF debug_req_i = 1 THEN pc ELSE dpc)
      /\ entry' = [pc |-> pc, regs |-> regs, saved |-> debug_req_i = 1]
      /\ UNCHANGED <<core, regs, mem, dscratch, report, whereto, debug_req_i, main>>
  BY DEF EnterDebug
<1>3. ~debug_mode /\ main # "running" /\ report = "none" /\ dpc = 0
  BY <1>1, <1>2 DEF SessionInv
<1>4. InProgram(pc, regs, mem[Word])
  BY <1>1, <1>2, <1>3 DEF GoesOn
<1>5. entry'.pc = pc /\ entry'.regs = regs /\ entry'.saved = (debug_req_i = 1)
  BY <1>2
<1>6. entry' \in [pc : Int, regs : [0..31 -> Int], saved : BOOLEAN]
  BY <1>1, <1>2 DEF HartTypes
<1>7. core.halt \in {67584, 657408}
  BY <1>1, Ranges, Numbers DEF AsInstantiated, AsAddressed
<1>8. HartTypes'
  <2>1. pc' \in Int /\ dpc' \in Int
    BY <1>1, <1>2, <1>7 DEF HartTypes
  <2> QED BY <1>1, <1>2, <1>5, <1>6, <2>1 DEF HartTypes
<1>9. MainInv'
  BY <1>1, <1>2 DEF MainInv
<1>10. InSession'
  <2>1. \A r \in 0..31 \ {s0, a0} : regs'[r] = entry'.regs[r]
    BY <1>2, <1>5
  <2>2. CASE core.halt = 67584
    BY <1>2, <1>3, <2>1, <2>2 DEF InSession, AsInstantiated
  <2>3. CASE core.halt = 657408
    <3>1. pc' = DebugProgramAt + \h00 /\ \h00 \in Offsets
      BY <1>2, <2>3, Numbers DEF Offsets
    <3>2. SessionAt(\h00)'
      BY <1>2, <1>5, Numbers DEF SessionAt
    <3>3. ReportAt(\h00)'
      BY <1>2, <1>3, Numbers DEF ReportAt
    <3> QED BY <1>2, <1>3, <2>1, <3>1, <3>2, <3>3 DEF InSession
  <2> QED BY <1>7, <2>2, <2>3
<1>11. InProgram(entry.pc, entry.regs, mem[Word])'
  <2>1. InProgram(entry'.pc, entry'.regs, mem'[Word])
    BY <1>2, <1>4, <1>5
  <2> QED BY <2>1, Interrupted
<1>12. dpc' = (IF entry'.saved THEN entry'.pc ELSE 0)
  BY <1>2, <1>3, <1>5
<1>13. SessionInv'
  BY <1>2, <1>10, <1>11, <1>12 DEF SessionInv
<1>14. GoesOn'
  BY <1>2 DEF GoesOn
<1> QED BY <1>8, <1>9, <1>13, <1>14 DEF HartInv

\* A step that leaves the hart alone leaves its place in the program and in
\* the session alone.
LEMMA PlacesKept ==
    ASSUME UNCHANGED <<core, pc, regs, dscratch, entry, report>>, mem'[Word] = mem[Word],
           whereto => whereto'
    PROVE  /\ InProgram(pc, regs, mem[Word]) => InProgram(pc, regs, mem[Word])'
           /\ InProgram(entry.pc, entry.regs, mem[Word])
                => InProgram(entry.pc, entry.regs, mem[Word])'
           /\ \A o \in Offsets : SessionAt(o) /\ ReportAt(o) => SessionAt(o)' /\ ReportAt(o)'
<1>1. InProgram(pc, regs, mem[Word]) => InProgram(pc, regs, mem[Word])'
  <2>1. SUFFICES ASSUME InProgram(pc, regs, mem[Word])
                 PROVE  InProgram(pc, regs, mem[Word])'
    OBVIOUS
  <2>2. InProgram(pc', regs', mem'[Word])
    BY <2>1
  <2> QED BY <2>2, Running
<1>2. InProgram(entry.pc, entry.regs, mem[Word])
        => InProgram(entry.pc, entry.regs, mem[Word])'
  <2>1. SUFFICES ASSUME InProgram(entry.pc, entry.regs, mem[Word])
                 PROVE  InProgram(entry.pc, entry.regs, mem[Word])'
    OBVIOUS
  <2>2. InProgram(entry'.pc, entry'.regs, mem'[Word])
    BY <2>1
  <2> QED BY <2>2, Interrupted
<1>3. ASSUME NEW o \in Offsets, SessionAt(o), ReportAt(o)
      PROVE  SessionAt(o)' /\ ReportAt(o)'
  BY <1>3 DEF SessionAt, ReportAt
<1> QED BY <1>1, <1>2, <1>3

LEMMA RequestKeeps == HartInv /\ Request => HartInv'
<1> SUFFICES ASSUME HartInv, Request PROVE HartInv'
  OBVIOUS
<1>1. HartTypes /\ MainInv /\ SessionInv /\ GoesOn
  BY DEF HartInv
<1>2. /\ main = "running" /\ main' = "requested" /\ debug_req_i' = 1
      /\ UNCHANGED <<core, pc, regs, mem, dpc, dscratch, debug_mode, ctrl, entry, report,
                     whereto>>
  BY DEF Request, hart
<1>3. ~debug_mode
  BY <1>1, <1>2 DEF SessionInv, InSession
<1>4. HartTypes'
  BY <1>1, <1>2 DEF HartTypes
<1>5. MainInv'
  BY <1>1, <1>2 DEF MainInv
<1>6. SessionInv'
  BY <1>1, <1>2, <1>3 DEF SessionInv
<1>7. InProgram(pc, regs, mem[Word])
  BY <1>1, <1>2, <1>3 DEF GoesOn
<1>8. GoesOn'
  BY <1>2, <1>7, PlacesKept DEF GoesOn
<1> QED BY <1>4, <1>5, <1>6, <1>8 DEF HartInv

LEMMA ReleaseKeeps ==
    ASSUME HartInv, NEW debugFLAG \in {FLAGgo, FLAGresume}, Release(debugFLAG)
    PROVE  HartInv'
<1>1. HartTypes /\ MainInv /\ SessionInv /\ GoesOn
  BY DEF HartInv
<1>2. /\ main = "requested" /\ main' = "flagged" /\ debug_req_i' = 0
      /\ mem' = [mem EXCEPT ![FlagBase + FlaggedHart] = debugFLAG]
      /\ whereto' = TRUE
      /\ UNCHANGED <<core, pc, regs, dpc, dscratch, debug_mode, ctrl, entry, report>>
  BY DEF Release
<1>3. debugFLAG \in {1, 2} /\ FlagBase + FlaggedHart \in Data /\ mem \in [Data -> Int]
  BY <1>1 DEF FLAGgo, FLAGresume, Data, HartTypes
<1>4. /\ mem' \in [Data -> Int] /\ mem'[FlagBase + FlaggedHart] = debugFLAG
      /\ \A d \in Data : d # FlagBase + FlaggedHart => mem'[d] = mem[d]
  BY <1>2, <1>3
<1>5. mem'[Word] = mem[Word]
  <2>1. Word # FlagBase + FlaggedHart
    BY Numbers DEF FlaggedHart
  <2> QED BY <1>1, <1>4, <2>1, Ranges
<1>6. mem'[FlagBase + core.mhartid] \in {0, 1, 2}
  BY <1>1, <1>3, <1>4, Ranges DEF MainInv
<1>7. HartTypes'
  BY <1>1, <1>2, <1>4 DEF HartTypes
<1>8. MainInv'
  BY <1>2, <1>6 DEF MainInv
<1>9. ASSUME debug_mode PROVE InSession' /\ InProgram(entry.pc, entry.regs, mem[Word])'
  <2>1. InSession /\ InProgram(entry.pc, entry.regs, mem[Word])
    BY <1>1, <1>9 DEF SessionInv
  <2>2. InProgram(entry.pc, entry.regs, mem[Word])'
    BY <1>2, <1>5, <2>1, PlacesKept
  <2>3. ctrl' = "DECODE" /\ main' # "running" /\ \A r \in 0..31 \ {s0, a0} : regs'[r] = entry'.regs[r]
    BY <1>2, <2>1 DEF InSession
  <2>4. CASE pc = AsInstantiated.halt /\ report = "none"
    BY <1>2, <2>2, <2>3, <2>4 DEF InSession, AsInstantiated
  <2>5. CASE \E o \in Offsets : pc = DebugProgramAt + o /\ SessionAt(o) /\ ReportAt(o)
    <3>1. PICK o \in Offsets : pc = DebugProgramAt + o /\ SessionAt(o) /\ ReportAt(o)
      BY <2>5
    <3>2. pc' = DebugProgramAt + o /\ SessionAt(o)' /\ ReportAt(o)'
      BY <1>2, <1>5, <3>1, PlacesKept
    <3> QED BY <2>3, <3>2, <2>2 DEF InSession
  <2> QED BY <2>1, <2>2, <2>4, <2>5 DEF InSession
<1>10. SessionInv'
  BY <1>1, <1>2, <1>9 DEF SessionInv
<1>11. GoesOn'
  <2>1. ~debug_mode => InProgram(pc, regs, mem[Word])
    BY <1>1, <1>2 DEF GoesOn
  <2> QED BY <1>2, <1>5, <2>1, PlacesKept DEF GoesOn
<1> QED BY <1>7, <1>8, <1>10, <1>11 DEF HartInv

LEMMA StutterKeeps == HartInv /\ UNCHANGED vars => HartInv'
<1> SUFFICES ASSUME HartInv, UNCHANGED vars PROVE HartInv'
  OBVIOUS
<1>1. UNCHANGED <<core, pc, regs, mem, dpc, dscratch, debug_mode, ctrl, entry, report,
                  whereto, debug_req_i, main>>
  BY DEF vars, hart
<1>2. HartTypes' /\ MainInv'
  BY <1>1 DEF HartInv, HartTypes, MainInv
<1>3. InSession <=> InSession'
  BY <1>1 DEF InSession, SessionAt, ReportAt
<1>4. /\ InProgram(pc, regs, mem[Word]) => InProgram(pc, regs, mem[Word])'
      /\ InProgram(entry.pc, entry.regs, mem[Word])
                => InProgram(entry.pc, entry.regs, mem[Word])'
  BY <1>1, PlacesKept
<1>5. SessionInv'
  BY <1>1, <1>3, <1>4 DEF HartInv, SessionInv
<1>6. GoesOn'
  BY <1>1, <1>4 DEF HartInv, GoesOn
<1> QED BY <1>2, <1>5, <1>6 DEF HartInv

LEMMA HartNext == HartInv /\ [Next]_vars => HartInv'
<1> SUFFICES ASSUME HartInv, [Next]_vars PROVE HartInv'
  OBVIOUS
<1>1. CASE Next
  BY <1>1, WhatAStepIs, InProgramKeeps, InSessionKeeps, LastKeeps, TakeRequestKeeps,
     EnterDebugKeeps, RequestKeeps, ReleaseKeeps
<1>2. CASE UNCHANGED vars
  BY <1>2, StutterKeeps
<1> QED BY <1>1, <1>2

-----------------------------------------------------------------------------
(* What follows from the invariant. *)

LEMMA EndReached == HartInv => ResultsAtEnd
<1> SUFFICES ASSUME HartInv, pc = AtExit + 16
             PROVE  /\ \A r \in 0..31 \ Used : regs[r] = -1
                    /\ \A r \in {0, a1, a2, a3} : regs[r] = 0
                    /\ regs[a4] = 102 /\ regs[a5] = Word /\ regs[a7] = 93
                    /\ mem[Word] = 102
  BY DEF ResultsAtEnd
<1>1. HartTypes /\ SessionInv /\ GoesOn
  BY DEF HartInv
<1>2. /\ RepeatFactor \in Nat \ {0} /\ StartProgram = 128
      /\ AtOnes = 128 + 12 * RepeatFactor /\ AtExitArguments = AtOnes + 124
      /\ AtStores = AtExitArguments + 16 /\ AtExit = AtStores + 12 * RepeatFactor
      /\ AtExit + 20 <= 67584
  BY Addresses
<1>3. pc # 0 /\ pc < 67584
  BY <1>2
<1>4. ~debug_mode
  <2>1. SUFFICES ASSUME debug_mode PROVE FALSE
    OBVIOUS
  <2>2. InSession
    BY <1>1, <2>1 DEF SessionInv
  <2>3. CASE pc = AsInstantiated.halt
    BY <1>3, <2>3 DEF AsInstantiated
  <2>4. CASE \E o \in Offsets : pc = DebugProgramAt + o
    BY <1>3, <2>4, Numbers DEF Offsets
  <2> QED BY <2>2, <2>3, <2>4 DEF InSession
<1>5. InProgram(pc, regs, mem[Word])
  BY <1>1, <1>3, <1>4 DEF GoesOn
<1>6. ~InStart(pc, regs)
  BY <1>2 DEF InStart
<1>7. ~InOnes(pc, regs)
  BY <1>2 DEF InOnes
<1>8. ~InArguments(pc, regs)
  BY <1>2 DEF InArguments
<1>9. ~InStores(pc, regs, mem[Word])
  BY <1>2 DEF InStores
<1>10. InExit(pc, regs, mem[Word])
  BY <1>5, <1>6, <1>7, <1>8, <1>9 DEF InProgram
<1>11. PICK k \in 0..4 :
         /\ pc = AtExit + 4 * k
         /\ \A r \in 1..31 \ Used : regs[r] = -1
         /\ regs[a4] = 102 /\ regs[a5] = Word /\ mem[Word] = 102
         /\ k >= 1 => regs[a1] = 0
         /\ k >= 2 => regs[a2] = 0
         /\ k >= 3 => regs[a3] = 0
         /\ k >= 4 => regs[a7] = 93
  BY <1>10 DEF InExit
<1>12. k = 4
  BY <1>2, <1>11
<1>13. \A r \in 0..31 \ Used : regs[r] = -1
  BY <1>11, Names
<1>14. regs[0] = 0
  BY <1>1 DEF HartTypes
<1> QED BY <1>11, <1>12, <1>13, <1>14

LEMMA LeavesDebug ==
    ASSUME HartInv, [Next]_vars, debug_mode, ~debug_mode'
    PROVE  LastStep
<1>1. ASSUME UNCHANGED vars PROVE debug_mode' = debug_mode
  BY <1>1 DEF vars, hart
<1>2. InSessionStep => debug_mode' = debug_mode
  BY DEF InSessionStep, Keeps, SameMode
<1>3. TakeRequest \/ Request => debug_mode' = debug_mode
  BY DEF TakeRequest, Request, hart
<1>4. Release(FLAGgo) \/ Release(FLAGresume) => debug_mode' = debug_mode
  BY DEF Release
<1>5. ~InProgramStep /\ (EnterDebug => debug_mode' = TRUE)
  BY DEF InProgramStep, EnterDebug
<1> QED BY <1>1, <1>2, <1>3, <1>4, <1>5, WhatAStepIs, Zenon

LEMMA GoesOnAsInterrupted ==
    HartInv /\ [Next]_vars =>
        [debug_mode /\ ~debug_mode' /\ entry.saved =>
             /\ pc' = entry.pc /\ regs' = entry.regs
             /\ UNCHANGED mem]_vars
<1> SUFFICES ASSUME HartInv, [Next]_vars, debug_mode, ~debug_mode', entry.saved
             PROVE  pc' = entry.pc /\ regs' = entry.regs /\ UNCHANGED mem
  OBVIOUS
<1>1. LastStep
  BY LeavesDebug
<1>2. dpc = entry.pc
  BY DEF HartInv, SessionInv
<1> QED BY <1>1, <1>2 DEF LastStep, Dret

LEMMA ReportsFollow ==
    HartInv /\ [Next]_vars =>
      [/\ report' # report =>
             /\ debug_mode
             /\ <<report, report'>> \in {<<"none", "halted">>, <<"halted", "going">>,
                                         <<"halted", "resuming">>, <<"going", "resuming">>}
             /\ report' = "halted" => mem'[HALTED] = core.mhartid
             /\ report' = "resuming" => mem'[RESUMING] = core.mhartid
       /\ debug_mode /\ ~debug_mode' => report = "resuming"]_vars
<1> SUFFICES ASSUME HartInv, [Next]_vars
             PROVE  /\ report' # report => debug_mode /\ Reports
                    /\ debug_mode /\ ~debug_mode' => report = "resuming"
  BY DEF Reports
<1>1. debug_mode /\ ~debug_mode' => report = "resuming"
  BY LeavesDebug DEF LastStep
<1>2. ASSUME report' # report PROVE debug_mode /\ Reports
  <2>1. ~UNCHANGED vars
    BY <1>2 DEF vars, hart
  <2>2. ~InProgramStep
    BY <1>2 DEF InProgramStep, Proceeds
  <2>3. ~LastStep
    BY <1>2 DEF LastStep, Dret
  <2>4. ~TakeRequest /\ ~EnterDebug /\ ~Request /\ ~Release(FLAGgo) /\ ~Release(FLAGresume)
    BY <1>2 DEF TakeRequest, EnterDebug, Request, Release, hart
  <2>5. InSessionStep
    BY <2>1, <2>2, <2>3, <2>4, WhatAStepIs
  <2> QED BY <2>5 DEF InSessionStep
<1> QED BY <1>1, <1>2

(***************************************************************************)
(* Wherever the hart is, in the program or in the debug program, it holds   *)
(* what is to be held there, for every number of repetitions and every core *)
(* (testbench.cpp, loadProgram, loadDebugProgram and main).                 *)
(***************************************************************************)
THEOREM HartAlways == Spec => []HartInv
<1> QED BY HartStarts, HartNext, PTL DEF Spec

(***************************************************************************)
(* A debug session in the middle of the program does not change what the    *)
(* program does: its results are those of loadProgram's list, and it goes   *)
(* on, if its address was saved, with what it was interrupted with.         *)
(***************************************************************************)
THEOREM UndisturbedAlways == Spec => ProgramUndisturbed
<1> QED BY HartStarts, HartNext, EndReached, GoesOnAsInterrupted, PTL
        DEF Spec, ProgramUndisturbed

(***************************************************************************)
(* The debug program reports that the hart has halted, goes and resumes in  *)
(* that order, and no session ends before the last (loadDebugProgram).      *)
(***************************************************************************)
THEOREM ReportsAlways == Spec => ReportsInOrder
<1> QED BY HartStarts, HartNext, ReportsFollow, PTL DEF Spec, ReportsInOrder

-----------------------------------------------------------------------------
(***************************************************************************)
(* The reset that VerilatorSimCtrl drives, for every delay and duration.    *)
(***************************************************************************)
\* The settings do not change; the clock is high in the odd half clocks; the
\* reset is not set before its time, once Run has unset it.
ResetInv ==
    /\ initial_reset_delay_cycles_ \in Delays /\ reset_duration_cycles_ \in Durations
    /\ ResetPolarityNegative \in BOOLEAN
    /\ time_ \in 0..MaxTime /\ sig_clk_ \in {0, 1} /\ sig_rst_ \in {0, 1}
    /\ time_ < MaxTime => sig_clk_ = time_ % 2
    /\ at \in {"parse", "start", "returned"} \/ time_ >= 2 * initial_reset_delay_cycles_
         \/ sig_rst_ = UnsetReset
    /\ ResetAsAsked

LEMMA InitReset == CtrlInit => ResetInv
<1> SUFFICES ASSUME CtrlInit PROVE ResetInv
  OBVIOUS
<1>1. EdgesSoFar = 0
  BY DEF CtrlInit, EdgesSoFar
<1>2. ResetAsAsked
  BY <1>1 DEF CtrlInit, ResetAsAsked
<1> QED
  BY <1>2, TimeAssumption DEF CtrlInit, ResetInv

\* What happens to the reset from one half clock to the next.
LEMMA CycleKeeps == ASSUME ResetInv, Cycle PROVE ResetInv'
<1> DEFINE d == initial_reset_delay_cycles_
           D == reset_duration_cycles_
           inReset(edge) == edge > d /\ edge <= d + D
<1>1. /\ d \in Nat /\ D \in Nat /\ MaxTime \in Nat /\ 2 * (d + D) < MaxTime
      /\ time_ \in 0..MaxTime /\ sig_clk_ \in {0, 1} /\ sig_rst_ \in {0, 1}
      /\ SetReset \in {0, 1} /\ UnsetReset \in {0, 1} /\ UnsetReset # SetReset
      /\ time_ < MaxTime => sig_clk_ = time_ % 2
  BY TimeAssumption DEF ResetInv, SetReset, UnsetReset
<1>2. /\ initial_reset_delay_cycles_' = d /\ reset_duration_cycles_' = D
      /\ ResetPolarityNegative' = ResetPolarityNegative
      /\ sig_rst_' = ResetLevel /\ sig_clk_' = 1 - sig_clk_ /\ at' = "announce"
      /\ time_' = IF time_ < MaxTime THEN time_ + 1 ELSE MaxTime
      /\ resetEdges' = IF sig_clk_ = 0 /\ sig_rst_' = SetReset
                       THEN resetEdges \cup {Edge} ELSE resetEdges
  BY DEF Cycle, flags
<1>3. sig_rst_' \in {0, 1} /\ UnsetReset' = UnsetReset
  BY <1>1, <1>2 DEF ResetLevel, UnsetReset, SetReset
<1>4. sig_rst_' = SetReset <=> time_ >= 2 * d /\ time_ < 2 * (d + D)
  <2>1. time_ >= 2 * d \/ sig_rst_ = UnsetReset
    BY DEF ResetInv, Cycle
  <2> QED
    BY <1>1, <1>2, <2>1 DEF ResetLevel
<1>5. resetEdges = {edge \in 1..EdgesSoFar : inReset(edge)}
  BY DEF ResetInv, ResetAsAsked
<1>6. resetEdges' = {edge \in 1..EdgesSoFar' : inReset(edge)}
  <2>1. CASE time_ < MaxTime /\ sig_clk_ = 0
    <3>1. EdgesSoFar' = Edge /\ EdgesSoFar = Edge - 1 /\ Edge \in Nat \ {0}
          /\ time_ = 2 * (Edge - 1)
      BY <1>1, <1>2, <2>1 DEF EdgesSoFar, Edge
    <3>2. sig_rst_' = SetReset <=> inReset(Edge)
      BY <1>1, <1>4, <3>1
    <3>3. resetEdges' = IF inReset(Edge) THEN resetEdges \cup {Edge} ELSE resetEdges
      BY <1>2, <2>1, <3>2
    <3> HIDE DEF inReset
    <3>4. 1..Edge = (1 .. (Edge - 1)) \cup {Edge}
      BY <3>1
    <3> QED
      BY <1>5, <3>1, <3>3, <3>4
  <2>2. CASE time_ < MaxTime /\ sig_clk_ = 1
    <3>1. EdgesSoFar' = EdgesSoFar
      BY <1>1, <1>2, <2>2 DEF EdgesSoFar
    <3> QED
      BY <1>2, <1>5, <2>2, <3>1
  <2>3. CASE time_ = MaxTime
    <3>1. EdgesSoFar' = EdgesSoFar
      BY <1>1, <1>2, <2>3 DEF EdgesSoFar
    <3>2. sig_rst_' # SetReset
      BY <1>1, <1>4, <2>3
    <3> QED
      BY <1>2, <1>5, <3>1, <3>2
  <2> QED
    BY <1>1, <2>1, <2>2, <2>3
<1>7. ResetAsAsked'
  BY <1>2, <1>6 DEF ResetAsAsked
<1>8. time_' \in 0..MaxTime /\ sig_clk_' \in {0, 1}
      /\ time_' < MaxTime => sig_clk_' = time_' % 2
  BY <1>1, <1>2
<1>9. time_' >= 2 * d \/ sig_rst_' = UnsetReset
  BY <1>1, <1>2, <1>3, <1>4
<1> QED
  BY <1>2, <1>3, <1>7, <1>8, <1>9, TimeAssumption DEF ResetInv

LEMMA StartKeeps == ASSUME ResetInv, Start PROVE ResetInv'
BY DEF ResetInv, ResetAsAsked, EdgesSoFar, UnsetReset, SetReset, Start, flags

\* No other step touches clock and reset, or comes back before Start.
LEMMA OthersKeep ==
    ASSUME ResetInv,
           UNCHANGED flags, UNCHANGED design,
           at' \notin {"parse", "start", "returned"} => at \notin {"parse", "start", "returned"}
    PROVE  ResetInv'
BY DEF ResetInv, ResetAsAsked, EdgesSoFar, UnsetReset, SetReset, flags, design

LEMMA StepReset == ResetInv /\ [CtrlNext]_ctrlVars => ResetInv'
<1> SUFFICES ASSUME ResetInv, [CtrlNext]_ctrlVars PROVE ResetInv'
  OBVIOUS
<1>1. CASE ParseCommandArgs
  BY <1>1, OthersKeep DEF ParseCommandArgs, MemoryOption, TraceOption, TermOption,
                          OtherOption, Returns
<1>2. CASE InitMemory("ram")
  BY <1>2, OthersKeep DEF InitMemory
<1>3. CASE Start
  BY <1>3, StartKeeps
<1>4. CASE Cycle
  BY <1>4, CycleKeeps
<1>5. CASE Announce \/ Announced \/ Trace
  BY <1>5, OthersKeep DEF Announce, Announced, Trace, TraceLeaves
<1>6. CASE Stop
  BY <1>6, OthersKeep DEF Stop
<1>7. CASE Close
  BY <1>7, OthersKeep DEF Close, Returns
<1>8. CASE SignalHandler
  BY <1>8, OthersKeep DEF SignalHandler
<1>9. CASE UNCHANGED ctrlVars
  BY <1>9, OthersKeep DEF ctrlVars
<1> QED
  BY <1>1, <1>2, <1>3, <1>4, <1>5, <1>6, <1>7, <1>8, <1>9 DEF CtrlNext, Main

(***************************************************************************)
(* The design is reset for as many clocks as SetResetDuration promises, in  *)
(* a row, after as many as SetInitialResetDelay promises, for every value   *)
(* of the two, either polarity and any signals (verilator_sim_ctrl.cc,      *)
(* Run).                                                                    *)
(***************************************************************************)
THEOREM ResetIsAsAsked == CtrlSpec => []ResetAsAsked
<1>1. ResetInv => ResetAsAsked
  BY DEF ResetInv
<1> QED
  BY InitReset, StepReset, <1>1, PTL DEF CtrlSpec
=============================================================================
