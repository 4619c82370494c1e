------------------------------ MODULE DebugHart ------------------------------
(***************************************************************************)
(* The test bench of the RI5CY core's Verilator model,                      *)
(* ips/riscv/tb/verilator-model/testbench.cpp: the program it writes to the *)
(* memory, the debug program it writes beside it, and main, which halts the *)
(* core in the middle of the one and has the other send it on.              *)
(*                                                                         *)
(* Instructions are records and memory words are integers; registers that   *)
(* hold 0xffffffff hold -1.  An instruction is one step, and the number of  *)
(* clocks main lets pass between two of its steps is left open.             *)
(***************************************************************************)
EXTENDS Integers, Sequences

CONSTANTS
    RepeatFactor,   \* repeat_factor: how often the program stores its word
    Cores           \* cores to be run, by their number and their halt address

\* Addresses, testbench.cpp's defines
StartProgram == \h80
Base         == \hA0000
DebugProgramAt == Base + \h800
FlagBase     == Base + \h400
Whereto      == Base + \h300
HALTED       == Base + \h100
GOING        == Base + \h104
RESUMING     == Base + \h108
Word         == 64           \* where the program stores

FLAGgo     == 1
FLAGresume == 2
FlaggedHart == \h3e0         \* the hart main names

s0 == 8  a0 == 10  a1 == 11  a2 == 12  a3 == 13  a4 == 14  a5 == 15  a7 == 17

\* The core as top.sv has it (cluster and core 0, the halt address left at its
\* default 0x1A110800, of which the memory decodes 20 bits), and the core
\* whose flag and whose halt address the test bench writes.
AsInstantiated == [mhartid |-> 0, halt |-> \h10800]
AsAddressed    == [mhartid |-> FlaggedHart, halt |-> DebugProgramAt]
CoreVariants   == {AsInstantiated, AsAddressed, [AsAddressed EXCEPT !.mhartid = 0]}

\* The flags, a byte for each core, end where the debug program starts.
ASSUME CoresAssumption ==
    Cores \subseteq [mhartid : 0..(DebugProgramAt - FlagBase - 1),
                    halt    : {AsInstantiated.halt, AsAddressed.halt}]

-----------------------------------------------------------------------------
(* Instructions and memory images *)

Addi(rd, rs, imm) == [op |-> "addi", rd |-> rd, rs |-> rs, imm |-> imm]
Andi(rd, rs, imm) == [op |-> "andi", rd |-> rd, rs |-> rs, imm |-> imm]
Add(rd, rs, rt)   == [op |-> "add", rd |-> rd, rs |-> rs, rt |-> rt]
Lui(rd, value)    == [op |-> "lui", rd |-> rd, imm |-> value]
Lbu(rd, rs, imm)  == [op |-> "lbu", rd |-> rd, rs |-> rs, imm |-> imm]
Sw(rt, rs, imm)   == [op |-> "sw", rt |-> rt, rs |-> rs, imm |-> imm]
Bnez(rs, imm)     == [op |-> "bnez", rs |-> rs, imm |-> imm]
J(imm)            == [op |-> "jal", imm |-> imm]
Csrr(rd, csr)     == [op |-> "csrr", rd |-> rd, csr |-> csr]
Csrw(csr, rs)     == [op |-> "csrw", rs |-> rs, csr |-> csr]
Op(op)            == [op |-> op]

\* A list of instructions written from address first on.
Code(first, list) == [a \in {first + 4 * (i - 1) : i \in DOMAIN list} |->
                        list[((a - first) \div 4) + 1]]

\* What is written later covers what was there.
Over(later, there) == [a \in DOMAIN later \cup DOMAIN there |->
                         IF a \in DOMAIN later THEN later[a] ELSE there[a]]

-----------------------------------------------------------------------------
(* loadProgram: store the word again and again, fill the registers, load    *)
(* the arguments of exit, store the word again and again, exit.             *)

StoreWord == <<Addi(a5, 0, Word), Addi(a4, 0, 102), Sw(a4, a5, 0)>>
Stores    == [i \in 1..3 * RepeatFactor |-> StoreWord[((i - 1) % 3) + 1]]
AllOnes   == [r \in 1..31 |-> Addi(r, 0, -1)]
ExitArguments == <<Addi(a1, 0, 0), Addi(a2, 0, 0), Addi(a3, 0, 0), Addi(a7, 0, 93)>>
Exit      == ExitArguments \o <<Op("ecall")>>

AtOnes   == StartProgram + RepeatFactor * 12
AtExitArguments == AtOnes + 124
AtStores == AtExitArguments + 16
AtExit   == AtStores + RepeatFactor * 12

Program == Over(Code(AtExit, Exit),
             Over(Code(AtStores, Stores),
               Over(Code(AtExitArguments, ExitArguments),
                 Over(Code(AtOnes, AllOnes), Code(StartProgram, Stores)))))

\* The test bench's 20 repetitions leave the program far below the address
\* where a core that nobody told of the debug program goes when it is halted.
ASSUME ProgramAssumption ==
    RepeatFactor \in Nat \ {0} /\ AtExit + 20 <= AsInstantiated.halt

-----------------------------------------------------------------------------
(* loadDebugProgram.  The halt and exception entries come first; the part   *)
(* at 0x4c, for an exception in debug mode, is not reached here.            *)

\* faulty: a0 is not put aside
EnterKeepingA0 == <<Addi(0, 0, 0), Csrw("dscratch0", s0), Addi(0, 0, 0)>>
\* faulty: the loop is closed behind the reading of mhartid
WaitWithStaleHart == <<Csrr(s0, "mhartid"), Lui(a0, Base), Sw(s0, a0, HALTED - Base),
                       Add(s0, s0, a0), Lbu(s0, s0, FlagBase - Base), Andi(s0, s0, FLAGgo),
                       Bnez(s0, \h24), Csrr(s0, "mhartid"), Add(s0, s0, a0),
                       Lbu(s0, s0, FlagBase - Base), Andi(s0, s0, FLAGresume),
                       Bnez(s0, -\h40), J(-\h2c)>>
\* faulty: mhartid is taken to be still in s0
ResumeWithStaleHart == <<Addi(0, 0, 0), Lui(a0, Base), Sw(s0, a0, RESUMING - Base),
                         Csrr(s0, "dscratch0"), Csrr(a0, "dscratch1"), Op("dret")>>

Entries  == <<J(\h0c), J(\h60), J(\h44)>>
Enter    == <<Addi(0, 0, 0), Csrw("dscratch0", s0), Csrw("dscratch1", a0)>>
Report(where) == <<Csrr(s0, "mhartid"), Lui(a0, Base), Sw(s0, a0, where - Base)>>
Flag(bit) == <<Add(s0, s0, a0), Lbu(s0, s0, FlagBase - Base), Andi(s0, s0, bit)>>
Wait     == Report(HALTED) \o Flag(FLAGgo) \o <<Bnez(s0, \h24)>>
              \o <<Csrr(s0, "mhartid")>> \o Flag(FLAGresume)
              \o <<Bnez(s0, -\h40), J(-\h30)>>
Exception == <<Sw(0, a0, \h10c), Op("ebreak")>>
Going    == <<Csrr(s0, "dscratch0"), Sw(0, a0, GOING - Base),
              Csrr(a0, "dscratch1"), J(-\h560)>>
Resume   == Report(RESUMING)
              \o <<Csrr(s0, "dscratch0"), Csrr(a0, "dscratch1"), Op("dret")>>

DebugProgram == Code(DebugProgramAt,
                     Entries \o Enter \o Wait \o Exception \o Going \o Resume)

\* The memory without and with the jump that whereto writes.
Loaded == Over(DebugProgram, Program)
Sent   == Over(Code(Whereto, <<J(\h504)>>), Loaded)

-----------------------------------------------------------------------------
VARIABLES
    core, pc, regs, mem,
    dpc, dscratch,       \* the debug CSRs
    debug_mode,          \* debug_mode_q
    ctrl,                \* "DECODE" or "DBG_TAKEN" (ctrl_fsm_cs)
    whereto,             \* is the jump at 0xA0300 there?
    debug_req_i,
    main,                \* how far main is: "running", "requested", "flagged"
    entry,               \* what was interrupted, and whether dpc got its address
    report               \* the last report of the debug program

hart == <<pc, regs, mem, dpc, dscratch, debug_mode, ctrl, entry, report>>
vars == <<core, hart, whereto, debug_req_i, main>>

Memory == IF whereto THEN Sent ELSE Loaded

Data == {Word, HALTED, GOING, RESUMING, FlagBase + FlaggedHart}
          \cup {FlagBase + c.mhartid : c \in Cores}

Init == /\ core \in Cores
        /\ pc = StartProgram
        /\ regs = [r \in 0..31 |-> 0]
        /\ mem = [d \in Data |-> 0]
        /\ dpc = 0
        /\ dscratch = [dscratch0 |-> 0, dscratch1 |-> 0]
        /\ debug_mode = FALSE
        /\ ctrl = "DECODE"
        /\ whereto = FALSE
        /\ debug_req_i = 0
        /\ main = "running"
        /\ entry = [pc |-> 0, regs |-> regs, saved |-> FALSE]
        /\ report = "none"

-----------------------------------------------------------------------------
(* main *)

Request == /\ main = "running"
           /\ main' = "requested" /\ debug_req_i' = 1
           /\ UNCHANGED <<core, hart, whereto>>

\* The request is withdrawn, DebugFLAG and whereto write the memory, all
\* between two clocks.  main passes FLAGgo; FLAGresume is DebugFLAG's other
\* value.
Release(debugFLAG) ==
    /\ main = "requested"
    /\ main' = "flagged" /\ debug_req_i' = 0
    /\ mem' = [mem EXCEPT ![FlagBase + FlaggedHart] = debugFLAG]
    /\ whereto' = TRUE
    /\ UNCHANGED <<core, pc, regs, dpc, dscratch, debug_mode, ctrl, entry, report>>

-----------------------------------------------------------------------------
(* The core *)

Decodes == ctrl = "DECODE" /\ ~(debug_req_i = 1 /\ ~debug_mode)
Instr   == Memory[pc]
Runs(ops) == Decodes /\ pc \in DOMAIN Memory /\ Instr.op \in ops

SetReg(rd, value) == regs' = [regs EXCEPT ![rd] = IF rd = 0 THEN 0 ELSE value]
NextPc == pc' = pc + 4
SameMode == UNCHANGED <<core, debug_mode, ctrl, dpc, entry, whereto, debug_req_i, main>>

\* x & bit, as the debug program masks: with one bit.
MaskBit(x, bit) == ((x \div bit) % 2) * bit

Compute ==
    /\ Runs({"addi", "andi", "add", "lui"})
    /\ SetReg(Instr.rd, CASE Instr.op = "addi" -> regs[Instr.rs] + Instr.imm
                          [] Instr.op = "andi" -> MaskBit(regs[Instr.rs], Instr.imm)
                          [] Instr.op = "add"  -> regs[Instr.rs] + regs[Instr.rt]
                          [] Instr.op = "lui"  -> Instr.imm)
    /\ NextPc /\ SameMode /\ UNCHANGED <<mem, dscratch, report>>

Load == /\ Runs({"lbu"})
        /\ SetReg(Instr.rd, mem[regs[Instr.rs] + Instr.imm])
        /\ NextPc /\ SameMode /\ UNCHANGED <<mem, dscratch, report>>

Store == /\ Runs({"sw"})
         /\ LET where == regs[Instr.rs] + Instr.imm
            IN  /\ mem' = [mem EXCEPT ![where] = regs[Instr.rt]]
                /\ report' = CASE where = HALTED   -> "halted"
                               [] where = GOING    -> "going"
                               [] where = RESUMING -> "resuming"
                               [] OTHER            -> report
         /\ NextPc /\ SameMode /\ UNCHANGED <<regs, dscratch>>

Jump == /\ Runs({"jal", "bnez"})
        /\ pc' = IF Instr.op = "bnez" /\ regs[Instr.rs] = 0 THEN pc + 4 ELSE pc + Instr.imm
        /\ SameMode /\ UNCHANGED <<regs, mem, dscratch, report>>

ReadCsr == /\ Runs({"csrr"})
           /\ SetReg(Instr.rd, IF Instr.csr = "mhartid" THEN core.mhartid
                               ELSE dscratch[Instr.csr])
           /\ NextPc /\ SameMode /\ UNCHANGED <<mem, dscratch, report>>

WriteCsr == /\ Runs({"csrw"})
            /\ dscratch' = [dscratch EXCEPT ![Instr.csr] = regs[Instr.rs]]
            /\ NextPc /\ SameMode /\ UNCHANGED <<regs, mem, report>>

Dret == /\ Runs({"dret"})
        /\ pc' = dpc
        /\ debug_mode' = FALSE
        /\ UNCHANGED <<core, regs, mem, dpc, dscratch, ctrl, entry, report,
                       whereto, debug_req_i, main>>

\* A request is taken at an instruction that is being decoded: DECODE leaves
\* for DBG_FLUSH and DBG_TAKEN_ID.
TakeRequest ==
    /\ ctrl = "DECODE" /\ debug_req_i = 1 /\ ~debug_mode
    /\ ctrl' = "DBG_TAKEN"
    /\ UNCHANGED <<core, pc, regs, mem, dpc, dscratch, debug_mode, entry, report,
                   whereto, debug_req_i, main>>

\* DBG_TAKEN_ID saves the address only if the request is still there.
EnterDebug ==
    /\ ctrl = "DBG_TAKEN"
    /\ ctrl' = "DECODE"
    /\ debug_mode' = TRUE
    /\ pc' = core.halt
    /\ dpc' = IF debug_req_i = 1 THEN pc ELSE dpc
    /\ entry' = [pc |-> pc, regs |-> regs, saved |-> debug_req_i = 1]
    /\ UNCHANGED <<core, regs, mem, dscratch, report, whereto, debug_req_i, main>>

HartStep == \/ Compute \/ Load \/ Store \/ Jump \/ ReadCsr \/ WriteCsr \/ Dret
            \/ TakeRequest \/ EnterDebug

Next == \/ HartStep
        \/ Request
        \/ \E debugFLAG \in {FLAGgo, FLAGresume} : Release(debugFLAG)

\* The test bench clocks the core between any two steps of main.
Spec == Init /\ [][Next]_vars /\ WF_vars(HartStep)

-----------------------------------------------------------------------------
(***************************************************************************)
(* The program does what the README of the test bench says of it, whether   *)
(* or not a debug session comes in between: at its end every register it    *)
(* has not used since holds 0xffffffff.  And wherever it was interrupted it *)
(* goes on from there with the registers and the word it had, although the  *)
(* debug program works with two of its registers: provided that the core    *)
(* had saved the address, for which the request must outlast the flush.     *)
(***************************************************************************)
Used == {0, a1, a2, a3, a4, a5, a7}

ResultsAtEnd ==
    pc = AtExit + 16 =>
        /\ \A r \in 0..31 \ Used : regs[r] = -1
        /\ \A r \in {0, a1, a2, a3} : regs[r] = 0
        /\ regs[a4] = 102 /\ regs[a5] = Word /\ regs[a7] = 93
        /\ mem[Word] = 102

ProgramUndisturbed ==
    /\ []ResultsAtEnd
    /\ [][debug_mode /\ ~debug_mode' /\ entry.saved =>
             /\ pc' = entry.pc /\ regs' = entry.regs
             /\ UNCHANGED mem]_vars

(***************************************************************************)
(* The debugger can follow the hart by its reports: it says that it has     *)
(* halted before it says that it goes, it says that it resumes before it    *)
(* leaves debug mode and not a moment earlier, each with its own number     *)
(* (going excepted, which reports 0).                                       *)
(***************************************************************************)
ReportsInOrder ==
    [][/\ report' # report =>
             /\ debug_mode
             /\ <<report, report'>> \in {<<"none", "halted">>, <<"halted", "going">>,
                                         <<"halted", "resuming">>, <<"going", "resuming">>}
             /\ report' = "halted" => mem'[HALTED] = core.mhartid
             /\ report' = "resuming" => mem'[RESUMING] = core.mhartid
       /\ debug_mode /\ ~debug_mode' => report = "resuming"]_vars

(***************************************************************************)
(* A halted hart that the test bench addresses is sent on by the flag.      *)
(***************************************************************************)
FlagSendsOn ==
    debug_mode /\ main = "flagged" /\ core = AsAddressed ~> ~debug_mode
=============================================================================
