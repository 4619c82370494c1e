-------------------------- MODULE VerilatorSimCtrl --------------------------
(***************************************************************************)
(* The Verilator simulation of Ibex: verilator_sim_ctrl.cc, which parses    *)
(* the arguments, drives clock and reset and keeps the trace file, under    *)
(* main and the signal handler of ibex_riscv_compliance.cc.                 *)
(*                                                                         *)
(* A signal may arrive between any two steps; a step reads at most one      *)
(* thing a handler writes, or writes what no order of the two would change. *)
(* Time is counted in half clocks up to MaxTime, which stands for every     *)
(* later time.  Delay and duration of the reset are such that twice their   *)
(* sum does not wrap in the 32 bits that the code computes it in.           *)
(***************************************************************************)
EXTENDS Integers

CONSTANTS
    Delays, Durations,   \* values of SetInitialResetDelay and SetResetDuration
    Terms,               \* values of --term-after-cycles, 0 (the default) apart
    MaxOptions,          \* bound: arguments on the command line
    MaxTime              \* bound: times told apart

ASSUME TimeAssumption ==
    /\ Delays \cup Durations \subseteq Nat /\ Terms \subseteq Int /\ MaxTime \in Nat
    /\ \A delay \in Delays, duration \in Durations : 2 * (delay + duration) < MaxTime
    /\ \A term \in Terms : term < MaxTime

VARIABLES
    at,                                     \* what main does next
    options,                                \* arguments left to parse
    ResetPolarityNegative, initial_reset_delay_cycles_, reset_duration_cycles_,
    term_after_cycles_, tracing_possible_,  \* settings
    init_,                                  \* the memories asked to be initialised
    loaded,                                 \* the memories initialised
    time_, sig_clk_, sig_rst_,
    tracing_enabled_, tracing_enabled_changed_, tracing_ever_enabled_, request_stop_,
    isOpen,                                 \* the trace file is open
    gotFinish,                              \* the design has called $finish
    status,                                 \* main's value, -1 until it returns
    resetEdges                              \* history: the rising edges under reset

flags    == <<ResetPolarityNegative, initial_reset_delay_cycles_, reset_duration_cycles_,
              tracing_possible_>>
settings == <<options, term_after_cycles_, init_>>
tracing  == <<tracing_enabled_, tracing_enabled_changed_, tracing_ever_enabled_>>
design   == <<time_, sig_clk_, sig_rst_, gotFinish, resetEdges>>
ctrlVars == <<at, flags, settings, loaded, tracing, request_stop_, isOpen, design, status>>

\* The constructor, then the setters; the model's inputs are 0 at first.
CtrlInit ==
    /\ at = "parse" /\ options \in 0..MaxOptions
    /\ ResetPolarityNegative \in BOOLEAN /\ tracing_possible_ \in BOOLEAN
    /\ initial_reset_delay_cycles_ \in Delays /\ reset_duration_cycles_ \in Durations
    /\ term_after_cycles_ = 0 /\ init_ = {} /\ loaded = {}
    /\ time_ = 0 /\ sig_clk_ = 0 /\ sig_rst_ = 0
    /\ tracing_enabled_ = FALSE /\ tracing_enabled_changed_ = FALSE
    /\ tracing_ever_enabled_ = FALSE /\ request_stop_ = FALSE
    /\ isOpen = FALSE /\ gotFinish = FALSE /\ status = -1 /\ resetEdges = {}

-----------------------------------------------------------------------------
(* Called by main and by the signal handler *)

TraceOn ==
    /\ tracing_enabled_' = tracing_possible_
    /\ tracing_ever_enabled_' = tracing_possible_
    /\ tracing_enabled_changed_' = (tracing_enabled_changed_ \/ tracing_enabled_ # tracing_possible_)

TraceOff ==
    /\ tracing_enabled_changed_' = (tracing_enabled_changed_ \/ tracing_enabled_)
    /\ tracing_enabled_' = FALSE
    /\ UNCHANGED tracing_ever_enabled_

\* The handler, installed before the arguments are parsed.
SignalHandler ==
    /\ at # "returned"
    /\ \/ /\ request_stop_' = TRUE                     \* SIGINT
          /\ UNCHANGED tracing
       \/ /\ IF tracing_enabled_ THEN TraceOff ELSE TraceOn     \* SIGUSR1
          /\ UNCHANGED request_stop_
    /\ UNCHANGED <<at, flags, settings, loaded, isOpen, design, status>>

-----------------------------------------------------------------------------
(* The arguments and the memories *)

\* main returns a retcode that nothing has assigned.
Returns == at' = "returned" /\ status' \in {0, 1}

MemoryOption ==
    /\ \E memory \in {"rom", "ram", "flash"} : init_' = init_ \cup {memory}
    /\ \/ UNCHANGED <<at, status>>
       \/ Returns                                      \* the file is not readable
    /\ UNCHANGED <<term_after_cycles_, tracing>>

TraceOption ==
    /\ IF tracing_possible_ THEN TraceOn /\ UNCHANGED <<at, status>>
                            ELSE Returns /\ UNCHANGED tracing
    /\ UNCHANGED <<term_after_cycles_, init_>>

TermOption == /\ term_after_cycles_' \in Terms \cup {0}
              /\ UNCHANGED <<at, init_, tracing, status>>

\* Help, a missing argument, or an option that is left to the design.
OtherOption == /\ Returns \/ UNCHANGED <<at, status>>
               /\ UNCHANGED <<term_after_cycles_, init_, tracing>>

ParseCommandArgs ==
    /\ at = "parse" /\ options > 0
    /\ options' = options - 1
    /\ MemoryOption \/ TraceOption \/ TermOption \/ OtherOption
    /\ UNCHANGED <<flags, loaded, request_stop_, isOpen, design>>

\* Of the three memories main initialises the RAM; when the design has none of
\* that name the program exits.
InitMemory(memory) ==
    /\ at = "parse" /\ options = 0
    /\ \/ /\ at' = "start"
          /\ loaded' = loaded \cup ({memory} \cap init_)
          /\ UNCHANGED status
       \/ /\ memory \in init_
          /\ at' = "returned" /\ status' = 1
          /\ UNCHANGED loaded
    /\ UNCHANGED <<flags, settings, tracing, request_stop_, isOpen, design>>

-----------------------------------------------------------------------------
(* Run *)

SetReset   == IF ResetPolarityNegative THEN 0 ELSE 1
UnsetReset == 1 - SetReset

\* The first evaluation, with whatever the inputs are, and the first dump.
Start == /\ at = "start"
         /\ at' = "announce"
         /\ sig_rst_' = UnsetReset
         /\ UNCHANGED <<flags, settings, loaded, tracing, request_stop_, isOpen, time_, sig_clk_,
                        gotFinish, resetEdges, status>>

\* faulty: the reset comes half a clock late
ResetLevelLate ==
    IF time_ >= 2 * (reset_duration_cycles_ + initial_reset_delay_cycles_) THEN UnsetReset
    ELSE IF time_ > 2 * initial_reset_delay_cycles_ THEN SetReset ELSE sig_rst_

\* The reset as it is after the two conditions at the head of the loop.
ResetLevel ==
    IF time_ >= 2 * (reset_duration_cycles_ + initial_reset_delay_cycles_) THEN UnsetReset
    ELSE IF time_ >= 2 * initial_reset_delay_cycles_ THEN SetReset ELSE sig_rst_

\* The number of the rising edge that raises the clock now.
Edge == time_ \div 2 + 1

Cycle == /\ at = "cycle"
         /\ at' = "announce"
         /\ sig_rst_' = ResetLevel
         /\ sig_clk_' = 1 - sig_clk_
         /\ time_' = IF time_ < MaxTime THEN time_ + 1 ELSE MaxTime
         /\ gotFinish' \in {gotFinish, TRUE}
         /\ resetEdges' = IF sig_clk_ = 0 /\ sig_rst_' = SetReset
                        THEN resetEdges \cup {Edge} ELSE resetEdges
         /\ UNCHANGED <<flags, settings, loaded, tracing, request_stop_, isOpen, status>>

AfterTrace == IF time_ = 0 THEN "cycle" ELSE "stop"

TraceLeaves == UNCHANGED <<flags, settings, loaded, tracing_enabled_, tracing_ever_enabled_,
                           request_stop_, design, status>>

\* Trace tells of a change, ...
Announce == /\ at = "announce"
            /\ at' = IF tracing_enabled_changed_ THEN "announced" ELSE "trace"
            /\ UNCHANGED <<tracing_enabled_changed_, isOpen>> /\ TraceLeaves

\* ... takes it for told, ...
Announced == /\ at = "announced"
             /\ at' = "trace"
             /\ tracing_enabled_changed_' = FALSE
             /\ UNCHANGED isOpen /\ TraceLeaves

\* ... and opens the file with the first dump.
Trace == /\ at = "trace"
         /\ at' = AfterTrace
         /\ isOpen' = (isOpen \/ tracing_enabled_)
         /\ UNCHANGED tracing_enabled_changed_ /\ TraceLeaves

\* A negative limit, compared with an unsigned time, is never reached.
TimedOut == term_after_cycles_ > 0 /\ time_ > term_after_cycles_

Stop == /\ at = "stop"
        /\ at' = IF request_stop_ \/ gotFinish \/ TimedOut THEN "close" ELSE "cycle"
        /\ UNCHANGED <<flags, settings, loaded, tracing, request_stop_, isOpen, design, status>>

\* faulty: the file is closed if it is being written at the end
ClosesIfEnabled == tracing_enabled_

Closes == tracing_ever_enabled_

\* The end of Run, and what main tells after it.
Close == /\ at = "close"
         /\ isOpen' = (isOpen /\ ~Closes)
         /\ Returns
         /\ UNCHANGED <<flags, settings, loaded, tracing, request_stop_, design>>

Main == \/ ParseCommandArgs \/ InitMemory("ram") \/ Start \/ Cycle
        \/ Announce \/ Announced \/ Trace \/ Stop \/ Close

CtrlNext == Main \/ SignalHandler

\* The simulation is a running process; signals need not come.
CtrlSpec == CtrlInit /\ [][CtrlNext]_ctrlVars /\ WF_ctrlVars(Main)

-----------------------------------------------------------------------------
(***************************************************************************)
(* The design sees the reset at as many rising edges of its clock as        *)
(* SetResetDuration promises, in a row, after as many without it as         *)
(* SetInitialResetDelay promises, whatever the two are and the polarity is, *)
(* although both are counted in half clocks and set anew in every one.      *)
(***************************************************************************)
EdgesSoFar == (time_ + 1) \div 2

ResetAsAsked ==
    resetEdges = {edge \in 1..EdgesSoFar :
                    /\ edge > initial_reset_delay_cycles_
                    /\ edge <= initial_reset_delay_cycles_ + reset_duration_cycles_}

(***************************************************************************)
(* A stop requested at any moment, also before Run, the design's $finish    *)
(* and the time limit all end the simulation, and with its trace file       *)
(* closed, however tracing was toggled by then.                             *)
(***************************************************************************)
RunEnds == request_stop_ \/ gotFinish \/ TimedOut ~> at = "returned" /\ ~isOpen
=============================================================================
