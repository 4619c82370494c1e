------------------------------ MODULE Testbench ------------------------------
(***************************************************************************)
(* The two Verilator test benches of the RI5CY core.  Both have the same    *)
(* main (tb_top_verilator.cpp of tb/core and of tb/dm): it clocks the       *)
(* design until the design calls $finish.  In tb/core the program ends the  *)
(* simulation, by its exit.  In tb/dm a debugger does: it connects to a     *)
(* server inside the simulation (remote_bitbang.c), which SimJTAG calls at  *)
(* a clock edge and which moves the JTAG pins for it.  The server never     *)
(* returns empty-handed from a connected debugger: while it waits, inside   *)
(* the evaluation of the clock edge, the simulated time stands still.       *)
(*                                                                         *)
(* The design behind the pins is reduced to what a reply must tell apart:   *)
(* its TDO is the number of changes of the pins it has seen.                *)
(***************************************************************************)
EXTENDS Syscalls, Sequences, SequencesExt

CONSTANTS
    TICK_DELAY,    \* clocks between two calls of the server
    PinWords,      \* pin commands used, of 0..7
    MaxCommands,   \* bound: commands sent by the debugger
    SocketRoom     \* replies that the socket holds for the debugger

ASSUME SocketAssumption == SocketRoom \in Nat \ {0}

VARIABLES
    bench,                            \* "core" or "dm"
    clk_i, rst_ni, t,                 \* main; t in steps of 5, up to 9
    ended,                            \* "no", "finished" or "aborted"
    r_reset, init_done_sticky, tickCounterReg, exit,     \* SimJTAG
    call,                             \* where the server blocks: "none", "accept", "read"
    client_fd, quit, tdo, pins,       \* remote_bitbang; pins is <<tck, tms, tdi>>
    jtag, seen,                       \* the pins of the design, the changes it saw
    client,                           \* "absent", "here", "closed", "reset"
    commands, replies,                \* the two directions of the socket
    awaited,                          \* the values the debugger is waiting for
    ahead, sent                       \* pins and changes after all it has sent, how many

loop    == <<clk_i, rst_ni, t>>
simjtag == <<r_reset, init_done_sticky, tickCounterReg>>
server  == <<exit, call, client_fd, quit, tdo, pins, jtag, seen>>
debugger == <<client, awaited, ahead, sent>>
vars == <<bench, loop, ended, simjtag, server, debugger, commands, replies, firmware>>

Up == <<1, 1, 1>>

\* The server starts with its pins up, and with no debugger.
ServerInit == /\ client_fd = 0 /\ quit = 0 /\ tdo = 0 /\ pins = Up

Init == /\ bench \in {"core", "dm"}
        /\ clk_i = 0 /\ rst_ni = 0 /\ t = 0 /\ ended = "no"
        /\ r_reset = 1 /\ init_done_sticky = 0 /\ tickCounterReg = TICK_DELAY /\ exit = 0
        /\ call = "none" /\ ServerInit /\ jtag = <<0, 0, 0>> /\ seen = 0
        /\ client = "absent" /\ commands = <<>> /\ replies = <<>>
        /\ awaited = <<>> /\ ahead = [pins |-> Up, changes |-> 1] /\ sent = 0
        /\ FirmwareInit /\ (bench = "dm" => library = "custom")

-----------------------------------------------------------------------------
(* main and the design: half a clock *)

\* $finish has been called: for the debugger's exit, or at the clock edge that
\* sees the program's.
gotFinish == exit # 0 \/ exit_valid \/ tests_passed

rst_ni_next == IF t > 8 THEN 1 ELSE rst_ni

\* The falling half.
ClockDown == /\ ended = "no" /\ ~gotFinish /\ call = "none" /\ clk_i = 1
             /\ clk_i' = 0 /\ rst_ni' = rst_ni_next /\ t' = IF t > 8 THEN t ELSE t + 1
             /\ UNCHANGED <<bench, ended, simjtag, server, debugger, commands, replies, firmware>>

Reset == rst_ni_next = 0 \/ r_reset = 1

enabled == bench = "dm" /\ ~Reset /\ init_done_sticky = 1

\* SimJTAG counts the clocks between two calls of the server.
SimJTAGNxt == /\ r_reset' = 1 - rst_ni_next
              /\ init_done_sticky' = IF Reset THEN 0 ELSE 1
              /\ tickCounterReg' = CASE Reset -> TICK_DELAY
                                     [] enabled -> IF tickCounterReg = 0 THEN TICK_DELAY
                                                   ELSE tickCounterReg - 1
                                     [] OTHER -> tickCounterReg

\* The server waits for a debugger, or takes TDO and waits for its next command.
Calls == IF client_fd > 0 THEN call' = "read" /\ tdo' = seen
                          ELSE call' = "accept" /\ UNCHANGED tdo

\* The rising half.
ClockUp ==
    /\ ended = "no" /\ ~gotFinish /\ call = "none" /\ clk_i = 0
    /\ clk_i' = 1 /\ rst_ni' = rst_ni_next /\ t' = IF t > 8 THEN t ELSE t + 1
    /\ SimJTAGNxt
    /\ IF enabled /\ tickCounterReg = 0 THEN Calls ELSE UNCHANGED <<call, tdo>>
    /\ IF bench = "core" /\ rst_ni_next = 1 THEN FirmwareStep ELSE UNCHANGED firmware
    /\ UNCHANGED <<bench, ended, exit, client_fd, quit, pins, jtag, seen, debugger,
                   commands, replies>>

Finish == /\ ended = "no" /\ gotFinish /\ call = "none"
          /\ ended' = "finished"
          /\ UNCHANGED <<bench, loop, simjtag, server, debugger, commands, replies, firmware>>

-----------------------------------------------------------------------------
(* The server, called from the rising edge *)

\* jtag_tick returns: the design sees the pins and the exit code.
TickReturns == /\ call' = "none"
               /\ jtag' = pins'
               /\ seen' = IF pins' = jtag THEN seen ELSE seen + 1
               /\ exit' = quit'

ServerLeaves == UNCHANGED <<bench, loop, simjtag, debugger, firmware>>

\* rbs_accept tries until a debugger has come.
Accept == /\ call = "accept" /\ client \in {"here", "closed"}
          /\ client_fd' = 1
          /\ UNCHANGED <<ended, quit, tdo, pins, commands, replies>>
          /\ TickReturns /\ ServerLeaves

PinsOf(word) == <<word \div 4, (word \div 2) % 2, word % 2>>

\* faulty: a word of pins is taken for done with the read that follows it
PinCommandAhead ==
    /\ call = "read" /\ commands # <<>> /\ Head(commands).op = "pins"
    /\ pins' = PinsOf(Head(commands).word)
    /\ commands' = Tail(commands)
    /\ UNCHANGED <<ended, exit, call, client_fd, quit, tdo, replies>>
    /\ jtag' = pins' /\ seen' = IF pins' = jtag THEN seen ELSE seen + 1
    /\ ServerLeaves

\* rbs_execute_command tries until a command has come, and executes this one.
PinCommand ==
    /\ call = "read" /\ commands # <<>> /\ Head(commands).op = "pins"
    /\ pins' = PinsOf(Head(commands).word)
    /\ commands' = Tail(commands)
    /\ UNCHANGED <<ended, client_fd, quit, tdo, replies>>
    /\ TickReturns /\ ServerLeaves

ReadCommand ==
    /\ call = "read" /\ commands # <<>> /\ Head(commands).op = "R"
    /\ Len(replies) < SocketRoom
    /\ replies' = Append(replies, tdo)
    /\ commands' = Tail(commands)
    /\ UNCHANGED <<ended, client_fd, quit, tdo, pins>>
    /\ TickReturns /\ ServerLeaves

\* faulty: the connection is closed, and that is all
HangUp ==
    /\ call = "read" /\ commands # <<>> /\ Head(commands).op = "Q"
    /\ quit' = 0 /\ client_fd' = 0
    /\ commands' = Tail(commands)
    /\ UNCHANGED <<ended, tdo, pins, replies>>
    /\ TickReturns /\ ServerLeaves

QuitCommand ==
    /\ call = "read" /\ commands # <<>> /\ Head(commands).op = "Q"
    /\ quit' = 1 /\ client_fd' = 0
    /\ commands' = Tail(commands)
    /\ UNCHANGED <<ended, tdo, pins, replies>>
    /\ TickReturns /\ ServerLeaves

\* Blinking, the resets (rbs_reset is empty) and whatever is not known.
OtherCommand ==
    /\ call = "read" /\ commands # <<>> /\ Head(commands).op = "other"
    /\ commands' = Tail(commands)
    /\ UNCHANGED <<ended, client_fd, quit, tdo, pins, replies>>
    /\ TickReturns /\ ServerLeaves

\* The debugger has closed the connection: read returns 0, now and ever after.
NoMoreCommands ==
    /\ call = "read" /\ commands = <<>> /\ client = "closed"
    /\ UNCHANGED <<ended, client_fd, quit, tdo, pins, commands, replies>>
    /\ TickReturns /\ ServerLeaves

\* The debugger has gone, or has let its replies fill the socket.
Unreceived == client \in {"closed", "reset"} \/ Len(replies) = SocketRoom

\* A broken connection, or a reply that is not received, aborts the simulation:
\* the socket does not block, and the write is not tried again when it is full.
Abort ==
    /\ call = "read"
    /\ \/ client = "reset"
       \/ Unreceived /\ commands # <<>> /\ Head(commands).op = "R"
    /\ ended' = "aborted"
    /\ UNCHANGED <<server, commands, replies>> /\ ServerLeaves

\* There is no next call of an aborted server.
Execute == /\ ended = "no"
           /\ PinCommand \/ ReadCommand \/ QuitCommand \/ OtherCommand

-----------------------------------------------------------------------------
(* The debugger *)

DebuggerLeaves == UNCHANGED <<bench, loop, ended, simjtag, server, firmware>>

\* The server listens from its first call on, in which it waits for the debugger.
Connect == /\ call = "accept" /\ client = "absent"
           /\ client' = "here"
           /\ UNCHANGED <<commands, replies, awaited, ahead, sent>> /\ DebuggerLeaves

Sends(command) == /\ client = "here" /\ sent < MaxCommands
                  /\ commands' = Append(commands, command)
                  /\ sent' = sent + 1
                  /\ UNCHANGED <<client, replies>> /\ DebuggerLeaves

SendPins(word) == /\ Sends([op |-> "pins", word |-> word])
                  /\ ahead' = [pins |-> PinsOf(word),
                               changes |-> IF PinsOf(word) = ahead.pins THEN ahead.changes
                                           ELSE ahead.changes + 1]
                  /\ UNCHANGED awaited

\* What it wants to know is TDO after all it has sent before.
SendRead == /\ Sends([op |-> "R"])
            /\ awaited' = Append(awaited, ahead.changes)
            /\ UNCHANGED ahead

SendOther == /\ \E op \in {"Q", "other"} : Sends([op |-> op])
             /\ UNCHANGED <<awaited, ahead>>

TakeReply == /\ client = "here" /\ replies # <<>>
             /\ replies' = Tail(replies) /\ awaited' = Tail(awaited)
             /\ UNCHANGED <<client, commands, ahead, sent>> /\ DebuggerLeaves

\* It goes away, with or without closing its connection in order; what is on
\* its way to the server is lost in the latter case.
Close == /\ client = "here" /\ client' = "closed"
         /\ UNCHANGED <<commands, replies, awaited, ahead, sent>> /\ DebuggerLeaves

Break == /\ client = "here" /\ client_fd > 0 /\ client' = "reset"
         /\ commands' = <<>>
         /\ UNCHANGED <<replies, awaited, ahead, sent>> /\ DebuggerLeaves

\* What it does after the end is left out.
Debugger == /\ ended = "no"
            /\ \/ Connect \/ SendRead \/ SendOther \/ TakeReply \/ Close \/ Break
               \/ \E word \in PinWords : SendPins(word)

Simulation == \/ ClockUp \/ ClockDown \/ Finish
              \/ Accept \/ Execute \/ NoMoreCommands \/ Abort

Next == Simulation \/ Debugger

\* The simulator is a running process.
Spec == Init /\ [][Next]_vars /\ WF_vars(Simulation)

-----------------------------------------------------------------------------
(***************************************************************************)
(* The debugger gets one reply for each of its reads, in their order, and   *)
(* each tells TDO as it is after every command sent before the read has     *)
(* reached the design, and no later one: although commands queue up in the  *)
(* socket while the design is clocked, and TDO is taken before the command  *)
(* is read.                                                                 *)
(***************************************************************************)
AnswersInOrder == IsPrefix(replies, awaited)

(***************************************************************************)
(* Whoever ends the simulation succeeds: after the program's exit in the    *)
(* one bench, after the debugger's quit command in the other, main finds    *)
(* $finish called and leaves its loop, whatever clock edge, pin or read it  *)
(* comes with.  The server aborts the simulation instead only if the        *)
(* debugger has gone or has let its replies fill the socket.                *)
(***************************************************************************)
QuitSent == \E i \in DOMAIN commands : commands[i].op = "Q"

SimulationEnds ==
    (exit_valid \/ tests_passed \/ QuitSent)
        ~> ended = "finished" \/ (ended = "aborted" /\ Unreceived)
=============================================================================
