------------------------------ MODULE Syscalls ------------------------------
(***************************************************************************)
(* The system calls a program of the RI5CY test bench is linked with: the   *)
(* heap break, the output and the exit of ips/riscv/tb/core, in             *)
(* custom/syscalls.c and in csmith/syscalls.c.  Addresses of the heap are   *)
(* offsets from its start, __heap_start of the one and _end of the other.   *)
(***************************************************************************)
EXTENDS Integers

CONSTANTS
    HeapSize,      \* __heap_end - __heap_start (of an empty heap _sbrk gives nothing),
                   \* or the memory there is from _end on
    Increments,    \* increments _sbrk is called with; malloc only extends
    MaxAsked,      \* bound: bytes asked for in all
    MaxOutput      \* bound: characters written in all

ASSUME HeapAssumption == HeapSize \in Nat \ {0} /\ Increments \subseteq Nat /\ MaxAsked \in Nat

VARIABLES
    library,       \* "custom" or "csmith"
    brk,           \* the break
    blocks,        \* what _sbrk has returned so far: [at |-> address, size |-> bytes]
    asked,         \* bytes asked for so far
    toWrite,       \* characters _write has still to put out
    output,        \* characters put out
    exit_valid,    \* EXIT_REG has been written
    tests_passed   \* the other result register, with the mark of success

firmware == <<library, brk, blocks, asked, toWrite, output, exit_valid, tests_passed>>

FirmwareInit == /\ library \in {"custom", "csmith"}
                /\ brk = 0 /\ blocks = {} /\ asked = 0
                /\ toWrite = 0 /\ output = 0 /\ exit_valid = FALSE /\ tests_passed = FALSE

\* The program computes on its own, or is in a call that returns an error, or
\* a constant, and leaves everything as it was.
Stub == UNCHANGED firmware

\* csmith's break, of a heap without an end.
heap_end(incr) == brk + incr

\* faulty: the break stays where it was when the heap is too small
_sbrk_nothing_taken(incr) == IF library = "csmith" THEN heap_end(incr)
                             ELSE IF brk + incr < HeapSize THEN brk + incr + incr ELSE brk

\* The break after _sbrk(incr): custom increments it to compare it, and once more
\* when there is room.
_sbrk_break(incr) == IF library = "csmith" THEN heap_end(incr)
                     ELSE IF brk + incr < HeapSize THEN brk + incr + incr ELSE HeapSize

_sbrk(incr) ==
    /\ toWrite = 0
    /\ asked + incr <= MaxAsked
    /\ asked' = asked + incr
    /\ brk' = _sbrk_break(incr)
    /\ blocks' = blocks \cup {[at |-> brk, size |-> incr]}
    /\ UNCHANGED <<library, toWrite, output, exit_valid, tests_passed>>

_write(len) == /\ toWrite = 0
               /\ output + len <= MaxOutput
               /\ toWrite' = len
               /\ UNCHANGED <<library, brk, blocks, asked, output, exit_valid, tests_passed>>

\* One character goes to STDOUT_REG.
_write_char == /\ toWrite > 0
               /\ toWrite' = toWrite - 1
               /\ output' = output + 1
               /\ UNCHANGED <<library, brk, blocks, asked, exit_valid, tests_passed>>

_exit == /\ library = "custom" /\ toWrite = 0
         /\ exit_valid' = TRUE
         /\ UNCHANGED <<library, brk, blocks, asked, toWrite, output, tests_passed>>

\* csmith exits by an ecall, and stops at an ebreak in each call it does not
\* have; for both, start.S reports that the tests have passed.
end_test == /\ library = "csmith" /\ toWrite = 0
            /\ tests_passed' = TRUE
            /\ UNCHANGED <<library, brk, blocks, asked, toWrite, output, exit_valid>>

\* A store or a call of the program; behind the exit stands wfi.
FirmwareStep == /\ ~exit_valid /\ ~tests_passed
                /\ \/ Stub
                   \/ \E incr \in Increments : _sbrk(incr)
                   \/ \E len \in 1..MaxOutput : _write(len)
                   \/ _write_char
                   \/ _exit
                   \/ end_test

FirmwareSpec == FirmwareInit /\ [][FirmwareStep]_firmware
-----------------------------------------------------------------------------
(***************************************************************************)
(* What a program can count on although the break may advance twice as far  *)
(* as it asked for: the blocks it gets share no byte of the heap, and they  *)
(* all lie in the heap as long as it has asked for less than half of it.    *)
(* (A block that no longer fits is handed out all the same: past the end.)  *)
(***************************************************************************)
BytesOf(block) == {byte \in block.at .. block.at + block.size - 1 : byte < HeapSize}

HeapBlocks ==
    /\ \A b, c \in blocks : b # c => BytesOf(b) \cap BytesOf(c) = {}
    /\ 2 * asked < HeapSize => \A b \in blocks : b.at + b.size <= HeapSize
=============================================================================
