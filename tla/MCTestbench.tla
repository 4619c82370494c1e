----------------------------- MODULE MCTestbench -----------------------------
(***************************************************************************)
(* The test benches, and the self-tests of the program they run, for TLC.   *)
(***************************************************************************)
EXTENDS Testbench, Firmware

(***************************************************************************)
(* The self-tests a program runs on the core can pass, and for the reason   *)
(* they are there.  The sieve prints all primes below its bound and nothing *)
(* else, numbered, and its hash is the one sieve.c compares it with; the    *)
(* four steps of the core's multiplier give the products that C computes,   *)
(* for all operands and signs; and what stats.c prints can be read back,    *)
(* the quotient included as long as the product it is computed from does    *)
(* not wrap.                                                                *)
(***************************************************************************)
SelfTestsPass == bench = "core" => SievePasses /\ multest /\ StatsAreTrue
=============================================================================
