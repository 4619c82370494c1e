-------------------------- MODULE Testbench_proofs --------------------------
(***************************************************************************)
(* The heap of either syscalls.c, for every heap and every increments; and  *)
(* the conversation of the server in remote_bitbang.c with a debugger, for  *)
(* every pin command and any number of commands on their way.               *)
(***************************************************************************)
EXTENDS Testbench, TLAPS

-----------------------------------------------------------------------------
(* The heap *)

Block == [at : Nat, size : Nat]

\* What has been handed out lies below the break, as far as the heap goes; and
\* the break is at most at twice what was asked for while that is still room.
HeapInv == /\ brk \in Nat /\ asked \in Nat /\ blocks \subseteq Block
           /\ \A b \in blocks : b.at + b.size <= brk \/ HeapSize <= brk
           /\ 2 * asked < HeapSize => brk <= 2 * asked
           /\ HeapBlocks

LEMMA HeapInit == FirmwareInit => HeapInv
BY HeapAssumption DEF FirmwareInit, HeapInv, HeapBlocks, Block

\* A block's bytes in the heap lie below the break.
LEMMA BelowBreak ==
    ASSUME NEW b \in Block, brk \in Nat,
           b.at + b.size <= brk \/ HeapSize <= brk,
           NEW byte \in BytesOf(b)
    PROVE  byte \in Int /\ b.at <= byte /\ byte < brk /\ byte < HeapSize
BY HeapAssumption DEF Block, BytesOf

LEMMA SbrkKeeps ==
    ASSUME HeapInv, NEW incr \in Increments, _sbrk(incr)
    PROVE  HeapInv'
<1> DEFINE new == [at |-> brk, size |-> incr]
<1>1. incr \in Nat /\ HeapSize \in Nat
  BY HeapAssumption
<1>2. /\ brk \in Nat /\ asked \in Nat /\ blocks \subseteq Block /\ new \in Block
      /\ blocks' = blocks \cup {new} /\ asked' = asked + incr
      /\ brk' = IF library = "csmith" THEN brk + incr
                ELSE IF brk + incr < HeapSize THEN brk + incr + incr ELSE HeapSize
  BY <1>1 DEF HeapInv, _sbrk, _sbrk_break, heap_end, Block
<1>3. brk' \in Nat /\ asked' \in Nat /\ blocks' \subseteq Block
  BY <1>1, <1>2
<1>4. \A b \in blocks' : b.at + b.size <= brk' \/ HeapSize <= brk'
  <2> SUFFICES ASSUME NEW b \in blocks' PROVE b.at + b.size <= brk' \/ HeapSize <= brk'
    OBVIOUS
  <2>1. CASE b = new
    BY <1>1, <1>2, <2>1
  <2>2. CASE b \in blocks
    <3>1. b.at \in Nat /\ b.size \in Nat
      BY <1>2, <2>2 DEF Block
    <3>2. b.at + b.size <= brk \/ HeapSize <= brk
      BY <2>2 DEF HeapInv
    <3> QED
      BY <1>1, <1>2, <3>1, <3>2
  <2> QED
    BY <1>2, <2>1, <2>2
<1>5. 2 * asked' < HeapSize => brk' <= 2 * asked' /\ brk + incr <= HeapSize
  BY <1>1, <1>2 DEF HeapInv
<1>6. \A b \in blocks : BytesOf(b) \cap BytesOf(new) = {}
  <2> SUFFICES ASSUME NEW b \in blocks, NEW byte \in BytesOf(b) PROVE byte \notin BytesOf(new)
    OBVIOUS
  <2>1. byte \in Int /\ byte < brk
    BY <1>2, BelowBreak DEF HeapInv
  <2>2. \A x \in BytesOf(new) : brk <= x
    BY <1>1, <1>2 DEF BytesOf
  <2> QED
    BY <1>2, <2>1, <2>2
<1>7. \A b, c \in blocks' : b # c => BytesOf(b) \cap BytesOf(c) = {}
  <2>1. \A b, c \in blocks : b # c => BytesOf(b) \cap BytesOf(c) = {}
    BY DEF HeapInv, HeapBlocks
  <2> QED
    BY <1>2, <1>6, <2>1
<1>8. 2 * asked' < HeapSize => \A b \in blocks' : b.at + b.size <= HeapSize
  <2> SUFFICES ASSUME 2 * asked' < HeapSize, NEW b \in blocks'
               PROVE  b.at + b.size <= HeapSize
    OBVIOUS
  <2>1. 2 * asked < HeapSize
    BY <1>1, <1>2
  <2>2. CASE b \in blocks
    BY <2>1, <2>2 DEF HeapInv, HeapBlocks
  <2>3. CASE b = new
    BY <1>5, <2>3
  <2> QED
    BY <1>2, <2>2, <2>3
<1> QED
  BY <1>3, <1>4, <1>5, <1>7, <1>8 DEF HeapInv, HeapBlocks, BytesOf

\* Every other step leaves the heap alone.
LEMMA HeapNext == HeapInv /\ [FirmwareStep]_firmware => HeapInv'
<1> SUFFICES ASSUME HeapInv, [FirmwareStep]_firmware PROVE HeapInv'
  OBVIOUS
<1>1. CASE \E incr \in Increments : _sbrk(incr)
  BY <1>1, SbrkKeeps
<1>2. CASE UNCHANGED <<brk, blocks, asked>>
  BY <1>2 DEF HeapInv, HeapBlocks, BytesOf
<1>3. UNCHANGED <<brk, blocks, asked>> \/ \E incr \in Increments : _sbrk(incr)
  BY DEF FirmwareStep, Stub, _write, _write_char, _exit, end_test, firmware
<1> QED
  BY <1>1, <1>2, <1>3

(***************************************************************************)
(* For every size of the heap and every sequence of increments that are not *)
(* negative: no two blocks share a byte of the heap, and all lie in it as   *)
(* long as less than half of it has been asked for.                         *)
(***************************************************************************)
THEOREM HeapIsSafe == FirmwareSpec => []HeapBlocks
<1>1. HeapInv => HeapBlocks
  BY DEF HeapInv
<1> QED
  BY HeapInit, HeapNext, <1>1, PTL DEF FirmwareSpec

(***************************************************************************)
(* The same on the test benches, whatever else they and the debugger do.    *)
(***************************************************************************)
THEOREM HeapIsSafeOnTheBench == Spec => []HeapBlocks
<1>1. Init => HeapInv
  BY HeapInit DEF Init
<1>2. ASSUME HeapInv, [Next]_vars PROVE HeapInv'
  <2>1. [FirmwareStep]_firmware
    BY <1>2 DEF Next, vars, Simulation, Debugger, ClockUp, ClockDown, Finish, Accept, Execute,
       PinCommand, ReadCommand, QuitCommand, OtherCommand, NoMoreCommands, Abort,
       ServerLeaves, DebuggerLeaves, Connect, Sends, SendPins, SendRead, SendOther,
       TakeReply, Close, Break
  <2> QED
    BY <1>2, <2>1, HeapNext
<1>3. HeapInv => HeapBlocks
  BY DEF HeapInv
<1> QED
  BY <1>1, <1>2, <1>3, PTL DEF Spec

-----------------------------------------------------------------------------
(* The conversation *)

PinSet   == {<<0, 0, 0>>, Up} \cup {PinsOf(word) : word \in PinWords}
Position == [pins : PinSet, changes : Nat]
Command  == [op : {"pins"}, word : PinWords] \cup [op : {"R", "Q", "other"}]

\* Where the pins are, and the changes the design has seen once it sees them.
Now == [pins |-> pins, changes |-> IF pins = jtag THEN seen ELSE seen + 1]

Moved(from, word) == [pins |-> PinsOf(word),
                      changes |-> IF PinsOf(word) = from.pins THEN from.changes
                                  ELSE from.changes + 1]

\* A command takes the pins from one position to the next, and the replies from
\* number m to number k.
Leads(command, from, to, m, k) ==
    /\ command.op = "pins" => to = Moved(from, command.word)
    /\ command.op # "pins" => to = from
    /\ k = IF command.op = "R" THEN m + 1 ELSE m

\* The commands on their way lead from the pins as they are to the pins as the
\* debugger has set them, and from the replies given to all that it waits for;
\* a read is to tell the changes before it.
Story(at, answered) ==
    /\ at \in [Nat -> Position] /\ answered \in [Nat -> Nat]
    /\ at[0] = Now /\ answered[0] = Len(replies)
    /\ \A i \in 1..Len(commands) :
          /\ Leads(commands[i], at[i-1], at[i], answered[i-1], answered[i])
          /\ commands[i].op = "R" => awaited[answered[i]] = at[i-1].changes
    /\ \A i, j \in 0..Len(commands) : i <= j => answered[i] <= answered[j]
    /\ at[Len(commands)] = ahead /\ answered[Len(commands)] = Len(awaited)

ConversationTypes ==
    /\ client \in {"absent", "here", "closed", "reset"}
    /\ call \in {"none", "accept", "read"} /\ client_fd \in {0, 1}
    /\ pins \in PinSet /\ jtag \in PinSet /\ seen \in Nat /\ tdo \in Nat
    /\ commands \in Seq(Command) /\ replies \in Seq(Nat) /\ awaited \in Seq(Nat)
    /\ ahead \in Position

\* What the server reads is what the design shows, with the pins as they are.
ServerInvariant == /\ client_fd = 1 => jtag = pins
                   /\ call = "read" => tdo = seen /\ client_fd = 1

\* What has been answered is answered right.
RepliesInvariant == /\ Len(replies) <= Len(awaited)
                    /\ \A k \in 1..Len(replies) : replies[k] = awaited[k]

\* A broken connection has lost what was on its way.
StoryInvariant == IF client = "reset" THEN commands = <<>>
                  ELSE \E at, answered : Story(at, answered)

ConversationInvariant == /\ ConversationTypes /\ ServerInvariant
                         /\ RepliesInvariant /\ StoryInvariant

LEMMA ConversationInit == Init => ConversationInvariant
<1> SUFFICES ASSUME Init PROVE ConversationInvariant
  OBVIOUS
<1>1. ConversationTypes /\ ServerInvariant /\ RepliesInvariant
  BY DEF Init, ServerInit, ConversationTypes, ServerInvariant, RepliesInvariant, PinSet,
     Position, Up
<1>2. Now = ahead /\ ahead \in Position
  BY <1>1 DEF Init, ServerInit, Now, Up, ConversationTypes
<1>3. Story([i \in Nat |-> Now], [i \in Nat |-> 0])
  BY <1>2 DEF Story, Init
<1> QED
  BY <1>1, <1>3 DEF ConversationInvariant, StoryInvariant, Init

\* The design sees pins that nobody moves: they are where they were going to be.
LEMMA TickLeavesNow ==
    ASSUME TickReturns, UNCHANGED pins, seen \in Nat
    PROVE  /\ Now' = Now /\ jtag' = pins' /\ seen' = Now.changes
BY DEF TickReturns, Now

\* The four ways in which the story goes on.
LEMMA StoryStays ==
    ASSUME NEW at, NEW answered, Story(at, answered), Now' = Now,
           UNCHANGED <<commands, replies, awaited, ahead>>
    PROVE  Story(at, answered)'
BY DEF Story, Leads, Moved

LEMMA StoryMovesOn ==
    ASSUME ConversationTypes, NEW at, NEW answered, Story(at, answered),
           commands # <<>>, commands' = Tail(commands), UNCHANGED <<awaited, ahead>>,
           Now' = at[1], Len(replies') = answered[1]
    PROVE  \E a, b : Story(a, b)'
<1> DEFINE a == [i \in Nat |-> at[i+1]]
           b == [i \in Nat |-> answered[i+1]]
<1>1. /\ Len(commands) \in Nat \ {0} /\ Len(commands') = Len(commands) - 1
      /\ \A i \in 1..Len(commands') : commands'[i] = commands[i+1]
  BY DEF ConversationTypes
<1>2. at \in [Nat -> Position] /\ answered \in [Nat -> Nat]
  BY DEF Story
<1>3. /\ a \in [Nat -> Position] /\ b \in [Nat -> Nat]
      /\ \A i \in Nat : a[i] = at[i+1] /\ b[i] = answered[i+1]
  BY <1>2
<1>4. a[0] = Now' /\ b[0] = Len(replies')
  BY <1>3
<1> HIDE DEF a, b
<1>5. ASSUME NEW i \in 1..Len(commands')
      PROVE  /\ Leads(commands'[i], a[i-1], a[i], b[i-1], b[i])
             /\ commands'[i].op = "R" => awaited'[b[i]] = a[i-1].changes
  <2>1. /\ i + 1 \in 1..Len(commands) /\ (i + 1) - 1 = i
        /\ i \in Nat /\ i - 1 \in Nat /\ (i - 1) + 1 = i
    BY <1>1
  <2>2. /\ Leads(commands[i+1], at[i], at[i+1], answered[i], answered[i+1])
        /\ commands[i+1].op = "R" => awaited[answered[i+1]] = at[i].changes
    BY <2>1 DEF Story
  <2>3. a[i-1] = at[i] /\ a[i] = at[i+1] /\ b[i-1] = answered[i] /\ b[i] = answered[i+1]
    BY <1>3, <2>1
  <2> QED
    BY <1>1, <2>2, <2>3
<1>6. ASSUME NEW i \in 0..Len(commands'), NEW j \in 0..Len(commands'), i <= j
      PROVE  b[i] <= b[j]
  BY <1>1, <1>3, <1>6 DEF Story
<1>7. a[Len(commands')] = ahead' /\ b[Len(commands')] = Len(awaited')
  BY <1>1, <1>3 DEF Story
<1> QED
  BY <1>3, <1>4, <1>5, <1>6, <1>7 DEF Story

LEMMA StoryGrows ==
    ASSUME ConversationTypes, ConversationTypes', NEW at, NEW answered, Story(at, answered),
           NEW command \in Command, commands' = Append(commands, command),
           UNCHANGED replies, Now' = Now,
           Len(awaited) <= Len(awaited'),
           \A k \in 1..Len(awaited) : awaited'[k] = awaited[k],
           RepliesInvariant,
           Leads(command, ahead, ahead', Len(awaited), Len(awaited')),
           command.op = "R" => awaited'[Len(awaited')] = ahead.changes
    PROVE  \E a, b : Story(a, b)'
<1> DEFINE n == Len(commands)
<1>1. /\ n \in Nat /\ n = Len(commands) /\ Len(commands') = n + 1
      /\ commands'[n+1] = command /\ \A i \in 1..n : commands'[i] = commands[i]
  BY DEF ConversationTypes
<1> HIDE DEF n
<1>2. at \in [Nat -> Position] /\ answered \in [Nat -> Nat]
  BY DEF Story
<1>3. ahead' \in Position /\ Len(awaited) \in Nat /\ Len(awaited') \in Nat
  BY DEF ConversationTypes
<1>a. PICK a : a = [at EXCEPT ![n+1] = ahead']
  OBVIOUS
<1>b. PICK b : b = [answered EXCEPT ![n+1] = Len(awaited')]
  OBVIOUS
<1>4. /\ a \in [Nat -> Position] /\ b \in [Nat -> Nat]
      /\ \A i \in 0..n : a[i] = at[i] /\ b[i] = answered[i]
      /\ a[n+1] = ahead' /\ b[n+1] = Len(awaited')
  <2>1. n + 1 \in Nat /\ \A i \in 0..n : i \in Nat /\ i # n + 1
    BY <1>1
  <2> QED
    BY <1>a, <1>b, <1>2, <1>3, <2>1
<1>5. a[n] = ahead /\ b[n] = Len(awaited) /\ a[0] = Now' /\ b[0] = Len(replies')
  <2>1. 0 \in 0..n /\ n \in 0..n
    BY <1>1
  <2>2. at[0] = Now /\ answered[0] = Len(replies) /\ at[n] = ahead /\ answered[n] = Len(awaited)
    BY <1>1 DEF Story
  <2> QED
    BY <1>4, <2>1, <2>2
<1>6. \A i, j \in 0..n : i <= j => answered[i] <= answered[j]
  BY <1>1 DEF Story
<1>7. ASSUME NEW i \in 0..(n+1), NEW j \in 0..(n+1), i <= j
      PROVE  b[i] <= b[j]
  <2>1. n \in 0..n /\ \A m \in 0..n : answered[m] \in Nat /\ answered[m] <= answered[n]
    <3>1. n \in 0..n /\ \A m \in 0..n : m \in Nat /\ m <= n
      BY <1>1
    <3>2. \A m \in 0..n : answered[m] \in Nat
      BY <1>2, <3>1
    <3> QED BY <1>6, <3>1, <3>2
  <2>2. CASE j = n + 1
    <3>1. b[j] = Len(awaited')
      BY <1>4, <2>2
    <3>2. b[i] \in Nat /\ (i = n + 1 \/ b[i] <= Len(awaited))
      <4>1. i \in 0..n \/ i = n + 1
        BY <1>1
      <4> QED
        BY <1>3, <1>4, <1>5, <2>1, <4>1
    <3> QED
      BY <1>3, <2>2, <3>1, <3>2
  <2>3. CASE j # n + 1
    <3>1. i \in 0..n /\ j \in 0..n
      BY <1>1, <1>7, <2>3
    <3> QED
      BY <1>4, <1>6, <1>7, <3>1
  <2> QED
    BY <2>2, <2>3
<1>8. ASSUME NEW i \in 1..(n+1)
      PROVE  /\ Leads(commands'[i], a[i-1], a[i], b[i-1], b[i])
             /\ commands'[i].op = "R" => awaited'[b[i]] = a[i-1].changes
  <2>1. CASE i = n + 1
    <3>1. i - 1 = n
      BY <1>1, <2>1
    <3> QED
      BY <1>1, <1>4, <1>5, <2>1, <3>1
  <2>2. CASE i \in 1..n
    <3>1. i - 1 \in 0..n /\ i \in 0..n /\ 0 \in 0..n /\ n \in 0..n /\ i - 1 <= i /\ i <= n
          /\ 0 <= i - 1
      BY <1>1, <2>2
    <3>2. a[i-1] = at[i-1] /\ a[i] = at[i] /\ b[i-1] = answered[i-1] /\ b[i] = answered[i]
      BY <1>4, <3>1
    <3>3. /\ Leads(commands[i], at[i-1], at[i], answered[i-1], answered[i])
          /\ commands[i].op = "R" => awaited[answered[i]] = at[i-1].changes
      BY <1>1, <2>2 DEF Story
    <3>4. commands[i].op = "R" => answered[i] = answered[i-1] + 1
      BY <3>3 DEF Leads
    <3>5. answered[i-1] \in Nat /\ answered[i] \in Nat /\ answered[i] <= Len(awaited)
      <4>1. answered[i] <= answered[n] /\ answered[n] = Len(awaited)
        BY <1>4, <1>5, <1>6, <3>1
      <4>2. i - 1 \in Nat /\ i \in Nat
        BY <1>1, <3>1
      <4> QED
        BY <1>2, <4>1, <4>2
    <3>6. commands[i].op = "R" => answered[i] \in 1..Len(awaited)
      BY <1>3, <3>4, <3>5
    <3> QED
      BY <1>1, <2>2, <3>2, <3>3, <3>6
  <2> QED
    BY <1>1, <2>1, <2>2
<1>9. Story(a, b)'
  <2>1. \A i \in 1..Len(commands') :
           /\ Leads(commands'[i], a[i-1], a[i], b[i-1], b[i])
           /\ commands'[i].op = "R" => awaited'[b[i]] = a[i-1].changes
    BY <1>1, <1>8
  <2>2. \A i, j \in 0..Len(commands') : i <= j => b[i] <= b[j]
    BY <1>1, <1>7
  <2>3. a[Len(commands')] = ahead' /\ b[Len(commands')] = Len(awaited')
    BY <1>1, <1>4
  <2> QED
    BY <1>4, <1>5, <2>1, <2>2, <2>3 DEF Story, Leads, Moved
<1> QED
  BY <1>9

LEMMA StoryAnswered ==
    ASSUME ConversationTypes, RepliesInvariant, NEW at, NEW answered, Story(at, answered),
           replies # <<>>, replies' = Tail(replies), awaited' = Tail(awaited),
           UNCHANGED <<commands, ahead>>, Now' = Now
    PROVE  \E b : Story(at, b)'
<1> DEFINE n == Len(commands)
<1>1. /\ n \in Nat /\ 0 \in 0..n /\ Len(replies) \in Nat \ {0} /\ Len(awaited) \in Nat \ {0}
      /\ Len(replies') = Len(replies) - 1 /\ Len(awaited') = Len(awaited) - 1
      /\ \A k \in 1..Len(awaited') : awaited'[k] = awaited[k+1]
      /\ n = Len(commands)
  BY DEF ConversationTypes, RepliesInvariant
<1> HIDE DEF n
<1>2. /\ at \in [Nat -> Position] /\ answered \in [Nat -> Nat]
      /\ answered[0] = Len(replies) /\ answered[n] = Len(awaited)
      /\ \A i, j \in 0..n : i <= j => answered[i] <= answered[j]
  BY <1>1 DEF Story
<1>3. \A i \in 0..n : /\ answered[i] \in Nat /\ Len(replies) <= answered[i]
                      /\ answered[i] <= Len(awaited)
  BY <1>1, <1>2
<1>b. PICK b : b = [i \in Nat |-> IF i \in 0..n THEN answered[i] - 1 ELSE 0]
  OBVIOUS
<1>4. b \in [Nat -> Nat] /\ \A i \in 0..n : b[i] = answered[i] - 1
  <2>1. \A i \in 0..n : i \in Nat /\ answered[i] - 1 \in Nat
    BY <1>1, <1>3
  <2> QED
    BY <1>b, <2>1
<1>6. \A i, j \in 0..n : i <= j => b[i] <= b[j]
  BY <1>2, <1>3, <1>4
<1>7. b[0] = Len(replies') /\ b[n] = Len(awaited')
  <2>1. 0 \in 0..n /\ n \in 0..n
    BY <1>1
  <2> QED
    BY <1>1, <1>2, <1>4, <2>1
<1>8. ASSUME NEW i \in 1..n
      PROVE  /\ Leads(commands[i], at[i-1], at[i], b[i-1], b[i])
             /\ commands[i].op = "R" => awaited'[b[i]] = at[i-1].changes
  <2>1. i \in 1..n /\ n \in Nat
    BY <1>1
  <2>2. PICK p \in 0..n : i - 1 = p
    BY <2>1
  <2>3. i \in 0..n
    BY <2>1
  <2>4. /\ Leads(commands[i], at[p], at[i], answered[p], answered[i])
        /\ commands[i].op = "R" => awaited[answered[i]] = at[p].changes
    BY <1>1, <2>1, <2>2 DEF Story
  <2>5. /\ answered[p] \in Nat /\ Len(replies) <= answered[p] /\ b[p] = answered[p] - 1
        /\ answered[i] \in Nat /\ answered[i] <= Len(awaited) /\ b[i] = answered[i] - 1
    BY <1>3, <1>4, <2>2, <2>3
  <2>6. Leads(commands[i], at[p], at[i], b[p], b[i])
    <3>1. answered[i] = IF commands[i].op = "R" THEN answered[p] + 1 ELSE answered[p]
      BY <2>4 DEF Leads
    <3>2. b[i] = IF commands[i].op = "R" THEN b[p] + 1 ELSE b[p]
      BY <2>5, <3>1
    <3> QED
      BY <2>4, <3>2 DEF Leads
  <2>7. ASSUME commands[i].op = "R" PROVE awaited'[b[i]] = at[p].changes
    <3>1. answered[i] = answered[p] + 1
      BY <2>4, <2>7 DEF Leads
    <3>2. b[i] = answered[p] /\ b[i] + 1 = answered[i]
      BY <2>5, <3>1
    <3>3. b[i] \in 1..Len(awaited')
      <4>1. Len(replies) \in Nat \ {0} /\ Len(awaited) \in Nat /\ Len(awaited') = Len(awaited) - 1
        BY <1>1
      <4> QED BY <2>5, <3>2, <4>1
    <3> QED
      BY <1>1, <2>4, <2>7, <3>2, <3>3
  <2> QED
    BY <2>2, <2>6, <2>7
<1>9. Story(at, b)'
  <2>1. at[0] = Now' /\ at[Len(commands)] = ahead'
    BY DEF Story
  <2> QED
    BY <1>1, <1>2, <1>4, <1>6, <1>7, <1>8, <2>1 DEF Story, Leads, Moved
<1> QED
  BY <1>9

LEMMA PinsInSet == \A word \in PinWords : PinsOf(word) \in PinSet
BY DEF PinSet

\* A step that neither side of the socket sees.
LEMMA QuietStep ==
    ASSUME ConversationInvariant,
           client' = client \/ (client # "reset" /\ client' \in {"here", "closed"}),
           UNCHANGED <<commands, replies, awaited, ahead>>, Now' = Now,
           pins' \in PinSet, jtag' \in PinSet, seen' \in Nat, tdo' \in Nat,
           call' \in {"none", "accept", "read"}, client_fd' \in {0, 1}, ServerInvariant'
    PROVE  ConversationInvariant'
<1>1. ConversationTypes'
  BY DEF ConversationInvariant, ConversationTypes
<1>2. RepliesInvariant'
  BY DEF ConversationInvariant, RepliesInvariant
<1>3. StoryInvariant'
  <2>1. CASE client = "reset"
    BY <2>1 DEF ConversationInvariant, StoryInvariant
  <2>2. CASE client # "reset"
    <3>1. PICK at, answered : Story(at, answered)
      BY <2>2 DEF ConversationInvariant, StoryInvariant
    <3>2. Story(at, answered)'
      BY <3>1, StoryStays
    <3>3. client' # "reset"
      BY <2>2
    <3> QED
      BY <3>2, <3>3 DEF StoryInvariant
  <2> QED
    BY <2>1, <2>2
<1> QED
  BY <1>1, <1>2, <1>3 DEF ConversationInvariant

LEMMA ClockUpConverses ==
    ASSUME ConversationInvariant, ClockUp PROVE ConversationInvariant'
<1>1. UNCHANGED <<client_fd, pins, jtag, seen, client, commands, replies, awaited, ahead>>
  BY DEF ClockUp, debugger
<1>2. \/ call' = "read" /\ tdo' = seen /\ client_fd > 0
      \/ call' = "accept" /\ tdo' = tdo
      \/ call' = "none" /\ tdo' = tdo
  BY DEF ClockUp, Calls
<1>3. ConversationTypes /\ ServerInvariant
  BY DEF ConversationInvariant
<1>4. client_fd > 0 => client_fd = 1
  BY <1>3 DEF ConversationTypes
<1>5. ServerInvariant'
  BY <1>1, <1>2, <1>3, <1>4 DEF ServerInvariant
<1>6. Now' = Now
  BY <1>1 DEF Now
<1>7. tdo' \in Nat /\ call' \in {"none", "accept", "read"}
  BY <1>2, <1>3 DEF ConversationTypes
<1>8. pins' \in PinSet /\ jtag' \in PinSet /\ seen' \in Nat /\ client_fd' \in {0, 1}
  BY <1>1, <1>3 DEF ConversationTypes
<1> QED
  BY <1>1, <1>5, <1>6, <1>7, <1>8, QuietStep

\* The server's call returns, and no pin has moved.
LEMMA ReturnConverses ==
    ASSUME ConversationInvariant, TickReturns, ServerLeaves,
           UNCHANGED <<pins, tdo, commands, replies>>, client_fd' \in {0, 1}
    PROVE  ConversationInvariant'
<1>1. ConversationTypes
  BY DEF ConversationInvariant
<1>2. Now' = Now /\ seen' \in Nat
  BY <1>1, TickLeavesNow DEF ConversationTypes, TickReturns
<1>3. UNCHANGED <<client, awaited, ahead>>
  BY DEF ServerLeaves, debugger
<1>4. call' = "none" /\ jtag' = pins'
  BY DEF TickReturns
<1>5. ServerInvariant'
  BY <1>4 DEF ServerInvariant
<1>6. pins' \in PinSet /\ jtag' \in PinSet /\ tdo' \in Nat
  BY <1>1, <1>4 DEF ConversationTypes
<1> QED
  BY <1>2, <1>3, <1>4, <1>5, <1>6, QuietStep

\* The server executes the first of the commands on their way.
LEMMA ExecuteConverses ==
    ASSUME ConversationInvariant, Execute PROVE ConversationInvariant'
<1> DEFINE command == Head(commands)
<1>1. /\ ConversationTypes /\ ServerInvariant /\ RepliesInvariant /\ StoryInvariant
  BY DEF ConversationInvariant
<1>2. /\ call = "read" /\ commands # <<>> /\ commands' = Tail(commands)
      /\ UNCHANGED <<client, awaited, ahead, tdo>>
      /\ call' = "none" /\ jtag' = pins' /\ seen' = IF pins' = jtag THEN seen ELSE seen + 1
      /\ client_fd' \in {client_fd, 0}
  BY DEF Execute, PinCommand, ReadCommand, QuitCommand, OtherCommand, ServerLeaves, debugger,
     TickReturns
<1>3. /\ command \in Command /\ command = commands[1] /\ Len(commands) \in Nat \ {0}
      /\ commands' \in Seq(Command)
  BY <1>1, <1>2 DEF ConversationTypes
<1>4. /\ command.op = "pins" => pins' = PinsOf(command.word) /\ command.word \in PinWords
      /\ command.op # "pins" => pins' = pins
      /\ replies' = IF command.op = "R" THEN Append(replies, tdo) ELSE replies
  BY <1>3 DEF Execute, PinCommand, ReadCommand, QuitCommand, OtherCommand, Command
<1>5. tdo = seen /\ jtag = pins /\ Now = [pins |-> pins, changes |-> seen]
  BY <1>1, <1>2 DEF ServerInvariant, Now
<1>6. pins' \in PinSet /\ seen' \in Nat /\ client_fd' \in {0, 1}
  BY <1>1, <1>2, <1>4, PinsInSet DEF ConversationTypes
<1>7. client # "reset"
  BY <1>1, <1>2 DEF StoryInvariant
<1>8. PICK at, answered : Story(at, answered)
  BY <1>1, <1>7 DEF StoryInvariant
<1>9. /\ Leads(command, Now, at[1], Len(replies), answered[1])
      /\ command.op = "R" => awaited[answered[1]] = seen
  <2>1. 1 \in 1..Len(commands) /\ 1 - 1 = 0
    BY <1>3
  <2>2. /\ Leads(commands[1], at[0], at[1], answered[0], answered[1])
        /\ commands[1].op = "R" => awaited[answered[1]] = at[0].changes
    BY <1>8, <2>1 DEF Story
  <2>3. at[0] = Now /\ answered[0] = Len(replies) /\ Now.changes = seen
    BY <1>5, <1>8 DEF Story
  <2> QED
    BY <1>3, <2>2, <2>3
<1>10. Now' = at[1]
  BY <1>2, <1>4, <1>5, <1>9 DEF Leads, Moved, Now
<1>11. /\ replies' \in Seq(Nat) /\ Len(replies') = answered[1]
  BY <1>1, <1>4, <1>5, <1>9 DEF Leads, ConversationTypes
<1>12. ConversationTypes'
  BY <1>1, <1>2, <1>3, <1>6, <1>11 DEF ConversationTypes
<1>13. ServerInvariant'
  BY <1>2 DEF ServerInvariant
<1>14. RepliesInvariant'
  <2>1. answered[1] <= Len(awaited)
    <3>1. 1 \in 0..Len(commands) /\ Len(commands) \in 0..Len(commands) /\ 1 <= Len(commands)
      BY <1>3
    <3> QED
      BY <1>8, <3>1 DEF Story
  <2>2. CASE command.op = "R"
    <3>1. /\ answered[1] = Len(replies) + 1 /\ replies' = Append(replies, tdo)
      BY <1>4, <1>9, <2>2 DEF Leads
    <3>2. awaited[Len(replies) + 1] = tdo
      BY <1>5, <1>9, <2>2, <3>1
    <3> QED
      BY <1>1, <1>2, <2>1, <3>1, <3>2 DEF RepliesInvariant, ConversationTypes
  <2>3. CASE command.op # "R"
    BY <1>1, <1>2, <1>4, <2>3 DEF RepliesInvariant
  <2> QED
    BY <2>2, <2>3
<1>15. StoryInvariant'
  <2>1. \E a, b : Story(a, b)'
    BY <1>1, <1>2, <1>8, <1>10, <1>11, StoryMovesOn
  <2> QED
    BY <1>2, <1>7, <2>1 DEF StoryInvariant
<1> QED
  BY <1>12, <1>13, <1>14, <1>15 DEF ConversationInvariant

\* The debugger sends one command more.
LEMMA SendConverses ==
    ASSUME ConversationInvariant, NEW command \in Command, Sends(command),
           Leads(command, ahead, ahead', Len(awaited), Len(awaited')),
           awaited' = IF command.op = "R" THEN Append(awaited, ahead.changes) ELSE awaited
    PROVE  ConversationInvariant'
<1>1. ConversationTypes /\ ServerInvariant /\ RepliesInvariant /\ StoryInvariant
  BY DEF ConversationInvariant
<1>2. /\ client = "here" /\ commands' = Append(commands, command)
      /\ UNCHANGED <<client, replies, call, client_fd, pins, jtag, seen, tdo>>
  BY DEF Sends, DebuggerLeaves, server
<1>3. /\ awaited' \in Seq(Nat) /\ Len(awaited) <= Len(awaited')
      /\ \A k \in 1..Len(awaited) : awaited'[k] = awaited[k]
      /\ command.op = "R" => awaited'[Len(awaited')] = ahead.changes
  BY <1>1 DEF ConversationTypes, Position
<1>4. ahead' \in Position
  BY <1>1, PinsInSet DEF Leads, Moved, ConversationTypes, Position, Command
<1>5. ConversationTypes'
  BY <1>1, <1>2, <1>3, <1>4 DEF ConversationTypes
<1>6. ServerInvariant'
  BY <1>1, <1>2 DEF ServerInvariant
<1>7. RepliesInvariant'
  BY <1>1, <1>2, <1>3 DEF RepliesInvariant, ConversationTypes
<1>8. Now' = Now
  BY <1>2 DEF Now
<1>9. StoryInvariant'
  <2>1. PICK at, answered : Story(at, answered)
    BY <1>1, <1>2 DEF StoryInvariant
  <2>2. \E a, b : Story(a, b)'
    BY <1>1, <1>2, <1>3, <1>5, <1>8, <2>1, StoryGrows
  <2> QED
    BY <1>2, <2>2 DEF StoryInvariant
<1> QED
  BY <1>5, <1>6, <1>7, <1>9 DEF ConversationInvariant

LEMMA TakeReplyConverses ==
    ASSUME ConversationInvariant, TakeReply PROVE ConversationInvariant'
<1>1. ConversationTypes /\ ServerInvariant /\ RepliesInvariant /\ StoryInvariant
  BY DEF ConversationInvariant
<1>2. /\ client = "here" /\ replies # <<>>
      /\ replies' = Tail(replies) /\ awaited' = Tail(awaited)
      /\ UNCHANGED <<client, commands, ahead, call, client_fd, pins, jtag, seen, tdo>>
  BY DEF TakeReply, DebuggerLeaves, server
<1>3. Len(replies) \in Nat \ {0} /\ Len(awaited) \in Nat \ {0} /\ awaited # <<>>
  BY <1>1, <1>2 DEF ConversationTypes, RepliesInvariant
<1>4. ConversationTypes'
  BY <1>1, <1>2, <1>3 DEF ConversationTypes
<1>5. ServerInvariant'
  BY <1>1, <1>2 DEF ServerInvariant
<1>6. RepliesInvariant'
  BY <1>1, <1>2, <1>3 DEF RepliesInvariant, ConversationTypes
<1>7. Now' = Now
  BY <1>2 DEF Now
<1>8. StoryInvariant'
  <2>1. PICK at, answered : Story(at, answered)
    BY <1>1, <1>2 DEF StoryInvariant
  <2>2. \E b : Story(at, b)'
    BY <1>1, <1>2, <1>7, <2>1, StoryAnswered
  <2> QED
    BY <1>2, <2>2 DEF StoryInvariant
<1> QED
  BY <1>4, <1>5, <1>6, <1>8 DEF ConversationInvariant

LEMMA BreakConverses ==
    ASSUME ConversationInvariant, Break PROVE ConversationInvariant'
<1>1. /\ client' = "reset" /\ commands' = <<>>
      /\ UNCHANGED <<replies, awaited, ahead, call, client_fd, pins, jtag, seen, tdo>>
  BY DEF Break, DebuggerLeaves, server
<1> QED
  BY <1>1 DEF ConversationInvariant, ConversationTypes, ServerInvariant, RepliesInvariant,
     StoryInvariant

LEMMA ConversationNext ==
    ASSUME ConversationInvariant, [Next]_vars PROVE ConversationInvariant'
<1>1. CASE ClockUp
  BY <1>1, ClockUpConverses
<1>2. CASE Accept
  BY <1>2, ReturnConverses DEF Accept
<1>3. CASE NoMoreCommands
  BY <1>3, ReturnConverses DEF NoMoreCommands, ConversationInvariant, ConversationTypes
<1>4. CASE Execute
  BY <1>4, ExecuteConverses
<1>5. CASE ClockDown \/ Finish \/ Abort \/ Connect \/ Close \/ UNCHANGED vars
  <2>1. /\ UNCHANGED <<commands, replies, awaited, ahead, call, client_fd, pins, jtag, seen, tdo>>
        /\ client' = client \/ (client # "reset" /\ client' \in {"here", "closed"})
    BY <1>5 DEF ClockDown, Finish, Abort, Connect, Close, vars, ServerLeaves, DebuggerLeaves,
       server, debugger
  <2>2. Now' = Now /\ ServerInvariant'
    BY <2>1 DEF Now, ConversationInvariant, ServerInvariant
  <2> QED
    BY <2>1, <2>2, QuietStep DEF ConversationInvariant, ConversationTypes
<1>6. CASE TakeReply
  BY <1>6, TakeReplyConverses
<1>7. CASE Break
  BY <1>7, BreakConverses
<1>8. CASE SendRead
  <2> DEFINE command == [op |-> "R"]
  <2>1. command \in Command /\ command.op = "R" /\ Sends(command)
        /\ awaited' = Append(awaited, ahead.changes) /\ ahead' = ahead
    BY <1>8 DEF SendRead, Command
  <2>2. Leads(command, ahead, ahead', Len(awaited), Len(awaited'))
    BY <2>1 DEF Leads, ConversationInvariant, ConversationTypes
  <2> QED
    BY <2>1, <2>2, SendConverses
<1>9. CASE SendOther
  <2>1. PICK op \in {"Q", "other"} : Sends([op |-> op])
    BY <1>9 DEF SendOther
  <2>2. [op |-> op] \in Command /\ UNCHANGED <<awaited, ahead>>
    BY <1>9 DEF SendOther, Command
  <2>3. Leads([op |-> op], ahead, ahead', Len(awaited), Len(awaited'))
    BY <2>2 DEF Leads
  <2> QED
    BY <2>1, <2>2, <2>3, SendConverses
<1>10. ASSUME NEW word \in PinWords, SendPins(word) PROVE ConversationInvariant'
  <2> DEFINE command == [op |-> "pins", word |-> word]
  <2>1. command \in Command /\ Sends(command) /\ awaited' = awaited
        /\ ahead' = Moved(ahead, word)
    BY <1>10 DEF SendPins, Command, Moved
  <2>2. Leads(command, ahead, ahead', Len(awaited), Len(awaited'))
    BY <2>1 DEF Leads
  <2> QED
    BY <2>1, <2>2, SendConverses
<1> QED
  BY <1>1, <1>2, <1>3, <1>4, <1>5, <1>6, <1>7, <1>8, <1>9, <1>10
     DEF Next, Simulation, Debugger

(***************************************************************************)
(* For all pin commands, however many commands are on their way: a reply is *)
(* the debugger's next answer, and tells TDO after all it sent before the   *)
(* read and nothing it sent after.                                          *)
(***************************************************************************)
THEOREM EachReadAnswered == Spec => []AnswersInOrder
<1>1. ConversationInvariant => AnswersInOrder
  <2> SUFFICES ASSUME ConversationTypes, RepliesInvariant PROVE AnswersInOrder
    BY DEF ConversationInvariant
  <2>1. Len(replies) \in Nat /\ Len(awaited) \in Nat /\ replies \in Seq(Nat) /\ awaited \in Seq(Nat)
    BY DEF ConversationTypes
  <2>2. SubSeq(replies, 1, Len(replies)) = SubSeq(awaited, 1, Len(replies))
    BY <2>1 DEF RepliesInvariant
  <2> QED
    BY <2>2 DEF AnswersInOrder, IsPrefix, RepliesInvariant
<1> QED
  BY ConversationInit, ConversationNext, <1>1, PTL DEF Spec
=============================================================================
