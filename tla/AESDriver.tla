---- MODULE AESDriver ----
(* The program of lab9_app/main.c at work on the decryption core: its main     *)
(* loop and decrypt(), one bus access per step, with clock edges between two    *)
(* accesses.  Their number is any while the core works or start is up, for an   *)
(* interrupt may come between any two accesses, and MaxGap at most at rest,     *)
(* where an edge changes nothing.  In testing mode (run_mode 0) the user enters *)
(* a request for each call; in benchmark mode decrypt() is called in a loop and *)
(* nobody writes the key and the message.                                       *)
EXTENDS AESAvalon

CONSTANTS
  One, DEADBEEF,      \* the words 1 and 0xDEADBEEF
  RunModes,           \* the modes the user may select
  Requests,           \* what the user may enter: [key, msg_enc, msg] of blocks
  MaxCalls,           \* bound: calls of decrypt() followed
  MaxGap,             \* bound: edges between two accesses while the core rests
  MaxResets           \* bound: times the reset key is pressed

ASSUME BoundsAssumption == MaxCalls \in Nat /\ MaxGap \in Nat /\ MaxResets \in Nat

ASSUME WordsAssumption ==
  /\ {One, DEADBEEF} \subseteq Col /\ One # Zero
  /\ Bit0(One) /\ ~Bit0(Zero)
\* A request's msg_enc is what encrypt() made of its msg: the two are a pair of
\* the cipher.
ASSUME RequestsAssumption ==
  \A r \in Requests : /\ r.key \in Block /\ r.msg_enc \in Block
                      /\ r.msg = Decrypt(r.key, r.msg_enc)

VARIABLES
  run_mode,
  pc,                 \* the next access; see Program
  request,            \* key, msg_enc and the message they came from
  msg_dec,            \* the block decrypt() fills
  calls,              \* calls of decrypt() that have returned
  previous,           \* history: the request before this one
  elapsed,            \* history: edges since the core left WAIT
  held,               \* history: edges, modulo 11, that the last decryption found
                      \* start still high in DONE
  late, lateBefore,   \* history: whether the decryption at hand, and the one
                      \* before it, came after a start held like that
  gap,                \* edges since the last access, up to MaxGap
  resetting, resets   \* edges of the reset in progress (0, 1, 2 or more); resets so far

vars == <<busvars, run_mode, pc, request, msg_dec, calls, previous, elapsed, held,
          late, lateBefore, gap, resetting, resets>>

\* The writes of one turn of the loop of main(): key, message, and the three of
\* decrypt().  Access i writes word data to register addr.
Program == [i \in 1 .. 11 |->
  IF i <= 4 THEN [addr |-> i - 1, data |-> request.key[i]]
  ELSE IF i <= 8 THEN [addr |-> i - 1, data |-> request.msg_enc[i - 4]]
  ELSE IF i = 9 THEN [addr |-> 12, data |-> DEADBEEF]
  ELSE IF i = 10 THEN [addr |-> 14, data |-> One]
  ELSE [addr |-> 14, data |-> Zero]]
FirstWrite == 1
DecryptWrite == 9
StartWrite == 10
Poll == 12
Read == 13 .. 16
Return == 17
Enter == 0

NoRequest == [key |-> ZeroBlock, msg_enc |-> ZeroBlock, msg |-> ZeroBlock]

----
\* A decryption lasts 101 edges, and somewhat longer after a start held into DONE.
\* Both what the user types (scanf) and the line that decrypt() prints before it
\* starts the core take longer, so that the core has come to rest.
Slow == State = "WAIT"

\* From WAIT to DONE: 25 edges for the key, 1 + 9 * 8 + 3 for the rounds.
Latency == 101

\* What every edge without a reset adds to the histories.
Clocked ==
  LET taken == State = "WAIT" /\ AES_START
  IN  /\ elapsed' = IF State = "WAIT" THEN 0
                    ELSE IF elapsed <= Latency THEN elapsed + 1 ELSE elapsed
      /\ held' = IF State = "DONE" /\ AES_START THEN (held + 1) % 11
                 ELSE IF taken THEN 0 ELSE held
      /\ late' = IF taken THEN held # 0 ELSE late
      /\ lateBefore' = IF taken THEN late ELSE lateBefore

Access == Clocked /\ resetting \in {0, 2} /\ resetting' = 0 /\ gap' = 0

\* scanf and encrypt(): the next request.  The benchmark has none.
EnterRequest ==
  /\ Access /\ pc = Enter /\ calls < MaxCalls
  /\ IF run_mode = 0
     THEN /\ Slow
          /\ \E r \in Requests : request' = r
          /\ previous' = request
          /\ pc' = FirstWrite
     ELSE pc' = DecryptWrite /\ UNCHANGED <<request, previous>>
  /\ NoWrite(One)
  /\ UNCHANGED <<run_mode, msg_dec, calls, resets>>

WriteRegister ==
  /\ Access /\ pc \in DOMAIN Program
  /\ pc = StartWrite => Slow
  /\ Write(Program[pc].addr, Program[pc].data)
  /\ pc' = pc + 1
  /\ UNCHANGED <<run_mode, request, msg_dec, calls, previous, resets>>

\* while(AES_PTR[15] == 0){}
PollDone ==
  /\ Access /\ pc = Poll
  /\ pc' = IF REG[15] # Zero THEN Poll + 1 ELSE Poll
  /\ NoWrite(One)
  /\ UNCHANGED <<run_mode, request, msg_dec, calls, previous, resets>>

\* msg_dec[3] = AES_PTR[11] down to msg_dec[0] = AES_PTR[8].
ReadResult ==
  /\ Access /\ pc \in Read
  /\ msg_dec' = [msg_dec EXCEPT ![17 - pc] = REG[24 - pc]]
  /\ pc' = pc + 1
  /\ NoWrite(One)
  /\ UNCHANGED <<run_mode, request, calls, previous, resets>>

ReturnResult ==
  /\ Access /\ pc = Return
  /\ pc' = Enter /\ calls' = calls + 1
  /\ NoWrite(One)
  /\ UNCHANGED <<run_mode, request, msg_dec, previous, resets>>

\* An edge on which the processor does not touch the core.  Interrupts are
\* enabled and the timer runs: the next access may be any number of edges away,
\* the one that takes the start back included.
Unhurried == pc = Enter \/ State # "WAIT" \/ AES_START

Idle ==
  /\ Clocked
  /\ resetting \in {0, 2} /\ resetting' = 0
  /\ gap < MaxGap \/ Unhurried
  /\ gap' = IF gap < MaxGap THEN gap + 1 ELSE gap
  /\ NoWrite(One)
  /\ UNCHANGED <<run_mode, pc, request, msg_dec, calls, previous, resets>>

\* KEY[0] resets the core and the processor, and is down for two edges or more.
\* The program starts again, and sets its locals before it reads them.
Reset ==
  /\ resetting > 0 \/ resets < MaxResets
  /\ resetting' = IF resetting = 0 THEN 1 ELSE 2
  /\ resets' = IF resetting = 0 THEN resets + 1 ELSE resets
  /\ ResetEdge
  /\ elapsed' = 0 /\ held' = 0 /\ late' = FALSE /\ lateBefore' = FALSE
  /\ run_mode' \in RunModes
  /\ pc' = Enter /\ calls' = 0 /\ gap' = 0
  /\ request' = NoRequest /\ previous' = NoRequest /\ msg_dec' = ZeroBlock

Init ==
  /\ BusInit
  /\ run_mode \in RunModes
  /\ pc = Enter /\ calls = 0 /\ gap = 0
  /\ elapsed = 0 /\ held = 0 /\ late = FALSE /\ lateBefore = FALSE
  /\ resetting = 0 /\ resets = 0
  /\ request = NoRequest /\ previous = NoRequest /\ msg_dec = ZeroBlock

Next == EnterRequest \/ WriteRegister \/ PollDone \/ ReadResult \/ ReturnResult
        \/ Idle \/ Reset

Spec == Init /\ [][Next]_vars

----
TypeOK ==
  /\ CoreTypeOK
  /\ REG \in [0 .. 15 -> Col]
  /\ run_mode \in RunModes /\ pc \in Enter .. Return
  /\ request.key \in Block /\ request.msg_enc \in Block
  /\ msg_dec \in Block
  /\ calls \in 0 .. MaxCalls /\ gap \in 0 .. MaxGap
  /\ elapsed \in 0 .. Latency + 1 /\ held \in 0 .. 10
  /\ late \in BOOLEAN /\ lateBefore \in BOOLEAN
  /\ resetting \in 0 .. 2 /\ resets \in 0 .. MaxResets

\* Every time the core says it is done, its block is the decryption of what the
\* registers hold, the key schedule settled and every round with its key, unless
\* the start of the decryption before was held into DONE.
DoneHoldsPlaintext == AES_DONE /\ ~late => Hold = Decrypt(KEY, MSG_ENC)

\* At rest the counters are ready for the next start, whatever a reset or an
\* earlier decryption did to them; but a start held into DONE, where the round
\* counter counts on, has moved it by as many edges.
CountersRest ==
  State = "WAIT" /\ resetting \in {0, 2} => countkey = 0 /\ count9 = held

\* The first call after a reset returns the plaintext of its request.
FirstCallDecrypts ==
  pc = Return /\ calls = 0 /\ run_mode = 0 => msg_dec = request.msg

\* A later call finds the done register still set.  It may read the result of the
\* request before, or, when the core finishes between two of its four reads, new
\* words after old ones; it is never further behind and never sees another block,
\* if neither of the two decryptions came after a start held into DONE.
AtMostOneRequestLate ==
  pc = Return /\ calls > 0 /\ run_mode = 0 /\ ~late /\ ~lateBefore =>
    \E j \in 0 .. 4 :
      msg_dec = [i \in 1 .. 4 |-> IF i <= j THEN request.msg[i] ELSE previous.msg[i]]

\* The loop of decrypt() ends: while it finds the done register clear the core is
\* at work on its start, which was not lost, and within 101 edges it is done; a
\* done core is not written to before it has set the register.
PollIsAnswered ==
  pc = Poll /\ REG[15] = Zero /\ resetting \in {0, 2}
    => State = "DONE" \/ (State # "WAIT" /\ elapsed <= Latency)

\* "Output: msg_dec ... the decrypted message" (main.c, decrypt): every call.
DecryptReturnsItsMessage == pc = Return /\ run_mode = 0 => msg_dec = request.msg
====
