---- MODULE JtagUart ----
(* The interrupt-driven JTAG UART driver under the C programs' standard input   *)
(* and output (lab9_app_bsp/drivers/src/altera_avalon_jtag_uart_*.c): two ring   *)
(* buffers between the device's FIFOs and the calls read, write, close and       *)
(* ioctl, an interrupt routine, and an alarm that misses the host; and of the    *)
(* device (lab9_soc_jtag_uart_0.v) the FIFOs, their interrupts and the activity  *)
(* bit.  One program without operating system makes the calls; it stands still   *)
(* while an interrupt is served, and the device and the host never do.           *)
EXTENDS Integers, Sequences

CONSTANTS
  BUF_LEN,          \* ALTERA_AVALON_JTAG_UART_BUF_LEN
  RxDepth, TxDepth, \* of the device's FIFOs: 64 each
  Threshold,        \* interrupts come with as many places left, or used: 8
  Numbers,          \* bound: characters are numbered modulo Numbers
  Default,          \* ALTERA_AVALON_JTAG_UART_DEFAULT_TIMEOUT
  INT_MAX,          \* the timeout of a system without a clock
  Timeouts,         \* what ioctl(TIOCSTIMEOUT) may be given
  MaxCount          \* bound: characters of one call

ASSUME SizesAssumption ==
  /\ BUF_LEN \in Nat /\ BUF_LEN >= 2
  /\ {RxDepth, TxDepth, Threshold} \subseteq Nat
  /\ Threshold < RxDepth /\ Threshold < TxDepth
  /\ Numbers \in Nat /\ Numbers >= 1
  /\ MaxCount \in Nat
ASSUME TimeoutsAssumption ==
  /\ INT_MAX \in Nat /\ Default \in 1 .. INT_MAX - 2
  /\ Timeouts \subseteq Nat

VARIABLES
  \* the device and the host behind it
  rx_fifo, tx_fifo, \* characters from and to the host
  ac,               \* CONTROL_AC: the host has accessed the device
  pause_irq,        \* the host has paused, and no character was read since
  sent, received,   \* the host's next character, and the next it expects
  \* altera_avalon_jtag_uart_state
  irq_enable,       \* as last written to CONTROL
  rx_buf, rx_in, rx_out,
  tx_buf, tx_in, tx_out,
  host_inactive, timeout,
  \* the interrupt routine
  isr,              \* where it is
  control,          \* what it last read: of CONTROL, and of DATA whether more remain
  \* the program
  call,             \* the call it makes, with the call's locals
  put, got          \* the next character it writes, and the next it expects

device == <<rx_fifo, tx_fifo, ac, pause_irq>>
host == <<sent, received>>
rx == <<rx_buf, rx_in, rx_out>>
tx == <<tx_buf, tx_in, tx_out>>
inactivity == <<host_inactive, timeout>>
routine == <<isr, control>>
program == <<call, put, got>>
vars == <<device, host, irq_enable, rx, tx, inactivity, routine, program>>

Index == 0 .. BUF_LEN - 1
Char == 0 .. Numbers - 1
Plus(c, n) == (c + n) % Numbers
Least(a, b) == IF a < b THEN a ELSE b
Filled(i, o) == (i - o) % BUF_LEN
\* The characters of a ring buffer, oldest first.
Held(buf, i, o) == [k \in 1 .. Filled(i, o) |-> buf[(o + k - 1) % BUF_LEN]]

\* The interrupts: the host has paused with characters in the FIFO or there is hardly
\* room for more; and there are hardly any left for the host to take.
RI == "RE" \in irq_enable /\ (pause_irq \/ RxDepth - Len(rx_fifo) <= Threshold)
WI == "WE" \in irq_enable /\ Len(tx_fifo) <= Threshold
Running == isr = "none"     \* the program runs
NoHost == host_inactive >= timeout

Labels == {"idle", "read", "read_advance", "read_spin", "read_check", "read_enable",
           "write", "write_advance", "write_enable", "write_spin", "write_check", "close"}
NoCall == [pc |-> "idle", nonblock |-> FALSE, count |-> 0, moved |-> FALSE,
           in |-> 0, out |-> 0]
NoControl == [wi |-> FALSE, space |-> 0, ravail |-> TRUE]

TypeOK ==
  /\ rx_fifo \in Seq(Char) /\ Len(rx_fifo) <= RxDepth
  /\ tx_fifo \in Seq(Char) /\ Len(tx_fifo) <= TxDepth
  /\ ac \in BOOLEAN /\ pause_irq \in BOOLEAN /\ sent \in Char /\ received \in Char
  /\ irq_enable \subseteq {"RE", "WE"}
  /\ rx_buf \in [Index -> Char] /\ rx_in \in Index /\ rx_out \in Index
  /\ tx_buf \in [Index -> Char] /\ tx_in \in Index /\ tx_out \in Index
  /\ host_inactive \in 0 .. INT_MAX - 2 /\ timeout \in 1 .. INT_MAX
  /\ isr \in {"none", "control", "receive", "transmit"}
  /\ control \in [wi : BOOLEAN, space : 0 .. TxDepth, ravail : BOOLEAN]
  /\ call \in [pc : Labels, nonblock : BOOLEAN, count : 0 .. MaxCount, moved : BOOLEAN,
               in : Index, out : Index]
  /\ put \in Char /\ got \in Char

----
(* The interrupt routine.                                                       *)

\* An interrupt is taken, and CONTROL read at the head of the routine's loop.
ReadControl ==
  /\ isr = "control" \/ (isr = "none" /\ (RI \/ WI))
  /\ isr' = IF RI THEN "receive" ELSE IF WI THEN "transmit" ELSE "none"
  /\ control' = IF WI THEN [NoControl EXCEPT !.wi = TRUE, !.space = TxDepth - Len(tx_fifo)]
                      ELSE NoControl
  /\ UNCHANGED <<device, host, irq_enable, rx, tx, inactivity, program>>

MutRxFull == FALSE                               \* mutant: reads without looking
RxFull == (rx_in + 1) % BUF_LEN = rx_out

\* A read of DATA takes the oldest character of the FIFO, and tells whether more remain.
ReceiveCharacter ==
  /\ isr = "receive" /\ ~RxFull /\ rx_fifo # <<>>
  /\ rx_buf' = [rx_buf EXCEPT ![rx_in] = Head(rx_fifo)]
  /\ rx_in' = (rx_in + 1) % BUF_LEN
  /\ rx_fifo' = Tail(rx_fifo) /\ pause_irq' = FALSE
  /\ control' = [control EXCEPT !.ravail = Tail(rx_fifo) # <<>>]
  /\ UNCHANGED <<tx_fifo, ac, host, irq_enable, rx_out, tx, inactivity, isr, program>>

\* A read of DATA that finds the FIFO empty ends the loop.  A character that arrives in
\* that clock is not taken but counts as remaining: the interrupt is turned off.
ReceiveNothing ==
  /\ isr = "receive" /\ ~RxFull /\ rx_fifo = <<>>
  /\ isr' = "transmit" /\ control' = [control EXCEPT !.ravail = TRUE]
  /\ pause_irq' = FALSE
  /\ \/ UNCHANGED <<rx_fifo, sent, ac, irq_enable>>
     \/ /\ rx_fifo' = <<sent>> /\ sent' = Plus(sent, 1) /\ ac' = TRUE
        /\ irq_enable' = irq_enable \ {"RE"}
  /\ UNCHANGED <<tx_fifo, received, rx, tx, inactivity, program>>

\* The buffer is full: characters left behind turn the interrupt off.
ReceiveFull ==
  /\ isr = "receive" /\ RxFull
  /\ isr' = "transmit" /\ control' = [control EXCEPT !.ravail = TRUE]
  /\ irq_enable' = IF control.ravail THEN irq_enable \ {"RE"} ELSE irq_enable
  /\ UNCHANGED <<device, host, rx, tx, inactivity, program>>

MutTransmit ==                                   \* mutant: off with no space left over
  LET n == Least(control.space, Filled(tx_in, tx_out))
  IN  /\ isr = "transmit"
      /\ isr' = "control" /\ control' = NoControl
      /\ IF control.wi
         THEN /\ tx_fifo' = tx_fifo \o SubSeq(Held(tx_buf, tx_in, tx_out), 1, n)
              /\ tx_out' = (tx_out + n) % BUF_LEN
              /\ irq_enable' = irq_enable \ {"WE"}
         ELSE UNCHANGED <<tx_fifo, tx_out, irq_enable>>
      /\ UNCHANGED <<rx_fifo, ac, pause_irq, host, rx, tx_buf, tx_in, inactivity, program>>
\* Characters move to the FIFO as long as there is the space CONTROL spoke of.  Space
\* left over turns the transmit interrupt off.
Transmit ==
  LET n == Least(control.space, Filled(tx_in, tx_out))
  IN  /\ isr = "transmit"
      /\ isr' = "control" /\ control' = NoControl
      /\ IF control.wi
         THEN /\ tx_fifo' = tx_fifo \o SubSeq(Held(tx_buf, tx_in, tx_out), 1, n)
              /\ tx_out' = (tx_out + n) % BUF_LEN
              /\ irq_enable' = IF n < control.space THEN irq_enable \ {"WE"} ELSE irq_enable
         ELSE UNCHANGED <<tx_fifo, tx_out, irq_enable>>
      /\ UNCHANGED <<rx_fifo, ac, pause_irq, host, rx, tx_buf, tx_in, inactivity, program>>

Irq == ReadControl \/ ReceiveCharacter \/ ReceiveNothing \/ ReceiveFull \/ Transmit

MutTimeoutLimit ==                               \* mutant: one count too many
  /\ Running /\ timeout # INT_MAX
  /\ ac' = FALSE
  /\ host_inactive' = IF ac THEN 0
                      ELSE IF host_inactive <= INT_MAX - 2 THEN host_inactive + 1
                      ELSE host_inactive
  /\ UNCHANGED <<rx_fifo, tx_fifo, pause_irq, host, irq_enable, rx, tx, timeout, routine,
                 program>>
MutTimeout ==                                    \* mutant: CONTROL_AC is not cleared
  /\ Running /\ timeout # INT_MAX
  /\ ac' = ac
  /\ host_inactive' = IF ac THEN 0
                      ELSE IF host_inactive < INT_MAX - 2 THEN host_inactive + 1
                      ELSE host_inactive
  /\ UNCHANGED <<rx_fifo, tx_fifo, pause_irq, host, irq_enable, rx, tx, timeout, routine,
                 program>>
\* altera_avalon_jtag_uart_timeout(), every second if the system has a clock.
Timeout ==
  /\ Running /\ timeout # INT_MAX
  /\ ac' = FALSE
  /\ host_inactive' = IF ac THEN 0
                      ELSE IF host_inactive < INT_MAX - 2 THEN host_inactive + 1
                      ELSE host_inactive
  /\ UNCHANGED <<rx_fifo, tx_fifo, pause_irq, host, irq_enable, rx, tx, timeout, routine,
                 program>>

----
(* The calls.  Locals that are not read again are set back.                      *)

At(l) == Running /\ call.pc = l
Return == call' = NoCall
Goto(l) == call' = [call EXCEPT !.pc = l]
\* Back to the head of the loop, with n characters moved.
Again(l, n) == call' = [call EXCEPT !.pc = l, !.count = @ - n, !.in = 0, !.out = 0,
                                    !.moved = @ \/ (l = "read" /\ n > 0)]

Begin(l, counts) ==
  /\ At("idle")
  /\ \E n \in counts, b \in BOOLEAN :
       call' = [NoCall EXCEPT !.pc = l, !.count = n, !.nonblock = b]
  /\ UNCHANGED <<device, host, irq_enable, rx, tx, inactivity, routine, put, got>>
Read == Begin("read", 1 .. MaxCount)
Write == Begin("write", 1 .. MaxCount)
Close == Begin("close", {0})

\* ioctl(TIOCSTIMEOUT).
SetTimeout ==
  /\ At("idle") /\ timeout # INT_MAX
  /\ timeout' \in {IF t >= 2 /\ t < INT_MAX THEN t ELSE INT_MAX - 1 : t \in Timeouts}
  /\ UNCHANGED <<device, host, irq_enable, rx, tx, host_inactive, routine, program>>

\* A step of a call that touches nothing but its locals.
Local == UNCHANGED <<device, host, irq_enable, rx, tx, inactivity, routine, put, got>>

\* One turn of the copying loop of read(): look at the indices and copy what lies
\* between them in one piece; then move rx_out.
ReadCopy ==
  /\ At("read")
  /\ IF rx_in # rx_out /\ call.count > 0
     THEN call' = [call EXCEPT !.pc = "read_advance", !.in = rx_in, !.out = rx_out]
     ELSE IF call.moved THEN Goto("read_enable")
     ELSE IF call.nonblock THEN Return
     ELSE call' = [call EXCEPT !.pc = "read_spin", !.in = rx_in]
  /\ Local
ReadAdvance ==
  LET n == Least(call.count, IF call.in >= call.out THEN call.in - call.out
                             ELSE BUF_LEN - call.out)
  IN  /\ At("read_advance")
      /\ rx_out' = (call.out + n) % BUF_LEN
      /\ Again("read", n)
      /\ got' = Plus(got, n)
      /\ UNCHANGED <<device, host, irq_enable, rx_buf, rx_in, tx, inactivity, routine, put>>

\* Spin until a character comes or the host is missed; then see which it was.
ReadSpin ==
  /\ At("read_spin")
  /\ call.in # rx_in \/ NoHost
  /\ Goto("read_check")
  /\ Local
ReadCheck ==
  /\ At("read_check")
  /\ IF call.in = rx_in THEN Return ELSE Again("read", 0)
  /\ Local

MutReadEnable ==                                 \* mutant: only for a full count
  /\ At("read_enable")
  /\ irq_enable' = IF call.count = 0 THEN irq_enable \cup {"RE"} ELSE irq_enable
  /\ Return
  /\ UNCHANGED <<device, host, rx, tx, inactivity, routine, put, got>>
\* There is space in the buffer again.
ReadEnable ==
  /\ At("read_enable")
  /\ irq_enable' = irq_enable \cup {"RE"}
  /\ Return
  /\ UNCHANGED <<device, host, rx, tx, inactivity, routine, put, got>>

\* One turn of the copying loop of write(): look at the indices and choose one piece of
\* the free space; then copy into it and move tx_in.
Free(i, o) ==
  IF i < o THEN o - 1 - i ELSE IF o > 0 THEN BUF_LEN - i ELSE BUF_LEN - 1 - i
WriteLook ==
  /\ At("write")
  /\ call' = IF call.count > 0
             THEN [call EXCEPT !.in = tx_in, !.out = tx_out,
                               !.pc = IF Free(tx_in, tx_out) > 0 THEN "write_advance"
                                      ELSE "write_enable"]
             ELSE [call EXCEPT !.pc = "write_enable"]
  /\ Local
WriteAdvance ==
  LET n == Least(call.count, Free(call.in, call.out))
  IN  /\ At("write_advance")
      /\ tx_buf' = [i \in Index |-> IF i \in call.in .. call.in + n - 1
                                    THEN Plus(put, i - call.in) ELSE tx_buf[i]]
      /\ tx_in' = (call.in + n) % BUF_LEN
      /\ Again("write", n)
      /\ put' = Plus(put, n)
      /\ UNCHANGED <<device, host, irq_enable, rx, tx_out, inactivity, routine, got>>

\* Kick the interrupt routine, with interrupts disabled.
WriteEnable ==
  /\ At("write_enable")
  /\ irq_enable' = irq_enable \cup {"WE"}
  /\ IF call.count = 0 \/ call.nonblock THEN Return ELSE Goto("write_spin")
  /\ UNCHANGED <<device, host, rx, tx, inactivity, routine, put, got>>

\* Spin until the routine has made space or the host is missed; then give up if the host
\* missed its last second.
WriteSpin ==
  /\ At("write_spin")
  /\ call.out # tx_out \/ NoHost
  /\ Goto("write_check")
  /\ Local
WriteCheck ==
  /\ At("write_check")
  /\ IF host_inactive > 0 THEN Return ELSE Again("write", 0)
  /\ Local

\* close() waits for the transmit buffer to drain.
CloseWait ==
  /\ At("close")
  /\ tx_in = tx_out \/ NoHost \/ call.nonblock
  /\ Return
  /\ Local

Working == ReadCopy \/ ReadAdvance \/ ReadSpin \/ ReadCheck \/ ReadEnable
           \/ WriteLook \/ WriteAdvance \/ WriteEnable \/ WriteSpin \/ WriteCheck
           \/ CloseWait
Program == Working \/ Read \/ Write \/ Close \/ SetTimeout

----
(* The host at its end of the device.  It sends a character, pauses, or takes a  *)
(* character; the first two count as its presence.  It does any of them or none. *)

driver == <<irq_enable, rx, tx, inactivity, routine>>

HostSend ==
  /\ Len(rx_fifo) < RxDepth
  /\ rx_fifo' = Append(rx_fifo, sent) /\ sent' = Plus(sent, 1)
  /\ ac' = TRUE
  /\ UNCHANGED <<tx_fifo, pause_irq, received, driver, program>>
HostPause ==
  /\ ac' = TRUE
  /\ pause_irq' = (pause_irq \/ rx_fifo # <<>>)
  /\ UNCHANGED <<rx_fifo, tx_fifo, host, driver, program>>
HostReceive ==
  /\ tx_fifo # <<>>
  /\ tx_fifo' = Tail(tx_fifo) /\ received' = Plus(received, 1)
  /\ UNCHANGED <<rx_fifo, ac, pause_irq, sent, driver, program>>

Init ==
  /\ rx_fifo = <<>> /\ tx_fifo = <<>> /\ ac = FALSE /\ pause_irq = FALSE
  /\ sent = 0 /\ received = 0
  /\ irq_enable = {"RE"}
  /\ rx_buf = [i \in Index |-> 0] /\ rx_in = 0 /\ rx_out = 0
  /\ tx_buf = [i \in Index |-> 0] /\ tx_in = 0 /\ tx_out = 0
  /\ host_inactive = 0 /\ timeout \in {Default, INT_MAX}
  /\ isr = "none" /\ control = NoControl
  /\ call = NoCall /\ put = 0 /\ got = 0

Next ==
  \/ Irq \/ Timeout \/ Program
  \/ HostSend \/ HostPause \/ HostReceive

\* The processor runs the program and, first of all, interrupts; the clock ticks.
\* Nothing is assumed of the host.
Fairness == WF_vars(Irq) /\ WF_vars(Working) /\ WF_vars(Timeout)
Spec == Init /\ [][Next]_vars /\ Fairness

----
\* From the host to the program, and back: the two channels, oldest character first.
Inbound == Held(rx_buf, rx_in, rx_out) \o rx_fifo
Outbound == tx_fifo \o Held(tx_buf, tx_in, tx_out)
Consecutive(s, from, to) ==
  /\ \A k \in DOMAIN s : s[k] = Plus(from, k - 1)
  /\ to = Plus(from, Len(s))

\* Nothing is lost, repeated or reordered in either direction, whatever interrupt comes
\* between the indices' being read and moved (jtag_uart_read.c:122-140, write.c:106-126,
\* init.c:125-184).
CharactersInOrder == Consecutive(Inbound, got, sent) /\ Consecutive(Outbound, received, put)

\* An interrupt is disabled only while the program has something to do in the buffer that
\* ends in its being enabled: characters to read, or a call on its way to turn it on; and
\* never that of a transmit buffer with characters in it (init.c:156-166, 186-194).
InterruptsStayArmed ==
  /\ "RE" \notin irq_enable => rx_in # rx_out \/ call.pc \in {"read", "read_enable"}
  /\ "WE" \notin irq_enable =>
       tx_in = tx_out \/ call.pc \in {"write", "write_enable", "write_advance"}

\* write() and close() do not wait for ever for a host that takes what it is sent, nor,
\* with a clock and a timeout it can reach, for one that is silent; they do wait for one
\* that takes nothing but pauses (jtag_uart_write.c:183-188, init.c:247-252).
WriteReturns ==
  WF_vars(HostReceive) \/ <>[][~(HostSend \/ HostPause)]_vars =>
    ((call.pc \in {"write_spin", "write_check", "close"} /\ timeout <= INT_MAX - 2)
      ~> (call.pc = "idle"))

\* A read() that spins does not miss what is in the FIFO for ever, if the host pauses
\* again and again: the characters a full buffer left behind raise no interrupt before
\* (init.c:130-167, read.c:167-174, 190-197).
ReadWakesUp ==
  WF_vars(HostPause) =>
    ((call.pc = "read_spin" /\ rx_fifo # <<>>) ~> (call.pc # "read_spin"))
====
