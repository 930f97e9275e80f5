---- MODULE USBHost ----
(* The keyboard program of Lab 8 (usb_kb/main.c, usb.c) against the CY7C67200  *)
(* it commands through the HPI: reset, enumeration in nine control requests,   *)
(* polling for the keycode, hot plug.  The program and the chip share the      *)
(* chip's RAM and the SIE1 message register without a lock; a step of the      *)
(* program is one access that matters to the other side.                       *)
EXTENDS Integers, Sequences

CONSTANTS
  Keys,            \* keycodes a keyboard may report
  Descriptor,      \* what a descriptor has where the program later keeps the packet size
  InsertRetries,   \* looks at the port before giving up, main.c:140
  RemoveRetries    \* the same while polling, main.c:530

ASSUME KeysAssumption == Keys \subseteq 0 .. 255
ASSUME DescriptorAssumption == Descriptor \in 0 .. 255
ASSUME RetriesAssumption == InsertRetries \in Nat \ {0} /\ RemoveRetries \in Nat \ {0}

----
(* Transfer descriptors.  A request is a list of TDs from \h500 on, six words  *)
(* each, with the eight bytes of the setup packet behind the first.  All the   *)
(* program's behaviour depends on is the device address of a list, where its   *)
(* TDs lie and where its data phases are to be stored.                          *)
ControlRequest(address, buffers) == [address |-> address, in |-> buffers]
Buffer(start, length) == [start |-> start, length |-> length]

UsbSetAddress == ControlRequest(0, <<>>)
UsbGetDeviceDesc1 == ControlRequest(2, <<Buffer(\h52C, 8)>>)
UsbGetDeviceDesc2 == ControlRequest(2, <<Buffer(\h544, 8), Buffer(\h54C, 8), Buffer(\h554, 2)>>)
UsbGetConfigDesc1 == ControlRequest(2, <<Buffer(\h544, 8), Buffer(\h54C, 1)>>)
UsbGetConfigDesc2 == ControlRequest(2, <<Buffer(\h55C, 8), Buffer(\h564, 8), Buffer(\h56C, 8),
                                         Buffer(\h574, 8), Buffer(\h57C, 2)>>)
UsbSetConfig == ControlRequest(2, <<>>)
UsbClassRequest == ControlRequest(2, <<>>)
UsbGetHidDesc == ControlRequest(2, <<Buffer(\h544, 8)>>)
UsbGetReportDesc == ControlRequest(2,
  [i \in 1 .. 8 |-> Buffer(\h580 + 8 * (i - 1), IF i = 8 THEN 3 ELSE 8)])

\* Steps 3 to 9 of main(), in their order.
Requests == <<UsbSetAddress, UsbGetDeviceDesc1, UsbGetDeviceDesc2, UsbGetConfigDesc1,
              UsbGetConfigDesc2, UsbSetConfig, UsbClassRequest, UsbGetHidDesc,
              UsbGetReportDesc>>
SetAddressStep == 1
ConfigDesc2Step == 5
SetConfigStep == 6
PollStep == 10

\* The second TD starts at \h514, and its last word, at \h51E, points to the third:
\* where the keycode of a report will be stored later.
LinkAt51E(request) == IF request.in = <<>> THEN 0 ELSE \h520
StoresAt(request, address) ==
  \E i \in DOMAIN request.in :
    address \in request.in[i].start .. request.in[i].start + request.in[i].length - 1

VARIABLES
  pc,               \* the program's next access
  step,             \* the request being worked on, PollStep in the last loop
  val,              \* usb_ctl_val where it was read from the message register or a TD
  hot_plug_count,
  toggle,           \* toggle % 2
  data_size,
  keycode,          \* the keycode port, which the ball reads
  mailbox,          \* the chip's outgoing mailbox
  mail_flag,        \* HPI_STATUS: mailbox
  msg_flag,         \* HPI_STATUS_SIE1msg_FLAG
  msg,              \* the SIE1 message register, a bit map
  cmd,              \* mailbox command the chip has not executed yet
  ptr,              \* HUSB_SIE1_pCurrentTDPtr
  data_phase,       \* the chip has done the first TD of the list
  list,             \* the request in the chip's RAM at \h500
  taken,            \* the request the chip works on, or worked on last
  control,          \* word \h508, the control byte of its first TD
  word51E, word57C, \* these words of the chip's RAM
  device,           \* the keyboard
  device_toggle,    \* the data toggle of its interrupt endpoint
  answered,         \* history: the requests whose first TD it answered since the bus reset
  fault             \* history: the worst since the last reset: a request not answered,
                    \* a change of the device, a completion more than was asked for

program == <<pc, step, val, hot_plug_count, toggle, data_size, keycode>>
registers == <<mailbox, mail_flag, msg_flag, msg>>
lists == <<ptr, data_phase, list, taken, control, word51E, word57C>>
environment == <<device, device_toggle, answered>>
vars == <<program, registers, cmd, lists, environment, fault>>

Bits == {"done", "change"}          \* HUSB_TDListDone; device inserted or removed
Done == {"done"}
DeviceStates == {"absent", "powered", "default", "addressed", "configured"}
Present == device # "absent"        \* usb_ctl_val & no_device
Words == {0, 8, \h520, Descriptor} \cup Keys

TypeOK ==
  /\ pc \in {"USB_HOT_PLUG", "clear", "init", "status", "ack1", "reset", "ack2",
             "present", "insert_retry", "insert_wait", "submit", "submit_ptr", "check",
             "resubmit", "resubmit_ptr", "wait_read", "wait_clear", "control", "retry_read",
             "retry_clear", "retry_flag", "retry_control", "endpoint", "endpoint_ptr",
             "data_size", "keycode", "plugged", "remove_retry", "remove_wait"}
  /\ step \in 1 .. PollStep
  /\ val \subseteq Bits
  /\ hot_plug_count \in Nat
  /\ toggle \in 0 .. 1
  /\ data_size \in 0 .. 255 /\ keycode \in 0 .. 255
  /\ mailbox \in {"other", "COMM_ACK"}
  /\ mail_flag \in BOOLEAN /\ msg_flag \in BOOLEAN
  /\ msg \subseteq Bits
  /\ cmd \in {"none", "HUSB_SIE1_INIT_INT", "HUSB_RESET_INT"}
  /\ ptr \in {"null", "h500", "h576"}
  /\ data_phase \in BOOLEAN
  /\ list \in 1 .. PollStep /\ taken \in 1 .. PollStep
  /\ control \in {"fresh", "done", "failed"}
  /\ word51E \in Words /\ word57C \in Words
  /\ device \in DeviceStates
  /\ device_toggle \in 0 .. 1
  /\ answered \subseteq 1 .. PollStep - 1
  /\ fault \in {"none", "error", "change", "extra"}

----
(* The program: reset and initialisation, steps 1 and 2.                       *)

Goto(l) == pc' = l

\* The worse of what went wrong before and now.
Noted(what) ==
  CASE fault = "extra" \/ what = "extra" -> "extra"
    [] fault # "extra" /\ what = "change" -> "change"
    [] OTHER -> IF fault = "none" THEN what ELSE fault

\* UsbSoftReset(): COMM_RESET restarts the chip, and 600 ms later it is up.
HotPlug ==
  /\ pc = "USB_HOT_PLUG"
  /\ Goto("clear")
  /\ mailbox' = "other" /\ mail_flag' = FALSE
  /\ msg' = {} /\ msg_flag' = FALSE
  /\ cmd' = "none" /\ ptr' = "null" /\ data_phase' = FALSE
  /\ fault' = "none"
  /\ UNCHANGED <<step, val, hot_plug_count, toggle, data_size, keycode, list, taken,
                 control, word51E, word57C, environment>>

\* Its second half: the reads clear the flags, the writes the messages.
ClearMessages ==
  /\ pc = "clear"
  /\ Goto("init")
  /\ mail_flag' = FALSE /\ msg_flag' = FALSE /\ msg' = {}
  /\ UNCHANGED <<step, val, hot_plug_count, toggle, data_size, keycode, mailbox, cmd,
                 lists, environment, fault>>

InitSIE1 ==
  /\ pc = "init"
  /\ Goto("status")
  /\ msg' = {}
  /\ cmd' = "HUSB_SIE1_INIT_INT"
  /\ UNCHANGED <<step, val, hot_plug_count, toggle, data_size, keycode, mailbox,
                 mail_flag, msg_flag, lists, environment, fault>>

\* Any flag of HPI_STATUS ends the wait.
MutAwaitStatus ==                                \* mutant: waits for a message
  /\ pc = "status"
  /\ msg_flag
  /\ Goto("ack1")
  /\ UNCHANGED <<step, val, hot_plug_count, toggle, data_size, keycode, registers, cmd,
                 lists, environment, fault>>
AwaitStatus ==
  /\ pc = "status"
  /\ mail_flag \/ msg_flag
  /\ Goto("ack1")
  /\ UNCHANGED <<step, val, hot_plug_count, toggle, data_size, keycode, registers, cmd,
                 lists, environment, fault>>

\* The answer to the first command, and to the second, for which nobody waits.
ReadAck ==
  /\ pc \in {"ack1", "ack2"}
  /\ mail_flag' = FALSE
  /\ Goto(IF mailbox # "COMM_ACK" THEN "USB_HOT_PLUG"
          ELSE IF pc = "ack1" THEN "reset" ELSE "present")
  /\ UNCHANGED <<step, val, hot_plug_count, toggle, data_size, keycode, mailbox, msg_flag,
                 msg, cmd, lists, environment, fault>>

HusbReset ==
  /\ pc = "reset"
  /\ Goto("ack2")
  /\ cmd' = "HUSB_RESET_INT"
  /\ UNCHANGED <<step, val, hot_plug_count, toggle, data_size, keycode, registers, lists,
                 environment, fault>>

\* One turn of a loop that looks at the port again; the counter is 0 outside of it.
CountLook(retries, otherwise) ==
  LET last == hot_plug_count + 1 = retries
  IN  /\ hot_plug_count' = IF Present \/ last THEN 0 ELSE hot_plug_count + 1
      /\ Goto(IF Present THEN "submit" ELSE IF last THEN otherwise ELSE pc)

\* Is there a keyboard?  One that appears during the retries is enumerated at once, one
\* that appears later after another reset.
LookForDevice ==
  /\ \/ /\ pc = "present"
        /\ Goto(IF Present THEN "submit" ELSE "insert_retry")
        /\ UNCHANGED hot_plug_count
     \/ /\ pc = "insert_retry"
        /\ CountLook(InsertRetries, "insert_wait")
     \/ /\ pc = "insert_wait"
        /\ Present
        /\ Goto("USB_HOT_PLUG")
        /\ UNCHANGED hot_plug_count
  /\ step' = SetAddressStep
  /\ UNCHANGED <<val, toggle, data_size, keycode, registers, cmd, lists, environment, fault>>

----
(* The program: a request, steps 3 to 9, and a poll.                           *)

\* Write the TD list, its control byte included, over the one before, at which the chip
\* may still be at work: what it finishes meanwhile, it finishes before the control byte is
\* written or after, and what it reads half written is the old list or the new.  A poll's
\* list is one TD.
WriteList ==
  /\ list' = step
  /\ control' = "fresh"
  /\ word51E' = IF step = PollStep THEN word51E ELSE LinkAt51E(Requests[step])
  /\ UNCHANGED <<ptr, data_phase, taken, word57C>>

Submit ==
  /\ pc = "submit"
  /\ toggle' = IF step = PollStep THEN 1 - toggle ELSE toggle
  /\ WriteList
  /\ Goto("submit_ptr")
  /\ UNCHANGED <<step, val, hot_plug_count, data_size, keycode, registers, cmd, environment,
                 fault>>

MutWritePointer ==                               \* mutant: no look at the status then
  /\ pc \in {"submit_ptr", "resubmit_ptr"}
  /\ ptr' = "h500" /\ data_phase' = FALSE /\ taken' = list
  /\ fault' = IF pc = "resubmit_ptr" /\ ptr = "null" THEN Noted("extra") ELSE fault
  /\ Goto("wait_read")
  /\ UNCHANGED <<step, val, hot_plug_count, toggle, data_size, keycode, registers, cmd, list,
                 control, word51E, word57C, environment>>
\* Then point the chip at it: it starts with the first TD, whatever it was at before.  A
\* list that has just been completed is done once more, and that was one too many.
WritePointer ==
  /\ pc \in {"submit_ptr", "resubmit_ptr"}
  /\ ptr' = "h500" /\ data_phase' = FALSE /\ taken' = list
  /\ fault' = IF pc = "resubmit_ptr" /\ ptr = "null" THEN Noted("extra") ELSE fault
  /\ Goto("check")
  /\ UNCHANGED <<step, val, hot_plug_count, toggle, data_size, keycode, registers, cmd, list,
                 control, word51E, word57C, environment>>

\* The look at HPI_STATUS; without a message the list is submitted again.
CheckFlag ==
  /\ pc = "check"
  /\ Goto(IF msg_flag THEN "wait_read" ELSE "resubmit")
  /\ UNCHANGED <<step, val, hot_plug_count, toggle, data_size, keycode, registers, cmd,
                 lists, environment, fault>>
Resubmit ==
  /\ pc = "resubmit"
  /\ WriteList
  /\ Goto("resubmit_ptr")
  /\ UNCHANGED <<step, val, hot_plug_count, toggle, data_size, keycode, registers, cmd,
                 environment, fault>>

\* UsbWaitTDListDone(): reading the message register clears the flag; the register is
\* cleared by a second access; nothing but the plain HUSB_TDListDone ends the loop.
WaitRead ==
  /\ pc = "wait_read"
  /\ val' = msg
  /\ msg_flag' = FALSE
  /\ Goto("wait_clear")
  /\ UNCHANGED <<step, hot_plug_count, toggle, data_size, keycode, mailbox, mail_flag, msg,
                 cmd, lists, environment, fault>>
WaitClear ==
  /\ pc = "wait_clear"
  /\ msg' = {}
  /\ Goto(IF val # Done THEN "wait_read"
          ELSE IF step = PollStep THEN "keycode" ELSE "control")
  /\ UNCHANGED <<step, val, hot_plug_count, toggle, data_size, keycode, mailbox, mail_flag,
                 msg_flag, cmd, lists, environment, fault>>

NextRequest ==
  /\ Goto(IF step = ConfigDesc2Step THEN "endpoint" ELSE "submit")
  /\ step' = IF step = ConfigDesc2Step THEN step ELSE step + 1

\* The control byte is \h03 once the device has answered the first TD.  A failed
\* SetAddress starts everything over; a later request only reads the byte again.
MutCheckControl ==                               \* mutant: control byte not looked at
  /\ pc = "control"
  /\ NextRequest
  /\ UNCHANGED <<val, hot_plug_count, toggle, data_size, keycode, registers, cmd, lists,
                 environment, fault>>
CheckControl ==
  /\ pc = "control"
  /\ IF control = "done" THEN NextRequest
     ELSE Goto("retry_read") /\ UNCHANGED step
  /\ UNCHANGED <<val, hot_plug_count, toggle, data_size, keycode, registers, cmd, lists,
                 environment, fault>>

\* UsbGetRetryCnt().
RetryRead ==
  /\ pc = "retry_read"
  /\ msg_flag' = FALSE
  /\ Goto(IF msg = Done THEN "retry_clear" ELSE "retry_control")
  /\ UNCHANGED <<step, val, hot_plug_count, toggle, data_size, keycode, mailbox, mail_flag,
                 msg, cmd, lists, environment, fault>>
RetryClear ==
  /\ pc = "retry_clear"
  /\ msg' = {}
  /\ Goto("retry_flag")
  /\ UNCHANGED <<step, val, hot_plug_count, toggle, data_size, keycode, mailbox, mail_flag,
                 msg_flag, cmd, lists, environment, fault>>
RetryFlag ==
  /\ pc = "retry_flag"
  /\ msg_flag
  /\ Goto("retry_control")
  /\ UNCHANGED <<step, val, hot_plug_count, toggle, data_size, keycode, registers, cmd,
                 lists, environment, fault>>
RetryControl ==
  /\ pc = "retry_control"
  /\ IF step = SetAddressStep THEN Goto("USB_HOT_PLUG") /\ UNCHANGED step
     ELSE IF control = "done" THEN NextRequest
     ELSE Goto("retry_read") /\ UNCHANGED step
  /\ UNCHANGED <<val, hot_plug_count, toggle, data_size, keycode, registers, cmd, lists,
                 environment, fault>>

\* Between steps 6 and 7 the program writes a descriptor of the endpoint into the RAM,
\* points the chip at it as if it were a TD, and reads the packet size back.
WriteEndpoint ==
  /\ pc = "endpoint"
  /\ word57C' = 8
  /\ Goto("endpoint_ptr")
  /\ UNCHANGED <<step, val, hot_plug_count, toggle, data_size, keycode, registers, cmd, ptr,
                 data_phase, list, taken, control, word51E, environment, fault>>
PointAtEndpoint ==
  /\ pc = "endpoint_ptr"
  /\ ptr' = "h576" /\ data_phase' = FALSE
  /\ Goto("data_size")
  /\ UNCHANGED <<step, val, hot_plug_count, toggle, data_size, keycode, registers, cmd,
                 list, taken, control, word51E, word57C, environment, fault>>
MutReadDataSize ==                               \* mutant: high byte, as in main.c:351
  /\ pc = "data_size"
  /\ data_size' = word57C \div 256
  /\ step' = SetConfigStep
  /\ Goto("submit")
  /\ UNCHANGED <<val, hot_plug_count, toggle, keycode, registers, cmd, lists, environment,
                 fault>>
ReadDataSize ==
  /\ pc = "data_size"
  /\ data_size' = word57C % 256
  /\ step' = SetConfigStep
  /\ Goto("submit")
  /\ UNCHANGED <<val, hot_plug_count, toggle, keycode, registers, cmd, lists, environment,
                 fault>>

----
(* The program: the keycode, and hot plug.                                      *)

MutPublishKeycode ==                             \* mutant: both keycodes of the word
  /\ pc = "keycode"
  /\ keycode' = word51E
  /\ Goto("plugged")
  /\ UNCHANGED <<step, val, hot_plug_count, toggle, data_size, registers, cmd, lists,
                 environment, fault>>
PublishKeycode ==
  /\ pc = "keycode"
  /\ keycode' = word51E % 256
  /\ Goto("plugged")
  /\ UNCHANGED <<step, val, hot_plug_count, toggle, data_size, registers, cmd, lists,
                 environment, fault>>

MutCheckRemoval ==                               \* mutant: polls on after the last look
  /\ pc \in {"plugged", "remove_retry", "remove_wait"}
  /\ Goto("submit")
  /\ UNCHANGED <<step, val, hot_plug_count, toggle, data_size, keycode, registers, cmd,
                 lists, environment, fault>>
CheckRemoval ==
  /\ \/ /\ pc = "plugged"
        /\ Goto(IF Present THEN "submit" ELSE "remove_retry")
        /\ UNCHANGED hot_plug_count
     \/ /\ pc = "remove_retry"
        /\ CountLook(RemoveRetries, "remove_wait")
     \/ /\ pc = "remove_wait"
        /\ Present
        /\ Goto("USB_HOT_PLUG")
        /\ UNCHANGED hot_plug_count
  /\ UNCHANGED <<step, val, toggle, data_size, keycode, registers, cmd, lists, environment,
                 fault>>

Program ==
  \/ HotPlug \/ ClearMessages \/ InitSIE1 \/ AwaitStatus \/ ReadAck \/ HusbReset
  \/ LookForDevice \/ Submit \/ WritePointer \/ CheckFlag \/ Resubmit
  \/ WaitRead \/ WaitClear
  \/ CheckControl \/ RetryRead \/ RetryClear \/ RetryFlag \/ RetryControl
  \/ WriteEndpoint \/ PointAtEndpoint \/ ReadDataSize \/ PublishKeycode \/ CheckRemoval

----
(* The chip: a processor that executes a mailbox command, then the TD list.     *)
(* External; what the program relies on is stated in the README.                *)

PostMessage(b) == msg' \in {msg \cup b, b} /\ msg_flag' = TRUE

ExecuteCommand ==
  /\ cmd # "none"
  /\ cmd' = "none"
  /\ mailbox' = "COMM_ACK" /\ mail_flag' = TRUE
  /\ device' = IF cmd = "HUSB_RESET_INT" /\ Present THEN "default" ELSE device
  /\ IF cmd = "HUSB_RESET_INT" THEN answered' = {} /\ device_toggle' = 0
     ELSE UNCHANGED <<answered, device_toggle>>
  /\ UNCHANGED <<program, msg_flag, msg, lists, fault>>

\* Who answers a request: address 0 after a bus reset, address 2 once it was assigned, the
\* interrupt endpoint once the device is configured.
CanAnswer(request) ==
  CASE request = PollStep -> device = "configured"
    [] request = SetAddressStep -> device = "default"
    [] OTHER -> device \in {"addressed", "configured"}

\* The first TD.  A device that answers sets the control byte; without an answer the
\* list is over.  The list may be rewritten while the chip is at it, and the chip has
\* read the old one or the new.
SetupPhase ==
  /\ cmd = "none" /\ ptr = "h500" /\ ~data_phase
  /\ taken' \in {taken, list}
  /\ \/ /\ CanAnswer(taken')
        /\ control' = "done" /\ data_phase' = TRUE
        /\ answered' = (answered \cup {taken'}) \ {PollStep}
        /\ UNCHANGED <<ptr, msg, msg_flag, fault>>
     \/ /\ control' = "failed" /\ ptr' = "null"
        /\ PostMessage(Done)
        /\ fault' = IF taken' \in {SetAddressStep, PollStep} THEN fault
                    ELSE Noted("error")
        /\ UNCHANGED <<data_phase, answered>>
  /\ UNCHANGED <<program, mailbox, mail_flag, cmd, list, word51E, word57C, device,
                 device_toggle>>

\* A poll is answered with a report, which the chip stores if its toggle is the one
\* asked for, or not at all when no key has changed.
Report ==
  \/ UNCHANGED <<word51E, device_toggle>>
  \/ /\ device_toggle = 1 - toggle /\ data_size % 16 >= 4
     /\ word51E' \in Keys
     /\ device_toggle' = 1 - device_toggle
  \/ /\ device_toggle # 1 - toggle
     /\ device_toggle' = 1 - device_toggle
     /\ UNCHANGED word51E

\* The rest of the list.  One that is being rewritten may end without anything done.
FinishList ==
  /\ cmd = "none" /\ ptr = "h500" /\ data_phase
  /\ ptr' = "null" /\ data_phase' = FALSE
  /\ PostMessage(Done)
  /\ \/ /\ CanAnswer(taken)
        /\ device' = IF taken = SetAddressStep THEN "addressed"
                     ELSE IF taken = SetConfigStep THEN "configured" ELSE device
        /\ word57C' = IF taken # PollStep /\ StoresAt(Requests[taken], \h57C)
                      THEN Descriptor ELSE word57C
        /\ IF taken = PollStep THEN Report
           ELSE /\ device_toggle' = IF taken = SetConfigStep THEN 0 ELSE device_toggle
                /\ UNCHANGED word51E
     \/ /\ ~CanAnswer(taken) \/ list # taken
        /\ UNCHANGED <<device, device_toggle, word51E, word57C>>
  /\ UNCHANGED <<program, mailbox, mail_flag, cmd, list, taken, control, answered, fault>>

\* What the endpoint's descriptor does as a TD: nothing, or a list that ends at once.
EndpointList ==
  /\ cmd = "none" /\ ptr = "h576"
  /\ ptr' = "null"
  /\ \/ PostMessage(Done) /\ fault' = Noted("extra")
     \/ UNCHANGED <<msg, msg_flag, fault>>
  /\ UNCHANGED <<program, mailbox, mail_flag, cmd, data_phase, list, taken, control,
                 word51E, word57C, environment>>

Chip == ExecuteCommand \/ SetupPhase \/ FinishList \/ EndpointList

\* The user.  The chip may post a message about it.
PlugOrRemove ==
  /\ device' = IF Present THEN "absent" ELSE "powered"
  /\ \/ PostMessage({"change"}) /\ fault' = Noted("change")
     \/ UNCHANGED <<msg, msg_flag, fault>>
  /\ device_toggle' = 0 /\ answered' = {}
  /\ UNCHANGED <<program, mailbox, mail_flag, cmd, lists>>

Init ==
  /\ pc = "USB_HOT_PLUG" /\ step = SetAddressStep /\ val = {} /\ hot_plug_count = 0
  /\ toggle = 0 /\ data_size = 0 /\ keycode = 0
  /\ mailbox = "other" /\ mail_flag = FALSE /\ msg_flag = FALSE /\ msg = {}
  /\ cmd = "none" /\ ptr = "null" /\ data_phase = FALSE /\ list = SetAddressStep
  /\ taken = SetAddressStep /\ control = "fresh" /\ word51E = 0 /\ word57C = 0
  /\ device \in {"absent", "powered"} /\ device_toggle = 0
  /\ answered = {} /\ fault = "none"

Next == Program \/ Chip \/ PlugOrRemove

\* The program runs; the chip works on what it was given, and completes a list before the
\* next of its submissions, 10 ms apart, if not always then sometimes.
Fairness == WF_vars(Program) /\ WF_vars(Chip) /\ SF_vars(FinishList)

Spec == Init /\ [][Next]_vars /\ Fairness

----
Polling ==
  /\ step = PollStep
  /\ pc \in {"submit", "submit_ptr", "check", "resubmit", "resubmit_ptr", "wait_read",
            "wait_clear", "keycode", "plugged", "remove_retry", "remove_wait"}
Reset == device \notin {"absent", "powered"}   \* present since the last bus reset

\* No request of the enumeration is skipped, whatever the chip finishes between a
\* request's words and its pointer and whatever messages come between: the keyboard has
\* answered each of the nine since the bus reset (main.c:193, 223) - unless a request was
\* submitted again that had just been completed, or the list at \h576 was, too.
NoRequestSkipped ==
  Polling /\ Reset /\ fault # "extra" => answered = 1 .. PollStep - 1

\* "Call the appropriate function again if it wasn't processed successfully"
\* (main.c:210): polling starts when all nine requests were answered.
EveryRequestAnswered == Polling /\ Reset => answered = 1 .. PollStep - 1

\* Unless a completion may be taken for another request's, none is cut off behind its first
\* TD either, and the poll asks for the packet size written at \h57C (main.c:347, 355).
PollingIsReady ==
  Polling /\ Reset /\ fault \in {"none", "error"} => device = "configured" /\ data_size = 8

\* While the program waits for a completion, it is still to come or not yet read: the
\* unlocked read and clear of the register loses it (usb.c:531-532) only once a list
\* was completed twice, the list at \h576 was, or a request failed or the device changed.
CompletionNotLost ==
  pc \in {"check", "resubmit", "resubmit_ptr", "wait_read"} /\ fault = "none" =>
    ptr # "null" \/ "done" \in msg

\* As long as requests are answered and no message intervenes, the program gets to the
\* polling loop and keeps polling.
EnumerationCompletes ==
  <>[](Present /\ fault = "none" /\ control # "failed") => []<>(pc = "keycode")

\* A keyboard that is removed is missed (main.c:527-543).
RemovalIsNoticed ==
  (Polling /\ ~Present) ~> (Present \/ pc = "remove_wait" \/ fault # "none")

\* The keycode the ball obeys is one that the keyboard reported (main.c:516).
KeycodeWasReported == keycode \in {0} \cup Keys
====
