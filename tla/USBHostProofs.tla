---- MODULE USBHostProofs ----
(* For every set of keycodes, every descriptor and any number of looks at the    *)
(* port: types, that no request of the enumeration is skipped unless a request   *)
(* was completed twice, that no completion is lost while nothing intervenes, and *)
(* that the keyboard that is polled is configured.                               *)
EXTENDS USBHost, TLAPS

----
(* The inductive invariant.                                                     *)

\* The program works on a request, and has written its list.
Requesting == pc \in {"submit", "submit_ptr", "check", "resubmit", "resubmit_ptr",
                      "wait_read", "wait_clear", "control", "retry_read", "retry_clear",
                      "retry_flag", "retry_control", "endpoint", "endpoint_ptr", "data_size",
                      "keycode", "plugged", "remove_retry", "remove_wait"}
Submitted == Requesting /\ pc # "submit"
\* It waits for the completion of the list.
Awaiting == pc \in {"check", "resubmit", "resubmit_ptr", "wait_read", "wait_clear"}

\* No list has been completed a second time since the last reset.
Once == fault # "extra"

\* As long as that is so, the chip is at a list only while the program waits for it, and
\* what it is at is the request that lies there.  It has posted no completion of it before
\* it is done, so the next request is written only over one that the chip has finished.
CompletedOnce ==
  Once =>
    /\ ~Awaiting => ptr # "h500" /\ "done" \notin msg
    /\ Awaiting => ptr # "h576"
    /\ ptr = "h500" => taken = list /\ "done" \notin msg
    /\ pc = "wait_clear" /\ "done" \in val => ptr = "null"
    /\ pc \notin {"retry_clear", "retry_flag"}
    /\ pc = "submit_ptr" => control = "fresh"
    /\ Awaiting /\ data_phase /\ pc # "resubmit_ptr" => control = "done"
\* The chip goes beyond the first TD of the list it points at, and of no other.
PhaseOfList == data_phase => ptr = "h500"

\* A control byte that says done is then that of the present request, and was set by the
\* keyboard's answer; the requests before it have been answered, too, and no command to
\* the chip is left that would reset the bus.  None of it is lost but by a bus reset or
\* a removal, and after a removal only a bus reset makes the keyboard answer again.
ListIsCurrent == Submitted => list = step
DoneIsAnswered ==
  Once /\ Submitted /\ control = "done" =>
    cmd = "none" /\ (Reset /\ step # PollStep => step \in answered)
EarlierAnswered ==
  Once /\ Requesting /\ step # 1 =>
    cmd = "none" /\ (Reset => \A s \in 1 .. step - 1 : s \in answered)
ConfigAnswered ==
  pc \in {"endpoint", "endpoint_ptr", "data_size"} =>
    step = ConfigDesc2Step /\ (Once /\ Reset => step \in answered)
\* Only a request looks at the control byte, only a poll at the keycode.
RequestAtControl ==
  /\ pc \in {"control", "retry_read", "retry_clear", "retry_flag", "retry_control"} =>
       step # PollStep
  /\ pc \in {"keycode", "plugged", "remove_retry", "remove_wait"} => step = PollStep
Answered ==
  /\ ListIsCurrent /\ DoneIsAnswered /\ EarlierAnswered /\ ConfigAnswered
  /\ RequestAtControl

\* Since the last reset no completion was taken for that of another list; a list that
\* failed is no such thing, it only stops the enumeration.
Orderly == fault \in {"none", "error"}

\* As long as that is so, the message register and its flag tell exactly whether the
\* list submitted has been completed.
Silent == msg = {} /\ ~msg_flag
Completed == ptr = "null" /\ msg = Done
Before == {"clear", "init", "status", "ack1", "reset", "ack2", "present", "insert_retry",
           "insert_wait"}
Idle == {"submit", "submit_ptr", "control", "retry_read", "retry_control", "endpoint",
         "endpoint_ptr", "data_size", "keycode", "plugged", "remove_retry", "remove_wait"}
Undisturbed ==
  Orderly =>
    /\ pc \in Before => Silent /\ ptr = "null"
    /\ pc \in Idle => Silent /\ ptr # "h500"
    /\ pc \in {"check", "resubmit", "resubmit_ptr"} => \/ ptr = "h500" /\ Silent
                                                       \/ Completed /\ msg_flag
    /\ pc = "wait_read" => Completed
    /\ pc = "wait_clear" => val = Done /\ ptr = "null" /\ ~msg_flag
    /\ pc \notin {"retry_clear", "retry_flag"}

\* ... so a request the program has left behind was carried out to its last TD, and the
\* keyboard is in the state the present one finds it in: SetAddress and SetConfig change
\* it when their lists end.  A list that ends between the words and the pointer of another
\* submission is about to be done a second time, and the end of the order.
Repeated == pc = "resubmit_ptr" /\ ptr = "null"
DeviceFollows ==
  Orderly /\ Requesting /\ Reset =>
    LET acknowledged == Submitted /\ control = "done" /\ ptr # "h500"
    IN  /\ step = SetAddressStep /\ Submitted /\ control = "done" /\ ~Repeated =>
             device = IF acknowledged THEN "addressed" ELSE "default"
        /\ step \in SetAddressStep + 1 .. SetConfigStep - 1 => device = "addressed"
        /\ step = SetConfigStep /\ ~Repeated =>
             device = IF acknowledged THEN "configured" ELSE "addressed"
        /\ step \in SetConfigStep + 1 .. PollStep => device = "configured"

\* ... and no list is under way that could overwrite the endpoint's packet size between
\* its two accesses.
PacketSizeKept ==
  Orderly =>
    /\ pc \in {"endpoint_ptr", "data_size"} => word57C = 8
    /\ Requesting /\ step \in SetConfigStep .. PollStep => data_size = 8

\* TypeOK in parts, for the provers.
Flags == mail_flag \in BOOLEAN /\ msg_flag \in BOOLEAN /\ data_phase \in BOOLEAN
Messages == val \subseteq Bits /\ msg \subseteq Bits
Numbers ==
  /\ step \in 1 .. PollStep /\ list \in 1 .. PollStep /\ taken \in 1 .. PollStep
  /\ hot_plug_count \in Nat /\ toggle \in 0 .. 1 /\ device_toggle \in 0 .. 1
Bytes ==
  /\ data_size \in 0 .. 255 /\ keycode \in 0 .. 255
  /\ word51E \in Words /\ word57C \in Words
Names ==
  /\ mailbox \in {"other", "COMM_ACK"}
  /\ cmd \in {"none", "HUSB_SIE1_INIT_INT", "HUSB_RESET_INT"}
  /\ ptr \in {"null", "h500", "h576"}
  /\ control \in {"fresh", "done", "failed"}
  /\ device \in DeviceStates
  /\ answered \subseteq 1 .. PollStep - 1
  /\ fault \in {"none", "error", "change", "extra"}
Labels ==
  pc \in {"USB_HOT_PLUG", "submit", "submit_ptr", "check", "resubmit", "resubmit_ptr",
          "wait_read", "wait_clear", "control", "retry_read", "retry_clear", "retry_flag",
          "retry_control", "endpoint", "endpoint_ptr", "data_size", "keycode", "plugged",
          "remove_retry", "remove_wait"} \cup Before

IInv ==
  /\ Flags /\ Messages /\ Numbers /\ Bytes /\ Names /\ Labels
  /\ CompletedOnce /\ PhaseOfList /\ Answered
  /\ Undisturbed /\ DeviceFollows /\ PacketSizeKept

USE DEF SetAddressStep, ConfigDesc2Step, SetConfigStep, PollStep,
        program, registers, lists, environment, vars, Goto, Noted

----
(* Every step keeps every part of it.                                           *)

\* The flags stay flags.
LEMMA FlagsKept == Flags /\ [Next]_vars => Flags'
<1> SUFFICES ASSUME Flags, [Next]_vars  PROVE Flags'
  OBVIOUS
<1> USE DEF Flags
<1>1. CASE HotPlug \/ ClearMessages \/ InitSIE1 \/ AwaitStatus \/ ReadAck \/ HusbReset
  BY <1>1, Zenon DEF HotPlug, ClearMessages, InitSIE1, AwaitStatus, ReadAck, HusbReset
<1>2. CASE LookForDevice \/ PublishKeycode \/ CheckRemoval
  BY <1>2 DEF LookForDevice, PublishKeycode, CheckRemoval, CountLook, Present
<1>3. CASE Submit \/ WritePointer \/ CheckFlag \/ Resubmit
  <2>1. /\ mail_flag' = mail_flag /\ msg_flag' = msg_flag
        /\ data_phase' = FALSE \/ data_phase' = data_phase
    BY <1>3 DEF Submit, WritePointer, CheckFlag, Resubmit, WriteList
  <2> QED  BY <2>1, Zenon
<1>4. CASE WaitRead \/ WaitClear
  BY <1>4 DEF WaitRead, WaitClear, Done
<1>5. CASE CheckControl \/ RetryControl
  BY <1>5 DEF CheckControl, RetryControl, NextRequest
<1>6. CASE RetryRead \/ RetryClear \/ RetryFlag
  BY <1>6 DEF RetryRead, RetryClear, RetryFlag, Done
<1>7. CASE WriteEndpoint \/ PointAtEndpoint \/ ReadDataSize
  BY <1>7 DEF WriteEndpoint, PointAtEndpoint, ReadDataSize
<1>8. CASE ExecuteCommand
  BY <1>8 DEF ExecuteCommand, Present
<1>9. CASE SetupPhase
  BY <1>9 DEF SetupPhase, CanAnswer, PostMessage, Done
<1>10. CASE FinishList
  <2>1. mail_flag' = mail_flag /\ msg_flag' = TRUE /\ data_phase' = FALSE
    BY <1>10 DEF FinishList, PostMessage
  <2> QED  BY <2>1, Zenon
<1>11. CASE EndpointList
  BY <1>11 DEF EndpointList, PostMessage, Done
<1>12. CASE PlugOrRemove
  BY <1>12 DEF PlugOrRemove, PostMessage, Present
<1>13. CASE UNCHANGED vars
  BY <1>13
<1> QED  BY <1>1, <1>2, <1>3, <1>4, <1>5, <1>6, <1>7, <1>8, <1>9, <1>10, <1>11, <1>12,
       <1>13 DEF Next, Program, Chip

\* The message register holds no other bits.
LEMMA MessagesKept == Messages /\ [Next]_vars => Messages'
<1> SUFFICES ASSUME Messages, [Next]_vars  PROVE Messages'
  OBVIOUS
<1> USE DEF Messages, Bits
<1>1. CASE HotPlug \/ ClearMessages \/ InitSIE1 \/ AwaitStatus \/ ReadAck \/ HusbReset
  BY <1>1 DEF HotPlug, ClearMessages, InitSIE1, AwaitStatus, ReadAck, HusbReset
<1>2. CASE LookForDevice \/ PublishKeycode \/ CheckRemoval
  BY <1>2 DEF LookForDevice, PublishKeycode, CheckRemoval, CountLook, Present
<1>3. CASE Submit \/ WritePointer \/ CheckFlag \/ Resubmit
  BY <1>3 DEF Submit, WritePointer, CheckFlag, Resubmit, WriteList
<1>4. CASE WaitRead \/ WaitClear
  BY <1>4 DEF WaitRead, WaitClear, Done
<1>5. CASE CheckControl \/ RetryControl
  BY <1>5 DEF CheckControl, RetryControl, NextRequest
<1>6. CASE RetryRead \/ RetryClear \/ RetryFlag
  BY <1>6 DEF RetryRead, RetryClear, RetryFlag, Done
<1>7. CASE WriteEndpoint \/ PointAtEndpoint \/ ReadDataSize
  BY <1>7 DEF WriteEndpoint, PointAtEndpoint, ReadDataSize
<1>8. CASE ExecuteCommand
  BY <1>8 DEF ExecuteCommand, Present
<1>9. CASE SetupPhase
  BY <1>9 DEF SetupPhase, CanAnswer, PostMessage, Done
<1>10. CASE FinishList
  BY <1>10 DEF FinishList, CanAnswer, Report, PostMessage, Done
<1>11. CASE EndpointList
  <2>1. msg' \subseteq Bits
    BY <1>11 DEF EndpointList, PostMessage, Done
  <2> QED  BY <1>11, <2>1 DEF EndpointList
<1>12. CASE PlugOrRemove
  <2>1. msg' \subseteq Bits
    BY <1>12 DEF PlugOrRemove, PostMessage
  <2> QED  BY <1>12, <2>1 DEF PlugOrRemove
<1>13. CASE UNCHANGED vars
  BY <1>13
<1> QED  BY <1>1, <1>2, <1>3, <1>4, <1>5, <1>6, <1>7, <1>8, <1>9, <1>10, <1>11, <1>12,
       <1>13 DEF Next, Program, Chip

\* A step is never past the last, a toggle is a bit.
LEMMA NumbersKept == Numbers /\ RequestAtControl /\ [Next]_vars => Numbers'
<1> SUFFICES ASSUME Numbers, RequestAtControl, [Next]_vars  PROVE Numbers'
  OBVIOUS
<1> USE DEF Numbers, RequestAtControl
<1>1. CASE HotPlug \/ ClearMessages \/ InitSIE1 \/ AwaitStatus \/ ReadAck \/ HusbReset
  BY <1>1 DEF HotPlug, ClearMessages, InitSIE1, AwaitStatus, ReadAck, HusbReset
<1>2. CASE LookForDevice \/ PublishKeycode \/ CheckRemoval
  BY <1>2 DEF LookForDevice, PublishKeycode, CheckRemoval, CountLook, Present
<1>3. CASE Submit \/ WritePointer \/ CheckFlag \/ Resubmit
  BY <1>3 DEF Submit, WritePointer, CheckFlag, Resubmit, WriteList
<1>4. CASE WaitRead \/ WaitClear
  BY <1>4 DEF WaitRead, WaitClear, Done
<1>5. CASE CheckControl \/ RetryControl
  BY <1>5 DEF CheckControl, RetryControl, NextRequest
<1>6. CASE RetryRead \/ RetryClear \/ RetryFlag
  BY <1>6 DEF RetryRead, RetryClear, RetryFlag, Done
<1>7. CASE WriteEndpoint \/ PointAtEndpoint \/ ReadDataSize
  BY <1>7 DEF WriteEndpoint, PointAtEndpoint, ReadDataSize
<1>8. CASE ExecuteCommand
  BY <1>8 DEF ExecuteCommand, Present
<1>9. CASE SetupPhase
  BY <1>9 DEF SetupPhase, CanAnswer, PostMessage, Done
<1>10. CASE FinishList
  BY <1>10 DEF FinishList, CanAnswer, Report, PostMessage, Done
<1>11. CASE EndpointList
  BY <1>11 DEF EndpointList, PostMessage, Done
<1>12. CASE PlugOrRemove
  BY <1>12 DEF PlugOrRemove, PostMessage, Present
<1>13. CASE UNCHANGED vars
  BY <1>13
<1> QED  BY <1>1, <1>2, <1>3, <1>4, <1>5, <1>6, <1>7, <1>8, <1>9, <1>10, <1>11, <1>12,
       <1>13 DEF Next, Program, Chip

\* The words of the RAM, and the bytes taken from them.
LEMMA BytesKept == Bytes /\ [Next]_vars => Bytes'
<1> SUFFICES ASSUME Bytes, [Next]_vars  PROVE Bytes'
  OBVIOUS
<1> USE DEF Bytes, Words
<1>1. CASE HotPlug \/ ClearMessages \/ InitSIE1 \/ AwaitStatus \/ ReadAck \/ HusbReset
  BY <1>1, KeysAssumption, DescriptorAssumption DEF HotPlug, ClearMessages, InitSIE1,
     AwaitStatus, ReadAck, HusbReset
<1>2. CASE LookForDevice \/ PublishKeycode \/ CheckRemoval
  BY <1>2, KeysAssumption, DescriptorAssumption DEF LookForDevice, PublishKeycode,
     CheckRemoval, CountLook, Present
<1>3. CASE Submit \/ WritePointer \/ CheckFlag \/ Resubmit
  <2>1. LinkAt51E(Requests[step]) \in {0, \h520}
    BY DEF LinkAt51E
  <2>2. UNCHANGED <<data_size, keycode, word57C>>
    BY <1>3 DEF Submit, WritePointer, CheckFlag, Resubmit, WriteList
  <2>3. word51E' = word51E \/ word51E' = LinkAt51E(Requests[step])
    <3>1. WriteList => word51E' = word51E \/ word51E' = LinkAt51E(Requests[step])
      BY DEF WriteList
    <3> QED  BY <1>3, <3>1 DEF Submit, WritePointer, CheckFlag, Resubmit
  <2> QED  BY <2>1, <2>2, <2>3
<1>4. CASE WaitRead \/ WaitClear
  BY <1>4, KeysAssumption, DescriptorAssumption DEF WaitRead, WaitClear, Done
<1>5. CASE CheckControl \/ RetryControl
  BY <1>5, KeysAssumption, DescriptorAssumption DEF CheckControl, RetryControl, NextRequest
<1>6. CASE RetryRead \/ RetryClear \/ RetryFlag
  BY <1>6, KeysAssumption, DescriptorAssumption DEF RetryRead, RetryClear, RetryFlag, Done
<1>7. CASE WriteEndpoint \/ PointAtEndpoint \/ ReadDataSize
  BY <1>7, KeysAssumption, DescriptorAssumption DEF WriteEndpoint, PointAtEndpoint, ReadDataSize
<1>8. CASE ExecuteCommand
  BY <1>8, KeysAssumption, DescriptorAssumption DEF ExecuteCommand, Present
<1>9. CASE SetupPhase
  BY <1>9, KeysAssumption, DescriptorAssumption DEF SetupPhase, CanAnswer, PostMessage,
     Done
<1>10. CASE FinishList
  BY <1>10, KeysAssumption, DescriptorAssumption DEF FinishList, CanAnswer, Report,
     PostMessage, Done
<1>11. CASE EndpointList
  BY <1>11, KeysAssumption, DescriptorAssumption DEF EndpointList, PostMessage, Done
<1>12. CASE PlugOrRemove
  BY <1>12, KeysAssumption, DescriptorAssumption DEF PlugOrRemove, PostMessage, Present
<1>13. CASE UNCHANGED vars
  BY <1>13
<1> QED  BY <1>1, <1>2, <1>3, <1>4, <1>5, <1>6, <1>7, <1>8, <1>9, <1>10, <1>11, <1>12,
       <1>13 DEF Next, Program, Chip

\* Commands, pointers and the keyboard.
LEMMA NamesKept == Names /\ Numbers /\ [Next]_vars => Names'
<1> SUFFICES ASSUME Names, Numbers, [Next]_vars  PROVE Names'
  OBVIOUS
<1> USE DEF Names, Numbers, DeviceStates
<1>1. CASE HotPlug \/ ClearMessages \/ InitSIE1 \/ AwaitStatus \/ ReadAck \/ HusbReset
  BY <1>1 DEF HotPlug, ClearMessages, InitSIE1, AwaitStatus, ReadAck, HusbReset
<1>2. CASE LookForDevice \/ PublishKeycode \/ CheckRemoval
  <2>1. CASE LookForDevice
    BY <2>1 DEF LookForDevice, CountLook
  <2>2. CASE PublishKeycode
    <3>1. UNCHANGED <<mailbox, cmd, ptr, control, device, answered, fault>>
      BY <2>2, Zenon DEF PublishKeycode
    <3> QED  BY <3>1
  <2>3. CASE CheckRemoval
    BY <2>3 DEF CheckRemoval, CountLook
  <2> QED  BY <1>2, <2>1, <2>2, <2>3
<1>3. CASE Submit \/ WritePointer \/ CheckFlag \/ Resubmit
  BY <1>3 DEF Submit, WritePointer, CheckFlag, Resubmit, WriteList
<1>4. CASE WaitRead \/ WaitClear
  BY <1>4 DEF WaitRead, WaitClear, Done
<1>5. CASE CheckControl \/ RetryControl
  BY <1>5 DEF CheckControl, RetryControl, NextRequest
<1>6. CASE RetryRead \/ RetryClear \/ RetryFlag
  BY <1>6 DEF RetryRead, RetryClear, RetryFlag, Done
<1>7. CASE WriteEndpoint \/ PointAtEndpoint \/ ReadDataSize
  <2>1. CASE WriteEndpoint \/ PointAtEndpoint
    BY <2>1 DEF WriteEndpoint, PointAtEndpoint
  <2>2. CASE ReadDataSize
    <3>1. UNCHANGED <<mailbox, cmd, ptr, control, device, answered, fault>>
      BY <2>2, Zenon DEF ReadDataSize
    <3> QED  BY <3>1
  <2> QED  BY <1>7, <2>1, <2>2
<1>8. CASE ExecuteCommand
  <2>1. device' \in DeviceStates /\ answered' \subseteq 1 .. PollStep - 1
    BY <1>8 DEF ExecuteCommand
  <2> QED  BY <1>8, <2>1 DEF ExecuteCommand
<1>9. CASE SetupPhase
  BY <1>9 DEF SetupPhase, CanAnswer, PostMessage, Done
<1>10. CASE FinishList
  BY <1>10 DEF FinishList, CanAnswer, Report, PostMessage, Done
<1>11. CASE EndpointList
  <2>1. fault' \in {"none", "error", "change", "extra"}
    BY <1>11 DEF EndpointList
  <2> QED  BY <1>11, <2>1 DEF EndpointList
<1>12. CASE PlugOrRemove
  <2>1. device' \in DeviceStates /\ fault' \in {"none", "error", "change", "extra"}
    BY <1>12 DEF PlugOrRemove
  <2> QED  BY <1>12, <2>1 DEF PlugOrRemove
<1>13. CASE UNCHANGED vars
  BY <1>13
<1> QED  BY <1>1, <1>2, <1>3, <1>4, <1>5, <1>6, <1>7, <1>8, <1>9, <1>10, <1>11, <1>12,
       <1>13 DEF Next, Program, Chip

\* The program.
LEMMA LabelsKept == Labels /\ [Next]_vars => Labels'
<1> SUFFICES ASSUME Labels, [Next]_vars  PROVE Labels'
  OBVIOUS
<1> USE DEF Labels, Before
<1>1. CASE HotPlug \/ ClearMessages \/ InitSIE1 \/ AwaitStatus \/ ReadAck \/ HusbReset
  BY <1>1 DEF HotPlug, ClearMessages, InitSIE1, AwaitStatus, ReadAck, HusbReset
<1>2. CASE LookForDevice \/ PublishKeycode \/ CheckRemoval
  BY <1>2 DEF LookForDevice, PublishKeycode, CheckRemoval, CountLook, Present
<1>3. CASE Submit \/ WritePointer \/ CheckFlag \/ Resubmit
  BY <1>3 DEF Submit, WritePointer, CheckFlag, Resubmit, WriteList
<1>4. CASE WaitRead \/ WaitClear
  BY <1>4 DEF WaitRead, WaitClear, Done
<1>5. CASE CheckControl \/ RetryControl
  BY <1>5 DEF CheckControl, RetryControl, NextRequest
<1>6. CASE RetryRead \/ RetryClear \/ RetryFlag
  BY <1>6 DEF RetryRead, RetryClear, RetryFlag, Done
<1>7. CASE WriteEndpoint \/ PointAtEndpoint \/ ReadDataSize
  BY <1>7 DEF WriteEndpoint, PointAtEndpoint, ReadDataSize
<1>8. CASE ExecuteCommand
  BY <1>8 DEF ExecuteCommand, Present
<1>9. CASE SetupPhase
  BY <1>9 DEF SetupPhase, CanAnswer, PostMessage, Done
<1>10. CASE FinishList
  BY <1>10 DEF FinishList, CanAnswer, Report, PostMessage, Done
<1>11. CASE EndpointList
  BY <1>11 DEF EndpointList, PostMessage, Done
<1>12. CASE PlugOrRemove
  BY <1>12 DEF PlugOrRemove, PostMessage, Present
<1>13. CASE UNCHANGED vars
  BY <1>13
<1> QED  BY <1>1, <1>2, <1>3, <1>4, <1>5, <1>6, <1>7, <1>8, <1>9, <1>10, <1>11, <1>12,
       <1>13 DEF Next, Program, Chip

\* No list is completed twice unnoticed.
LEMMA CompletedOnceKept == IInv /\ [Next]_vars => CompletedOnce' /\ PhaseOfList'
<1> SUFFICES ASSUME IInv, [Next]_vars  PROVE CompletedOnce' /\ PhaseOfList'
  OBVIOUS
<1> USE DEF IInv, Messages, Names, Labels, Bits, Before, Awaiting, Once, CompletedOnce,
       PhaseOfList
<1>1. CASE HotPlug \/ ClearMessages \/ InitSIE1 \/ AwaitStatus \/ ReadAck \/ HusbReset
  BY <1>1 DEF HotPlug, ClearMessages, InitSIE1, AwaitStatus, ReadAck, HusbReset
<1>2. CASE LookForDevice \/ PublishKeycode \/ CheckRemoval
  BY <1>2 DEF LookForDevice, PublishKeycode, CheckRemoval, CountLook, Present
<1>3. CASE Submit \/ WritePointer \/ CheckFlag \/ Resubmit
  <2>1. CASE Submit
    BY <2>1, Zenon DEF Submit, WriteList
  <2>2. CASE WritePointer
    <3>1. fault' = fault \/ fault' = "extra"
      BY <2>2 DEF WritePointer
    <3>2. /\ ptr' = "h500" /\ pc' = "check" /\ data_phase' = FALSE /\ taken' = list'
          /\ msg' = msg /\ list' = list
      BY <2>2 DEF WritePointer
    <3>3. Once' => "done" \notin msg
      <4>1. CASE pc = "submit_ptr"
        BY <3>1, <4>1
      <4>2. CASE pc = "resubmit_ptr"
        BY <2>2, <4>2 DEF WritePointer
      <4> QED  BY <2>2, <4>1, <4>2 DEF WritePointer
    <3> QED  BY <3>2, <3>3
  <2>3. CASE CheckFlag
    BY <2>3 DEF CheckFlag
  <2>4. CASE Resubmit
    <3>1. /\ pc = "resubmit" /\ pc' = "resubmit_ptr" /\ list' = step
          /\ UNCHANGED <<ptr, data_phase, taken, msg, val, fault>>
      BY <2>4 DEF Resubmit, WriteList
    <3>2. list = step
      BY <3>1 DEF Answered, ListIsCurrent, Submitted, Requesting
    <3> QED  BY <3>1, <3>2
  <2> QED  BY <1>3, <2>1, <2>2, <2>3, <2>4
<1>4. CASE WaitRead \/ WaitClear
  BY <1>4 DEF WaitRead, WaitClear, Done
<1>5. CASE CheckControl \/ RetryControl
  BY <1>5 DEF CheckControl, RetryControl, NextRequest
<1>6. CASE RetryRead \/ RetryClear \/ RetryFlag
  BY <1>6 DEF RetryRead, RetryClear, RetryFlag, Done
<1>7. CASE WriteEndpoint \/ PointAtEndpoint \/ ReadDataSize
  BY <1>7 DEF WriteEndpoint, PointAtEndpoint, ReadDataSize
<1>8. CASE ExecuteCommand
  BY <1>8 DEF ExecuteCommand, Present
<1>9. CASE SetupPhase
  BY <1>9 DEF SetupPhase, CanAnswer, PostMessage, Done
<1>10. CASE FinishList
  BY <1>10 DEF FinishList, CanAnswer, Report, PostMessage, Done
<1>11. CASE EndpointList
  BY <1>11 DEF EndpointList, PostMessage, Done
<1>12. CASE PlugOrRemove
  BY <1>12 DEF PlugOrRemove, PostMessage, Present
<1>13. CASE UNCHANGED vars
  BY <1>13
<1> QED  BY <1>1, <1>2, <1>3, <1>4, <1>5, <1>6, <1>7, <1>8, <1>9, <1>10, <1>11, <1>12,
       <1>13 DEF Next, Program, Chip

\* What the keyboard has answered.
LEMMA AnsweredKept == IInv /\ [Next]_vars => Answered'
<1> SUFFICES ASSUME IInv, [Next]_vars  PROVE Answered'
  OBVIOUS
<1> USE DEF IInv, Numbers, Names, Labels, Before, DeviceStates, Requesting, Submitted,
       Reset, Awaiting, Once, CompletedOnce, Answered, ListIsCurrent, DoneIsAnswered,
       EarlierAnswered, ConfigAnswered, RequestAtControl
<1>1. CASE HotPlug \/ ClearMessages \/ InitSIE1 \/ AwaitStatus \/ ReadAck \/ HusbReset
  BY <1>1 DEF HotPlug, ClearMessages, InitSIE1, AwaitStatus, ReadAck, HusbReset
<1>2. CASE LookForDevice \/ PublishKeycode \/ CheckRemoval
  BY <1>2 DEF LookForDevice, PublishKeycode, CheckRemoval, CountLook, Present
<1>3. CASE Submit \/ WritePointer \/ CheckFlag \/ Resubmit
  BY <1>3 DEF Submit, WritePointer, CheckFlag, Resubmit, WriteList
<1>4. CASE WaitRead \/ WaitClear
  BY <1>4 DEF WaitRead, WaitClear, Done
<1>5. CASE CheckControl \/ RetryControl
  BY <1>5 DEF CheckControl, RetryControl, NextRequest
<1>6. CASE RetryRead \/ RetryClear \/ RetryFlag
  BY <1>6 DEF RetryRead, RetryClear, RetryFlag, Done
<1>7. CASE WriteEndpoint \/ PointAtEndpoint \/ ReadDataSize
  BY <1>7 DEF WriteEndpoint, PointAtEndpoint, ReadDataSize
<1>8. CASE ExecuteCommand
  BY <1>8 DEF ExecuteCommand, Present
<1>9. CASE SetupPhase
  BY <1>9 DEF SetupPhase, CanAnswer, PostMessage, Done
<1>10. CASE FinishList
  BY <1>10 DEF FinishList, CanAnswer, Report, PostMessage, Done
<1>11. CASE EndpointList
  BY <1>11 DEF EndpointList, PostMessage, Done
<1>12. CASE PlugOrRemove
  BY <1>12 DEF PlugOrRemove, PostMessage, Present
<1>13. CASE UNCHANGED vars
  BY <1>13
<1> QED  BY <1>1, <1>2, <1>3, <1>4, <1>5, <1>6, <1>7, <1>8, <1>9, <1>10, <1>11, <1>12,
       <1>13 DEF Next, Program, Chip

\* The message register.
LEMMA UndisturbedKept == IInv /\ [Next]_vars => Undisturbed'
<1> SUFFICES ASSUME IInv, [Next]_vars  PROVE Undisturbed'
  OBVIOUS
<1> USE DEF IInv, Messages, Numbers, Names, Bits, Orderly, Undisturbed, Silent, Completed,
       Before, Idle
<1>1. CASE HotPlug \/ ClearMessages \/ InitSIE1 \/ AwaitStatus \/ ReadAck \/ HusbReset
  BY <1>1 DEF HotPlug, ClearMessages, InitSIE1, AwaitStatus, ReadAck, HusbReset
<1>2. CASE LookForDevice \/ PublishKeycode \/ CheckRemoval
  <2>1. CASE LookForDevice
    BY <2>1 DEF LookForDevice, CountLook
  <2>2. CASE PublishKeycode
    <3>1. /\ UNCHANGED <<msg, msg_flag, ptr, fault, val>>
               /\ pc = "keycode" /\ pc' = "plugged"
      BY <2>2, Zenon DEF PublishKeycode
    <3> QED  BY <3>1
  <2>3. CASE CheckRemoval
    BY <2>3 DEF CheckRemoval, CountLook
  <2> QED  BY <1>2, <2>1, <2>2, <2>3
<1>3. CASE Submit \/ WritePointer \/ CheckFlag \/ Resubmit
  <2>1. CASE Submit
    BY <2>1 DEF Submit, WriteList
  <2>2. CASE CheckFlag
    BY <2>2 DEF CheckFlag
  <2>3. CASE Resubmit
    BY <2>3 DEF Resubmit, WriteList
  <2>4. CASE WritePointer /\ pc = "submit_ptr"
    <3>1. /\ ptr' = "h500" /\ pc' = "check"
          /\ UNCHANGED <<msg, msg_flag, fault>>
      BY <2>4 DEF WritePointer
    <3> QED  BY <2>4, <3>1
  <2>5. CASE WritePointer /\ pc = "resubmit_ptr"
    <3>1. /\ ptr' = "h500" /\ pc' = "check"
          /\ UNCHANGED <<msg, msg_flag>>
          /\ fault' = IF ptr = "null" THEN "extra" ELSE fault
      BY <2>5 DEF WritePointer
    <3>2. Orderly' => ptr # "null" /\ Orderly
      BY <3>1
    <3> QED  BY <2>5, <3>1, <3>2
  <2> QED  BY <1>3, <2>1, <2>2, <2>3, <2>4, <2>5 DEF WritePointer
<1>4. CASE WaitRead \/ WaitClear
  BY <1>4 DEF WaitRead, WaitClear, Done
<1>5. CASE CheckControl \/ RetryControl
  BY <1>5 DEF CheckControl, RetryControl, NextRequest
<1>6. CASE RetryRead \/ RetryClear \/ RetryFlag
  BY <1>6 DEF RetryRead, RetryClear, RetryFlag, Done
<1>7. CASE WriteEndpoint \/ PointAtEndpoint \/ ReadDataSize
  <2>1. CASE WriteEndpoint \/ PointAtEndpoint
    BY <2>1 DEF WriteEndpoint, PointAtEndpoint
  <2>2. CASE ReadDataSize
    <3>1. /\ UNCHANGED <<msg, msg_flag, ptr, fault, val>>
               /\ pc = "data_size" /\ pc' = "submit"
      BY <2>2, Zenon DEF ReadDataSize
    <3> QED  BY <3>1
  <2> QED  BY <1>7, <2>1, <2>2
<1>8. CASE ExecuteCommand
  BY <1>8 DEF ExecuteCommand, Present
<1>9. CASE SetupPhase
  BY <1>9 DEF SetupPhase, CanAnswer, PostMessage, Done
<1>10. CASE FinishList
  BY <1>10 DEF FinishList, CanAnswer, Report, PostMessage, Done
<1>11. CASE EndpointList
  <2>1. /\ UNCHANGED <<pc, val>>
        /\ ptr = "h576" /\ ptr' = "null"
        /\ Orderly' => Orderly /\ UNCHANGED <<msg, msg_flag, fault>>
    BY <1>11 DEF EndpointList
  <2>2. Orderly => pc \notin {"check", "resubmit", "resubmit_ptr", "wait_read", "wait_clear"}
    BY <2>1
  <2> QED  BY <2>1, <2>2
<1>12. CASE PlugOrRemove
  BY <1>12 DEF PlugOrRemove, PostMessage, Present
<1>13. CASE UNCHANGED vars
  BY <1>13
<1> QED  BY <1>1, <1>2, <1>3, <1>4, <1>5, <1>6, <1>7, <1>8, <1>9, <1>10, <1>11, <1>12,
       <1>13 DEF Next, Program, Chip

\* The keyboard.
LEMMA DeviceKept == IInv /\ [Next]_vars => DeviceFollows'
<1> SUFFICES ASSUME IInv, [Next]_vars  PROVE DeviceFollows'
  OBVIOUS
<1> USE DEF IInv, Numbers, Names, Labels, Answered, ListIsCurrent, DoneIsAnswered,
       EarlierAnswered, ConfigAnswered, RequestAtControl, Undisturbed, Orderly, Before, Idle,
       Completed, DeviceFollows, Repeated, Requesting, Submitted, Reset
<1>1. CASE HotPlug \/ ClearMessages \/ InitSIE1 \/ AwaitStatus \/ ReadAck \/ HusbReset
  BY <1>1 DEF HotPlug, ClearMessages, InitSIE1, AwaitStatus, ReadAck, HusbReset
<1>2. CASE LookForDevice \/ PublishKeycode \/ CheckRemoval
  <2>1. CASE LookForDevice
    BY <2>1 DEF LookForDevice, CountLook
  <2>2. CASE PublishKeycode
    <3>1. /\ UNCHANGED <<step, ptr, control, device, fault>>
          /\ pc = "keycode" /\ pc' = "plugged"
      BY <2>2, Zenon DEF PublishKeycode
    <3> QED  BY <3>1
  <2>3. CASE CheckRemoval
    BY <2>3 DEF CheckRemoval, CountLook
  <2> QED  BY <1>2, <2>1, <2>2, <2>3
<1>3. CASE Submit \/ WritePointer \/ CheckFlag \/ Resubmit
  <2>1. CASE Submit
    BY <2>1 DEF Submit, WriteList
  <2>2. CASE CheckFlag
    BY <2>2 DEF CheckFlag
  <2>3. CASE Resubmit
    BY <2>3 DEF Resubmit, WriteList
  <2>4. CASE WritePointer
    <3>1. /\ ptr' = "h500" /\ pc' = "check"
          /\ UNCHANGED <<step, control, device>>
          /\ fault' = IF pc = "resubmit_ptr" /\ ptr = "null" THEN "extra"
                      ELSE fault
      BY <2>4 DEF WritePointer
    <3>2. Orderly' => ~Repeated /\ Orderly
      BY <3>1
    <3>3. Requesting /\ Submitted /\ (pc = "submit_ptr" \/ pc = "resubmit_ptr")
      BY <2>4 DEF WritePointer
    <3>4. Orderly' => (ptr = "h500" \/ control # "done")
      BY <3>2, <3>3 DEF CompletedOnce, Once, Awaiting
    <3> QED  BY <3>1, <3>2, <3>3, <3>4
  <2> QED  BY <1>3, <2>1, <2>2, <2>3, <2>4
<1>4. CASE WaitRead \/ WaitClear
  BY <1>4 DEF WaitRead, WaitClear, Done
<1>5. CASE CheckControl \/ RetryControl
  BY <1>5 DEF CheckControl, RetryControl, NextRequest
<1>6. CASE RetryRead \/ RetryClear \/ RetryFlag
  BY <1>6 DEF RetryRead, RetryClear, RetryFlag, Done
<1>7. CASE WriteEndpoint \/ PointAtEndpoint \/ ReadDataSize
  BY <1>7 DEF WriteEndpoint, PointAtEndpoint, ReadDataSize
<1>8. CASE ExecuteCommand
  <2>1. /\ UNCHANGED <<pc, step, ptr, control, fault>>
        /\ cmd # "none"
        /\ Reset' => Reset \/ cmd = "HUSB_RESET_INT"
        /\ device' = device \/ cmd = "HUSB_RESET_INT"
    BY <1>8 DEF ExecuteCommand, Present
  <2>2. Orderly => Once
    BY DEF Once
  <2>3. Orderly /\ Requesting => step = 1 /\ ~(Submitted /\ control = "done")
    BY <2>1, <2>2
  <2> QED  BY <2>1, <2>3
<1>9. CASE SetupPhase
  <2> SUFFICES ASSUME Orderly', Requesting, Reset'  PROVE DeviceFollows'
    BY <1>9 DEF SetupPhase
  <2>1. UNCHANGED <<pc, step, list, device>> /\ ptr = "h500" /\ Orderly
    BY <1>9 DEF SetupPhase
  <2>2. Submitted /\ list = step /\ taken = list
    BY <2>1 DEF CompletedOnce, Once, Awaiting
  <2>3. \/ ptr' = "h500" /\ CanAnswer(step)
        \/ control' = "failed"
    BY <1>9, <2>1, <2>2 DEF SetupPhase
  <2> QED  BY <2>1, <2>2, <2>3 DEF CanAnswer
<1>10. CASE FinishList
  <2> SUFFICES ASSUME Orderly', Requesting, Reset'  PROVE DeviceFollows'
    BY <1>10 DEF FinishList
  <2>1. /\ UNCHANGED <<pc, step, control, list, fault>>
        /\ ptr = "h500" /\ ptr' = "null" /\ data_phase
    BY <1>10 DEF FinishList
  <2>2. /\ Submitted /\ list = step /\ taken = list
        /\ pc \notin {"endpoint", "endpoint_ptr", "data_size"}
        /\ pc # "resubmit_ptr" => control = "done"
    BY <2>1 DEF CompletedOnce, Once, Awaiting
  <2>3. device' = IF CanAnswer(step) /\ step = SetAddressStep THEN "addressed"
                  ELSE IF CanAnswer(step) /\ step = SetConfigStep THEN "configured" ELSE device
    BY <1>10, <2>2 DEF FinishList
  <2>4. Reset
    BY <2>3 DEF CanAnswer
  <2> QED  BY <2>1, <2>2, <2>3, <2>4 DEF CanAnswer
<1>11. CASE EndpointList
  BY <1>11 DEF EndpointList, PostMessage, Done
<1>12. CASE PlugOrRemove
  BY <1>12 DEF PlugOrRemove, PostMessage, Present
<1>13. CASE UNCHANGED vars
  BY <1>13
<1> QED  BY <1>1, <1>2, <1>3, <1>4, <1>5, <1>6, <1>7, <1>8, <1>9, <1>10, <1>11, <1>12,
       <1>13 DEF Next, Program, Chip

\* The packet size.
LEMMA PacketSizeIsKept == IInv /\ [Next]_vars => PacketSizeKept'
<1> SUFFICES ASSUME IInv, [Next]_vars  PROVE PacketSizeKept'
  OBVIOUS
<1> USE DEF IInv, Numbers, Names, Labels, Answered, ListIsCurrent, ConfigAnswered,
       RequestAtControl, Undisturbed, Orderly, Before, Idle, Completed, PacketSizeKept,
       Requesting, Submitted
<1>1. CASE HotPlug \/ ClearMessages \/ InitSIE1 \/ AwaitStatus \/ ReadAck \/ HusbReset
  BY <1>1 DEF HotPlug, ClearMessages, InitSIE1, AwaitStatus, ReadAck, HusbReset
<1>2. CASE LookForDevice \/ PublishKeycode \/ CheckRemoval
  <2>1. CASE LookForDevice
    BY <2>1 DEF LookForDevice, CountLook
  <2>2. CASE PublishKeycode
    <3>1. /\ UNCHANGED <<step, data_size, word57C, fault>>
          /\ pc = "keycode" /\ pc' = "plugged"
      BY <2>2, Zenon DEF PublishKeycode
    <3> QED  BY <3>1
  <2>3. CASE CheckRemoval
    BY <2>3 DEF CheckRemoval, CountLook
  <2> QED  BY <1>2, <2>1, <2>2, <2>3
<1>3. CASE Submit \/ WritePointer \/ CheckFlag \/ Resubmit
  BY <1>3 DEF Submit, WritePointer, CheckFlag, Resubmit, WriteList
<1>4. CASE WaitRead \/ WaitClear
  BY <1>4 DEF WaitRead, WaitClear, Done
<1>5. CASE CheckControl \/ RetryControl
  BY <1>5 DEF CheckControl, RetryControl, NextRequest
<1>6. CASE RetryRead \/ RetryClear \/ RetryFlag
  BY <1>6 DEF RetryRead, RetryClear, RetryFlag, Done
<1>7. CASE WriteEndpoint \/ PointAtEndpoint \/ ReadDataSize
  BY <1>7 DEF WriteEndpoint, PointAtEndpoint, ReadDataSize
<1>8. CASE ExecuteCommand
  BY <1>8 DEF ExecuteCommand, Present
<1>9. CASE SetupPhase
  BY <1>9 DEF SetupPhase, CanAnswer, PostMessage, Done
<1>10. CASE FinishList
  BY <1>10 DEF FinishList, CanAnswer, Report, PostMessage, Done
<1>11. CASE EndpointList
  BY <1>11 DEF EndpointList, PostMessage, Done
<1>12. CASE PlugOrRemove
  BY <1>12 DEF PlugOrRemove, PostMessage, Present
<1>13. CASE UNCHANGED vars
  BY <1>13
<1> QED  BY <1>1, <1>2, <1>3, <1>4, <1>5, <1>6, <1>7, <1>8, <1>9, <1>10, <1>11, <1>12,
       <1>13 DEF Next, Program, Chip

\* The inductive invariant: where the chip and the program stand relative to each other
\* (usb_kb/main.c).
THEOREM Invariance == Spec => []IInv
<1>1. Init => IInv
  <2> SUFFICES ASSUME Init  PROVE IInv
    OBVIOUS
  <2> USE DEF Init
  <2>1. Flags
    BY Zenon DEF Flags
  <2>2. Messages /\ Numbers /\ Bytes /\ Names /\ Labels
    BY DescriptorAssumption DEF Messages, Numbers, Bytes, Names, Labels, Words, Bits, DeviceStates
  <2>3. CompletedOnce /\ PhaseOfList
    BY DEF CompletedOnce, PhaseOfList, Awaiting
  <2>4. Answered /\ Undisturbed
    BY DEF Answered, ListIsCurrent, DoneIsAnswered, EarlierAnswered, ConfigAnswered,
           RequestAtControl, Requesting, Submitted, Undisturbed, Before, Idle
  <2>5. DeviceFollows /\ PacketSizeKept
    BY DEF DeviceFollows, PacketSizeKept, Requesting, Submitted
  <2> QED  BY <2>1, <2>2, <2>3, <2>4, <2>5 DEF IInv
<1>2. IInv /\ [Next]_vars => IInv'
  BY FlagsKept, MessagesKept, NumbersKept, BytesKept, NamesKept, LabelsKept,
     CompletedOnceKept, AnsweredKept, UndisturbedKept, DeviceKept, PacketSizeIsKept
  DEF IInv, Answered
<1> QED  BY <1>1, <1>2, PTL DEF Spec

----
(* What follows from it.                                                        *)

\* Every variable keeps its range; the keycode and the packet size are bytes.
THEOREM TypeCorrect == Spec => []TypeOK
<1>1. IInv => TypeOK
  BY DEF IInv, Flags, Messages, Numbers, Bytes, Names, Labels, Before, TypeOK
<1> QED  BY <1>1, Invariance, PTL

\* The polling loop is reached only when the keyboard has answered each of the nine
\* requests since the bus reset, whatever the chip finished between a request's words and
\* its pointer - unless a request was submitted again that had just been completed, or the
\* list at \h576 was completed, too: each of these leaves one completion too many.
THEOREM NothingSkipped == Spec => []NoRequestSkipped
<1>1. IInv => NoRequestSkipped
  <2> SUFFICES ASSUME IInv, Polling, Reset, Once  PROVE answered = 1 .. PollStep - 1
    BY DEF NoRequestSkipped, Once
  <2>1. answered \subseteq 1 .. PollStep - 1
    BY DEF IInv, Names
  <2>2. \A s \in 1 .. PollStep - 1 : s \in answered
    BY DEF IInv, Polling, Answered, EarlierAnswered, Requesting
  <2> QED  BY <2>1, <2>2
<1> QED  BY <1>1, Invariance, PTL

\* While nothing intervenes, the completion waited for is to come or not yet read.
THEOREM NoCompletionLost == Spec => []CompletionNotLost
<1>1. IInv => CompletionNotLost
  BY DEF IInv, Orderly, Undisturbed, CompletionNotLost, Silent, Completed, Done
<1> QED  BY <1>1, Invariance, PTL

\* Unless a completion was taken for another request's, the program polls a keyboard that
\* is configured, with the packet size it wrote: every list of the enumeration, SetConfig's
\* among them, ran to its end, and none stored a descriptor over the size.
THEOREM PollReady == Spec => []PollingIsReady
<1>1. IInv => PollingIsReady
  <2> SUFFICES ASSUME IInv, Polling, Reset, Orderly  PROVE device = "configured" /\ data_size = 8
    BY DEF PollingIsReady, Orderly
  <2> QED  BY DEF IInv, DeviceFollows, PacketSizeKept, Polling, Requesting
<1> QED  BY <1>1, Invariance, PTL
====
