--------------------------- MODULE HidDeviceProofs ---------------------------
(***************************************************************************)
(* What HidDevice promises for every queue limit, any number of reports    *)
(* and whatever goes wrong outside: the close frees nothing libusb still   *)
(* uses, no reader sleeps through its report, and the report queue is a    *)
(* queue that drops its oldest.                                            *)
(***************************************************************************)
EXTENDS HidDevice, TLAPS

(* The two halves of TypeOK: the report queue, and where everyone is.      *)
QueueType ==
  /\ reports \in Seq(1..MaxReports) /\ Len(reports) <= QueueLimit + 2
  /\ received \in 0..MaxReports /\ got \in 0..MaxReports

ControlType ==
  /\ shutdown \in BOOLEAN /\ cancelled \in BOOLEAN /\ signal \in BOOLEAN
  /\ transfer \in Status
  /\ cbBy \in {"nobody", "reader", "app"}
  /\ cbPc \in {"none", "append", "resubmit", "shutdown", "cancelled"}
  /\ rPc \in {"none", "submit", "barrier", "loop", "events", "cancel", "drain", "notify", "done"}
  /\ aPc \in {"closed", "opening", "open", "writing", "waiting", "cancel", "join"}
  /\ plugged \in BOOLEAN

ChoiceType == may \subseteq Mishaps

(* Who may be where: the device exists between Open and Join, the callback *)
(* runs on a thread that handles events and holds the transfer meanwhile.  *)
Places ==
  /\ aPc = "closed" <=> rPc = "none"
  /\ aPc = "opening" <=> rPc \in {"submit", "barrier"}
  /\ cbBy = "nobody" <=> cbPc = "none"
  /\ cbBy # "nobody" => transfer = "none"
  /\ cbBy = "reader" => rPc \in {"events", "drain"}
  /\ cbBy = "app" => aPc = "writing"

(* Once cancelled is set nothing submits the transfer again.               *)
CancelledIsLast ==
  /\ cancelled => shutdown /\ transfer = "none" /\ cbBy = "nobody"
  /\ rPc = "submit" => ~cancelled /\ transfer = "none"
  /\ rPc = "none" => transfer = "none"
  /\ rPc \in {"notify", "done"} => cancelled
  /\ cbPc = "cancelled" => shutdown

(* A report on its way is within the bound on reports.                     *)
RoomForOne == transfer = "completed" \/ cbPc = "append" => received < MaxReports

IInv == QueueType /\ ControlType /\ Places /\ CancelledIsLast /\ RoomForOne /\ ChoiceType

-----------------------------------------------------------------------------
(* The report queue. *)

LEMMA Bounds == QueueLimit \in Nat /\ MaxReports \in Nat
BY HidAssumption

LEMMA TailFacts ==
  ASSUME NEW S, NEW s \in Seq(S), s # <<>>
  PROVE  /\ Head(s) \in S /\ Tail(s) \in Seq(S) /\ Head(s) = s[1]
         /\ Len(s) \in Nat \ {0} /\ Len(Tail(s)) = Len(s) - 1
         /\ \A i \in 1..Len(Tail(s)) : Tail(s)[i] = s[i + 1]
OBVIOUS

LEMMA AppendFacts ==
  ASSUME NEW S, NEW s \in Seq(S), NEW x \in S
  PROVE  /\ Append(s, x) \in Seq(S) /\ Append(s, x) # <<>>
         /\ Len(s) \in Nat /\ Len(Append(s, x)) = Len(s) + 1
         /\ \A i \in 1..Len(s) : Append(s, x)[i] = s[i]
         /\ Append(s, x)[Len(s) + 1] = x
OBVIOUS

(* Dropping the head after appending is appending to the tail.             *)
LEMMA TailOfAppend ==
  ASSUME NEW S, NEW s \in Seq(S), NEW x \in S, s # <<>>
  PROVE  Tail(Append(s, x)) = Append(Tail(s), x)
OBVIOUS

(* Every step does one of five things to the report queue.                 *)
NewReport ==
  /\ received' = received + 1 /\ got' = got
  /\ \/ Len(reports) - 1 > QueueLimit /\ reports' = Tail(Append(reports, received + 1))
     \/ Len(reports) - 1 <= QueueLimit /\ reports' = Append(reports, received + 1)

OldReport ==
  /\ reports # <<>> /\ received' = received
  /\ got' = Head(reports) /\ reports' = Tail(reports)

LEMMA QueueStep ==
  ASSUME IInv, [Next]_vars
  PROVE  \/ cbPc = "append" /\ NewReport
         \/ OldReport
         \/ reports' = <<>> /\ received' = 0 /\ got' = 0
         \/ reports' = <<>> /\ UNCHANGED <<received, got>>
         \/ UNCHANGED reportVars
<1> DEFINE Goal == \/ cbPc = "append" /\ NewReport
                   \/ OldReport
                   \/ reports' = <<>> /\ received' = 0 /\ got' = 0
                   \/ reports' = <<>> /\ UNCHANGED <<received, got>>
                   \/ UNCHANGED reportVars
<1> USE DEF reportVars
<1>1. CASE Open BY <1>1 DEF Open
<1>2. CASE Read BY <1>2 DEF Read, TakeReport, OldReport
<1>3. CASE ReadWake BY <1>3 DEF ReadWake, TakeReport, OldReport
<1>4. CASE Join BY <1>4 DEF Join
<1>5. CASE AppendReport
  <2>1. Len(reports) \in Nat /\ QueueLimit \in Nat BY Bounds DEF IInv, QueueType
  <2> QED BY <1>5, <2>1 DEF AppendReport, NewReport
<1>6. CASE Write \/ WriteEnd \/ ReadTimeout \/ Close \/ CloseCancel
  BY <1>6 DEF Write, WriteEnd, ReadTimeout, Close, CloseCancel
<1>7. CASE Resubmit \/ SetShutdown \/ SetCancelled
  BY <1>7 DEF Resubmit, SetShutdown, SetCancelled
<1>8. CASE Reader
  BY <1>8 DEF Reader, FirstSubmit, Barrier, Loop, NoEvent, EventsFail, CancelPending,
              Drained, Notify, CallbackBegins
<1>9. CASE CallbackBegins("app") BY <1>9 DEF CallbackBegins
<1>10. CASE Outside
  BY <1>10 DEF Outside, DeviceSends, TransferFails, CancelCompletes, Unplug
<1>11. CASE UNCHANGED vars BY <1>11 DEF vars
<1> QED
  BY <1>1, <1>2, <1>3, <1>4, <1>5, <1>6, <1>7, <1>8, <1>9, <1>10, <1>11
  DEF Next, App, Callback

LEMMA QueueNext ==
  ASSUME IInv, [Next]_vars
  PROVE  QueueType'
<1> USE Bounds DEF IInv, QueueType
<1>0. reports \in Seq(1..MaxReports) /\ Len(reports) \in Nat /\ <<>> \in Seq(1..MaxReports)
  OBVIOUS
<1>1. CASE cbPc = "append" /\ NewReport
  <2>1. received + 1 \in 1..MaxReports /\ received' \in 0..MaxReports
    BY <1>1 DEF RoomForOne, NewReport
  <2>2. CASE /\ Len(reports) - 1 > QueueLimit
             /\ reports' = Tail(Append(reports, received + 1))
    <3> DEFINE longer == Append(reports, received + 1)
    <3>2. /\ longer \in Seq(1..MaxReports) /\ longer # <<>>
          /\ Len(longer) = Len(reports) + 1
      BY <1>0, <2>1, AppendFacts
    <3>3. reports' = Tail(longer) BY <2>2
    <3> HIDE DEF longer
    <3>4. Tail(longer) \in Seq(1..MaxReports) /\ Len(Tail(longer)) = Len(longer) - 1
      BY <3>2, TailFacts
    <3>1. reports' \in Seq(1..MaxReports) /\ Len(reports') = Len(reports)
      BY ONLY <1>0, <3>2, <3>3, <3>4
    <3> QED BY <1>1, <2>1, <3>1 DEF NewReport
  <2>3. CASE /\ Len(reports) - 1 <= QueueLimit
             /\ reports' = Append(reports, received + 1)
    <3>1. reports' \in Seq(1..MaxReports) /\ Len(reports') = Len(reports) + 1
      BY <1>0, <2>1, <2>3, AppendFacts
    <3> QED BY <1>0, <1>1, <2>1, <2>3, <3>1 DEF NewReport
  <2> QED BY <1>1, <2>2, <2>3 DEF NewReport
<1>2. CASE OldReport
  <2>1. /\ reports' \in Seq(1..MaxReports) /\ Len(reports') = Len(reports) - 1
        /\ Head(reports) \in 1..MaxReports
    BY <1>0, <1>2, TailFacts DEF OldReport
  <2> QED BY <1>0, <1>2, <2>1 DEF OldReport
<1>3. CASE reports' = <<>> /\ received' = 0 /\ got' = 0 BY <1>3
<1>4. CASE reports' = <<>> /\ UNCHANGED <<received, got>> BY <1>4
<1>5. CASE UNCHANGED reportVars BY <1>5 DEF reportVars
<1> QED BY <1>1, <1>2, <1>3, <1>4, <1>5, QueueStep

-----------------------------------------------------------------------------
(* The threads, the callback and the transfer. *)

LEMMA ControlNext ==
  ASSUME IInv, [Next]_vars
  PROVE  ControlType' /\ Places' /\ CancelledIsLast'
<1> USE DEF IInv, ControlType, Places, CancelledIsLast, Status, Deliverable, cbVars, world
<1>1. CASE Open BY <1>1 DEF Open
<1>2. CASE Write \/ WriteEnd BY <1>2 DEF Write, WriteEnd
<1>3. CASE Read BY <1>3 DEF Read, TakeReport
<1>4. CASE ReadWake BY <1>4 DEF ReadWake, TakeReport
<1>5. CASE ReadTimeout BY <1>5 DEF ReadTimeout
<1>6. CASE Close BY <1>6 DEF Close
<1>7. CASE CloseCancel BY <1>7 DEF CloseCancel, Cancel
<1>8. CASE Join BY <1>8 DEF Join
<1>9. CASE AppendReport BY <1>9 DEF AppendReport
<1>10. CASE Resubmit BY <1>10 DEF Resubmit, Submit, CallbackEnds
<1>11. CASE SetShutdown BY <1>11 DEF SetShutdown
<1>12. CASE SetCancelled BY <1>12 DEF SetCancelled, CallbackEnds
<1>13. CASE FirstSubmit BY <1>13 DEF FirstSubmit, Submit
<1>14. CASE Barrier \/ Loop BY <1>14 DEF Barrier, Loop
<1>15. CASE NoEvent BY <1>15 DEF NoEvent
<1>22. CASE EventsFail BY <1>22 DEF EventsFail
<1>16. CASE CancelPending BY <1>16 DEF CancelPending, Cancel
<1>17. CASE Drained BY <1>17 DEF Drained
<1>18. CASE Notify BY <1>18 DEF Notify
<1>19. ASSUME NEW t \in {"reader", "app"}, CallbackBegins(t)
       PROVE  ControlType' /\ Places' /\ CancelledIsLast'
  BY <1>19 DEF CallbackBegins, HandlesEvents
<1>20. CASE Outside
  <2>1. CASE DeviceSends BY <2>1 DEF DeviceSends
  <2>2. CASE TransferFails BY <2>2 DEF TransferFails
  <2>3. CASE CancelCompletes BY <2>3 DEF CancelCompletes
  <2>4. CASE Unplug
    <3>1. transfer' \in Status /\ (transfer = "none" => transfer' = "none") BY <2>4 DEF Unplug
    <3>2. plugged' = FALSE /\ UNCHANGED <<shutdown, cancelled, signal, cbBy, cbPc, rPc, aPc>>
      BY <2>4 DEF Unplug
    <3> QED BY ZenonT(30), <3>1, <3>2
  <2> QED BY <1>20, <2>1, <2>2, <2>3, <2>4 DEF Outside
<1>21. CASE UNCHANGED vars BY <1>21 DEF vars
<1> QED
  BY <1>1, <1>2, <1>3, <1>4, <1>5, <1>6, <1>7, <1>8, <1>9, <1>10, <1>11, <1>12,
     <1>13, <1>14, <1>15, <1>16, <1>17, <1>18, <1>19, <1>20, <1>21, <1>22
  DEF Next, App, Callback, Reader

LEMMA RoomNext ==
  ASSUME IInv, [Next]_vars
  PROVE  RoomForOne'
<1> USE DEF IInv, RoomForOne, ControlType, Places, CancelledIsLast, Deliverable, reportVars, cbVars
<1>1. CASE App
  <2>1. CASE Open
    <3>1. transfer' # "completed" /\ cbPc' # "append" BY <1>1, <2>1 DEF Open
    <3> QED BY <3>1
  <2>2. CASE Write \/ WriteEnd \/ Read \/ ReadWake \/ ReadTimeout \/ Close \/ Join
    BY <2>2 DEF Write, WriteEnd, Read, ReadWake, TakeReport, ReadTimeout, Close, Join
  <2>3. CASE CloseCancel BY <2>3 DEF CloseCancel, Cancel
  <2> QED BY <1>1, <2>1, <2>2, <2>3 DEF App
<1>2. CASE AppendReport
  <2>1. transfer' # "completed" /\ cbPc' # "append" BY <1>2 DEF AppendReport
  <2> QED BY <2>1
<1>3. CASE Resubmit \/ SetShutdown \/ SetCancelled
  BY <1>3 DEF Resubmit, Submit, CallbackEnds, SetShutdown, SetCancelled
<1>4. CASE FirstSubmit \/ CancelPending
  BY <1>4 DEF FirstSubmit, Submit, CancelPending, Cancel
<1>5. CASE Barrier \/ Loop \/ NoEvent \/ EventsFail \/ Drained \/ Notify
  BY <1>5 DEF Barrier, Loop, NoEvent, EventsFail, Drained, Notify
<1>6. ASSUME NEW t \in {"reader", "app"}, CallbackBegins(t) PROVE RoomForOne'
  BY <1>6 DEF CallbackBegins
<1>7. CASE Outside
  BY <1>7 DEF Outside, DeviceSends, TransferFails, CancelCompletes, Unplug
<1>8. CASE UNCHANGED vars BY <1>8 DEF vars
<1> QED BY <1>1, <1>2, <1>3, <1>4, <1>5, <1>6, <1>7, <1>8 DEF Next, Callback, Reader

(* What may go wrong is chosen at the start. *)
LEMMA ChoiceNext ==
  ASSUME IInv, [Next]_vars
  PROVE  ChoiceType'
<1> USE DEF world
<1>1. CASE App
  <2>1. may' = may
    BY <1>1 DEF App, Open, Write, WriteEnd, Read, ReadWake, ReadTimeout, Close, CloseCancel, Join
  <2> QED BY <2>1 DEF IInv, ChoiceType
<1>2. CASE Callback
  <2>1. may' = may BY <1>2 DEF Callback, AppendReport, Resubmit, SetShutdown, SetCancelled
  <2> QED BY <2>1 DEF IInv, ChoiceType
<1>3. CASE Reader \/ CallbackBegins("app")
  <2>1. may' = may
    BY <1>3 DEF Reader, FirstSubmit, Barrier, Loop, NoEvent, EventsFail, CancelPending,
       Drained, Notify, CallbackBegins
  <2> QED BY <2>1 DEF IInv, ChoiceType
<1>4. CASE Outside
  <2>1. may' = may BY <1>4 DEF Outside, DeviceSends, TransferFails, CancelCompletes, Unplug
  <2> QED BY <2>1 DEF IInv, ChoiceType
<1>5. CASE UNCHANGED vars
  <2>1. may' = may BY <1>5 DEF vars
  <2> QED BY <2>1 DEF IInv, ChoiceType
<1> QED BY <1>1, <1>2, <1>3, <1>4, <1>5 DEF Next

LEMMA IInvInit == Init => IInv
<1> SUFFICES ASSUME Init PROVE IInv OBVIOUS
<1>1. QueueType
  <2>1. reports = <<>> /\ received = 0 /\ got = 0 BY DEF Init
  <2> QED BY <2>1, Bounds DEF QueueType
<1>2. ControlType BY DEF Init, ControlType, Status
<1>3. Places /\ CancelledIsLast BY DEF Init, Places, CancelledIsLast
<1>4. RoomForOne BY DEF Init, RoomForOne
<1>5. ChoiceType BY DEF Init, ChoiceType
<1> QED BY <1>1, <1>2, <1>3, <1>4, <1>5 DEF IInv

LEMMA IInvNext == IInv /\ [Next]_vars => IInv'
BY QueueNext, ControlNext, RoomNext, ChoiceNext DEF IInv

LEMMA Invariant == Spec => []IInv
BY IInvInit, IInvNext, PTL DEF Spec

-----------------------------------------------------------------------------
(* The types, with the report queue's true limit of QueueLimit + 2.        *)
THEOREM TypeCorrect == Spec => []TypeOK
<1>1. IInv => TypeOK BY DEF IInv, QueueType, ControlType, ChoiceType, TypeOK
<1> QED BY <1>1, Invariant, PTL

(* hid_close frees neither a transfer in flight nor the device of a        *)
(* running callback, whatever fails and on whichever thread.               *)
THEOREM SafeToFree == Spec => []NothingFreedInUse
<1>1. IInv => NothingFreedInUse
  BY DEF IInv, ControlType, Places, CancelledIsLast, NothingFreedInUse
<1> QED BY <1>1, Invariant, PTL

(* Signalling the first report only, and flags set without the mutex, lose *)
(* no reader.                                                              *)
LEMMA WakeupNext == IInv /\ NoLostWakeup /\ [Next]_vars => NoLostWakeup'
<1> SUFFICES ASSUME IInv, NoLostWakeup, [Next]_vars PROVE NoLostWakeup' OBVIOUS
<1> USE DEF NoLostWakeup, reportVars, cbVars
<1>0. rPc = "done" => shutdown BY DEF IInv, CancelledIsLast
<1>1. CASE Read BY <1>0, <1>1 DEF Read, TakeReport
<1>2. CASE ReadWake BY <1>0, <1>2 DEF ReadWake, TakeReport
<1>3. CASE Open \/ Write \/ WriteEnd \/ ReadTimeout \/ Close \/ CloseCancel \/ Join
  BY <1>3 DEF Open, Write, WriteEnd, ReadTimeout, Close, CloseCancel, Join
<1>4. CASE AppendReport BY <1>4 DEF AppendReport
<1>5. CASE Resubmit \/ SetShutdown \/ SetCancelled
  BY <1>5 DEF Resubmit, CallbackEnds, SetShutdown, SetCancelled
<1>6. CASE FirstSubmit \/ Barrier \/ Loop \/ NoEvent \/ EventsFail \/ CancelPending \/ Drained
  BY <1>6 DEF FirstSubmit, Barrier, Loop, NoEvent, EventsFail, CancelPending, Drained
<1>7. CASE Notify BY <1>7 DEF Notify
<1>8. ASSUME NEW t \in {"reader", "app"}, CallbackBegins(t) PROVE NoLostWakeup'
  BY <1>8 DEF CallbackBegins
<1>9. CASE Outside
  BY <1>9 DEF Outside, DeviceSends, TransferFails, CancelCompletes, Unplug
<1>10. CASE UNCHANGED vars BY <1>10 DEF vars
<1> QED BY <1>1, <1>2, <1>3, <1>4, <1>5, <1>6, <1>7, <1>8, <1>9, <1>10
        DEF Next, App, Callback, Reader

(* No hid_read sleeps while a report waits or after the read thread ended. *)
THEOREM NoReaderSleepsOn == Spec => []NoLostWakeup
<1>1. Init => NoLostWakeup BY DEF Init, NoLostWakeup
<1> QED BY <1>1, WakeupNext, Invariant, PTL DEF Spec

-----------------------------------------------------------------------------
(* The reports form a queue that drops its oldest. *)

LEMMA QueueRefined == IInv /\ [Next]_vars => [ReportQueue!Next]_(ReportQueue!queueVars)
<1> SUFFICES ASSUME IInv, [Next]_vars
             PROVE  [ReportQueue!Next]_(ReportQueue!queueVars)
  OBVIOUS
<1>0. /\ reports \in Seq(1..MaxReports) /\ Len(reports) \in Nat /\ Len(reports) <= QueueLimit + 2
      /\ QueueLimit \in Nat /\ received \in Nat
  BY Bounds DEF IInv, QueueType
<1> USE DEF ReportQueue!Next, ReportQueue!queueVars
<1>1. CASE cbPc = "append" /\ NewReport
  <2>1. received + 1 \in 1..MaxReports BY <1>1, Bounds DEF IInv, QueueType, RoomForOne
  <2>2. CASE /\ Len(reports) - 1 > QueueLimit
             /\ reports' = Tail(Append(reports, received + 1))
    <3>1. Len(reports) = QueueLimit + 2 BY <1>0, <2>2
    <3>2. reports # <<>> BY <1>0, <3>1
    <3>3. reports' = Append(Tail(reports), received + 1)
      BY <1>0, <2>1, <2>2, <3>2, TailOfAppend
    <3>4. ReportQueue!Put BY <1>1, <3>1, <3>3 DEF NewReport, ReportQueue!Put
    <3> QED BY <3>4
  <2>3. CASE /\ Len(reports) - 1 <= QueueLimit
             /\ reports' = Append(reports, received + 1)
    <3>1. Len(reports) < QueueLimit + 2 BY <1>0, <2>3
    <3>2. ReportQueue!Put BY <1>1, <2>3, <3>1 DEF NewReport, ReportQueue!Put
    <3> QED BY <3>2
  <2> QED BY <1>1, <2>2, <2>3 DEF NewReport
<1>2. CASE OldReport
  <2>1. ReportQueue!Take BY <1>2 DEF OldReport, ReportQueue!Take
  <2> QED BY <2>1
<1>3. CASE reports' = <<>> /\ received' = 0 /\ got' = 0
  BY <1>3 DEF ReportQueue!Restart
<1>4. CASE reports' = <<>> /\ UNCHANGED <<received, got>>
  BY <1>4 DEF ReportQueue!Discard
<1>5. CASE UNCHANGED reportVars BY <1>5 DEF reportVars
<1> QED BY <1>1, <1>2, <1>3, <1>4, <1>5, QueueStep

(* HidDevice's reports implement the queue that drops its oldest: in order *)
(* and without a gap but at the front, which read_callback drops.          *)
THEOREM ReportsImplementQueue == Spec => ReportsSpec
<1>1. Init => ReportQueue!Init BY DEF Init, ReportQueue!Init
<1> QED BY <1>1, QueueRefined, Invariant, PTL DEF Spec, ReportsSpec, ReportQueue!Spec

LEMMA OrderNext == IInv /\ ReportsInOrder /\ [Next]_vars => ReportsInOrder'
<1> SUFFICES ASSUME IInv, ReportsInOrder, [Next]_vars PROVE ReportsInOrder' OBVIOUS
<1>0. /\ reports \in Seq(1..MaxReports) /\ Len(reports) \in Nat
      /\ QueueLimit \in Nat /\ received \in Nat /\ got \in Nat
  BY Bounds DEF IInv, QueueType
<1>1. /\ \A i \in 1..Len(reports) : reports[i] = received - Len(reports) + i
      /\ got <= received - Len(reports)
  BY DEF ReportsInOrder, ReportQueue!NewestInOrder
<1> DEFINE Ordered(q, n, t) == /\ \A i \in 1..Len(q) : q[i] = n - Len(q) + i
                               /\ t <= n - Len(q)
<1>2. ASSUME Ordered(reports', received', got') PROVE ReportsInOrder'
  BY <1>2 DEF ReportsInOrder, ReportQueue!NewestInOrder
<1>3. CASE cbPc = "append" /\ NewReport
  <2> DEFINE longer == Append(reports, received + 1)
  <2>1. received + 1 \in 1..MaxReports BY <1>3, Bounds DEF IInv, QueueType, RoomForOne
  <2>2. /\ longer \in Seq(1..MaxReports) /\ longer # <<>> /\ Len(longer) = Len(reports) + 1
        /\ \A i \in 1..Len(reports) : longer[i] = reports[i]
        /\ longer[Len(reports) + 1] = received + 1
    BY <1>0, <2>1, AppendFacts
  <2> HIDE DEF longer
  <2>3. \A i \in 1..Len(longer) : longer[i] = received + 1 - Len(longer) + i
    <3> TAKE i \in 1..Len(longer)
    <3>1. CASE i \in 1..Len(reports) BY ONLY <1>0, <1>1, <2>2, <3>1
    <3>2. CASE i = Len(reports) + 1 BY ONLY <1>0, <2>2, <3>2
    <3> QED BY ONLY <1>0, <2>2, <3>1, <3>2, i \in 1..Len(longer)
  <2>4. Ordered(longer, received + 1, got) BY ONLY <1>0, <1>1, <2>2, <2>3
  <2>5. received' = received + 1 /\ got' = got BY <1>3 DEF NewReport
  <2>6. CASE reports' = longer BY <1>2, <2>4, <2>5, <2>6
  <2>7. CASE reports' = Tail(longer)
    <3>1. /\ Len(longer) \in Nat \ {0} /\ Len(Tail(longer)) = Len(longer) - 1
          /\ \A i \in 1..Len(Tail(longer)) : Tail(longer)[i] = longer[i + 1]
      BY <2>2, TailFacts
    <3>2. \A i \in 1..Len(Tail(longer)) :
            Tail(longer)[i] = received + 1 - Len(Tail(longer)) + i
      <4> TAKE i \in 1..Len(Tail(longer))
      <4>1. i \in Int /\ i + 1 \in 1..Len(longer) BY ONLY <3>1, i \in 1..Len(Tail(longer))
      <4>2. longer[i + 1] = received + 1 - Len(longer) + (i + 1) BY ONLY <2>3, <4>1
      <4>3. Tail(longer)[i] = longer[i + 1] BY <3>1
      <4> QED BY ONLY <1>0, <3>1, <4>1, <4>2, <4>3
    <3>3. got <= received + 1 - Len(Tail(longer)) BY ONLY <1>0, <1>1, <2>2, <3>1
    <3>4. Ordered(Tail(longer), received + 1, got) BY ONLY <1>0, <3>1, <3>2, <3>3
    <3> QED BY <1>2, <2>5, <2>7, <3>4
  <2> QED BY <1>3, <2>6, <2>7 DEF NewReport, longer
<1>4. CASE OldReport
  <2>1. /\ Len(reports) \in Nat \ {0} /\ Len(Tail(reports)) = Len(reports) - 1
        /\ Head(reports) = reports[1]
        /\ \A i \in 1..Len(Tail(reports)) : Tail(reports)[i] = reports[i + 1]
    BY <1>0, <1>4, TailFacts DEF OldReport
  <2>2. Ordered(Tail(reports), received, Head(reports)) BY ONLY <1>0, <1>1, <2>1
  <2> QED BY <1>2, <1>4, <2>2 DEF OldReport
<1>5. CASE reports' = <<>> /\ received' = 0 /\ got' = 0
  <2>1. Ordered(<<>>, 0, 0) OBVIOUS
  <2> QED BY <1>2, <1>5, <2>1
<1>6. CASE reports' = <<>> /\ UNCHANGED <<received, got>>
  <2>1. Ordered(<<>>, received, got) BY ONLY <1>0, <1>1
  <2> QED BY <1>2, <1>6, <2>1
<1>7. CASE UNCHANGED reportVars
  <2>1. reports' = reports /\ received' = received /\ got' = got BY <1>7 DEF reportVars
  <2>2. Ordered(reports, received, got) BY <1>1
  <2> QED BY <1>2, <2>1, <2>2
<1> QED BY <1>3, <1>4, <1>5, <1>6, <1>7, QueueStep

(* What hid_read returns is in the order in which the device sent it.      *)
THEOREM ReportsOrdered == Spec => []ReportsInOrder
<1>1. Init => ReportsInOrder
  BY DEF Init, ReportsInOrder, ReportQueue!NewestInOrder
<1> QED BY <1>1, OrderNext, Invariant, PTL DEF Spec
=============================================================================
