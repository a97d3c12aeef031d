------------------------------ MODULE HidDevice ------------------------------
(***************************************************************************)
(* One HID device opened through libusb (hid-libusb.c): the application's  *)
(* thread, the read thread that hid_open_path starts, and libusb's         *)
(* read_callback, which runs on whichever of the two is handling events    *)
(* (hid_write is a synchronous libusb transfer and handles them too).      *)
(*                                                                         *)
(* A report is its number in order of arrival.  Each section under         *)
(* dev->mutex is a step; shutdown_thread and cancelled are read and        *)
(* written outside it, each access a step of its own.                      *)
(***************************************************************************)
EXTENDS Integers, Sequences

CONSTANTS
  QueueLimit,   \* 30 in read_callback
  MaxReports,   \* bound: reports the device sends while it is open
  Mishaps       \* what may go wrong outside this file

(* "gone at start": the device may go before the first submission.         *)
(* "cancel too late": a transfer the kernel has completed, but whose       *)
(* callback has not run, is not found by libusb_cancel_transfer.           *)
(* "events fail": libusb_handle_events may return a fatal error.           *)
ASSUME HidAssumption ==
  /\ QueueLimit \in Nat /\ MaxReports \in Nat
  /\ Mishaps \subseteq {"gone at start", "cancel too late", "events fail"}

VARIABLES
  reports,    \* dev->input_reports
  received,   \* history: the number of the report appended last
  got,        \* history: the number of the report hid_read returned last
  shutdown,   \* dev->shutdown_thread
  cancelled,  \* dev->cancelled
  signal,     \* the waiting thread has been woken by dev->condition
  transfer,   \* dev->transfer, as libusb knows it until its callback starts
  cbBy,       \* the thread that runs read_callback
  cbPc,       \* where read_callback is
  rPc,        \* where read_thread is
  aPc,        \* where the application is
  plugged,    \* the device is there
  may         \* which of Mishaps may happen, in this behaviour

reportVars == <<reports, received, got>>
cbVars == <<cbBy, cbPc>>
world == <<plugged, may>>
vars == <<reportVars, shutdown, cancelled, signal, transfer, cbVars, rPc, aPc, world>>

(* "failed" is a time-out (5 s) or an unknown status, which read_callback  *)
(* treats alike, as it does LIBUSB_TRANSFER_CANCELLED and NO_DEVICE        *)
(* ("ended").                                                              *)
Deliverable == {"completed", "failed", "ended"}
Status == {"none", "flight", "cancelling"} \cup Deliverable

(* libusb_submit_transfer *)
Submit == transfer' = IF plugged THEN "flight" ELSE "none"

(* libusb_cancel_transfer *)
Cancel ==
  transfer' = CASE transfer = "flight" -> "cancelling"
                [] transfer \in {"completed", "failed"} /\ "cancel too late" \notin may -> "cancelling"
                [] OTHER -> transfer

Init ==
  /\ reports = <<>> /\ received = 0 /\ got = 0
  /\ shutdown = FALSE /\ cancelled = FALSE /\ signal = FALSE
  /\ transfer = "none" /\ cbBy = "nobody" /\ cbPc = "none"
  /\ rPc = "none" /\ aPc = "closed" /\ plugged = TRUE
  /\ may \in SUBSET Mishaps

-----------------------------------------------------------------------------
(* The application: hid_open_path, hid_write, hid_read_timeout, hid_close. *)

(* hid_open_path with a device that can be claimed: new_hid_device and     *)
(* pthread_create.  When it fails nothing of the device remains.           *)
Open ==
  /\ aPc = "closed" /\ aPc' = "opening" /\ rPc' = "submit"
  /\ reports' = <<>> /\ received' = 0 /\ got' = 0
  /\ shutdown' = FALSE /\ cancelled' = FALSE /\ signal' = FALSE
  /\ plugged' = TRUE
  /\ UNCHANGED <<transfer, cbVars, may>>

(* hid_write blocks in libusb, at most its second of time-out. *)
Write ==
  /\ aPc = "open" /\ aPc' = "writing"
  /\ UNCHANGED <<reportVars, shutdown, cancelled, signal, transfer, cbVars, rPc, world>>

WriteEnd ==
  /\ aPc = "writing" /\ cbBy # "app" /\ aPc' = "open"
  /\ UNCHANGED <<reportVars, shutdown, cancelled, signal, transfer, cbVars, rPc, world>>

(* return_data for a reader *)
TakeReport ==
  /\ reports # <<>>
  /\ got' = Head(reports) /\ reports' = Tail(reports)
  /\ aPc' = "open" /\ UNCHANGED received

(* hid_read_timeout up to its return or its wait: the oldest report, -1    *)
(* after a shutdown, 0 when it must not block.                             *)
Read ==
  /\ aPc = "open"
  /\ \/ TakeReport
     \/ reports = <<>> /\ UNCHANGED <<reportVars, aPc>>
     \/ reports = <<>> /\ ~shutdown /\ aPc' = "waiting" /\ UNCHANGED reportVars
  /\ signal' = FALSE
  /\ UNCHANGED <<shutdown, cancelled, transfer, cbVars, rPc, world>>

(* pthread_cond_wait returns, for its signal or for no reason at all.      *)
ReadWake ==
  /\ aPc = "waiting" /\ signal' = FALSE
  /\ \/ TakeReport
     \/ reports = <<>> /\ shutdown /\ aPc' = "open" /\ UNCHANGED reportVars
     \/ reports = <<>> /\ ~shutdown /\ UNCHANGED <<reportVars, aPc>>
  /\ UNCHANGED <<shutdown, cancelled, transfer, cbVars, rPc, world>>

(* ETIMEDOUT of pthread_cond_timedwait returns 0 whatever waits. *)
ReadTimeout ==
  /\ aPc = "waiting" /\ signal' = FALSE /\ aPc' = "open"
  /\ UNCHANGED <<reportVars, shutdown, cancelled, transfer, cbVars, rPc, world>>

Close ==
  /\ aPc = "open" /\ aPc' = "cancel"
  /\ shutdown' = TRUE
  /\ UNCHANGED <<reportVars, cancelled, signal, transfer, cbVars, rPc, world>>

CloseCancel ==
  /\ aPc = "cancel" /\ aPc' = "join"
  /\ Cancel
  /\ UNCHANGED <<reportVars, shutdown, cancelled, signal, cbVars, rPc, world>>

(* pthread_join, then the transfer, the handle, the reports and the device *)
(* are freed.                                                              *)
Join ==
  /\ aPc = "join" /\ rPc = "done"
  /\ aPc' = "closed" /\ rPc' = "none"
  /\ reports' = <<>>
  /\ UNCHANGED <<received, got, shutdown, cancelled, signal, transfer, cbVars, world>>

-----------------------------------------------------------------------------
(* read_thread *)

(* The result of the first submission is not looked at. *)
FirstSubmit ==
  /\ rPc = "submit" /\ rPc' = "barrier"
  /\ Submit
  /\ UNCHANGED <<reportVars, shutdown, cancelled, signal, cbVars, aPc, world>>

(* pthread_barrier_wait, for both threads *)
Barrier ==
  /\ rPc = "barrier" /\ aPc = "opening"
  /\ rPc' = "loop" /\ aPc' = "open"
  /\ UNCHANGED <<reportVars, shutdown, cancelled, signal, transfer, cbVars, world>>

Loop ==
  /\ rPc = "loop"
  /\ rPc' = IF shutdown THEN "cancel" ELSE "events"
  /\ UNCHANGED <<reportVars, shutdown, cancelled, signal, transfer, cbVars, aPc, world>>

(* libusb_handle_events returns without having called read_callback, ...   *)
NoEvent ==
  /\ rPc = "events" /\ cbBy # "reader" /\ transfer \notin Deliverable
  /\ rPc' = "loop"
  /\ UNCHANGED <<reportVars, shutdown, cancelled, signal, transfer, cbVars, aPc, world>>

(* ... or with an error that breaks out of the loop. *)
EventsFail ==
  /\ rPc = "events" /\ cbBy # "reader" /\ "events fail" \in may
  /\ rPc' = "cancel"
  /\ UNCHANGED <<reportVars, shutdown, cancelled, signal, transfer, cbVars, aPc, world>>

(* libusb_cancel_transfer, whose result is not looked at either.  (A       *)
(* *Faulty or *Unsignalled operator is a variant of a definition below     *)
(* it, kept to show which property notices.)                               *)
CancelPendingFaulty ==
  /\ rPc = "cancel" /\ rPc' = "drain"
  /\ UNCHANGED <<reportVars, shutdown, cancelled, signal, transfer, cbVars, aPc, world>>

CancelPending ==
  /\ rPc = "cancel" /\ rPc' = "drain"
  /\ Cancel
  /\ UNCHANGED <<reportVars, shutdown, cancelled, signal, cbVars, aPc, world>>

(* while (!dev->cancelled) libusb_handle_events_completed *)
DrainedFaulty ==
  /\ rPc = "drain" /\ shutdown /\ cbBy # "reader"
  /\ rPc' = "notify"
  /\ UNCHANGED <<reportVars, shutdown, cancelled, signal, transfer, cbVars, aPc, world>>

Drained ==
  /\ rPc = "drain" /\ cancelled /\ cbBy # "reader"
  /\ rPc' = "notify"
  /\ UNCHANGED <<reportVars, shutdown, cancelled, signal, transfer, cbVars, aPc, world>>

(* pthread_cond_broadcast wakes who waits, and no one who comes later. *)
NotifyFaulty ==
  /\ rPc = "notify" /\ rPc' = "done"
  /\ UNCHANGED <<reportVars, shutdown, cancelled, signal, transfer, cbVars, aPc, world>>

Notify ==
  /\ rPc = "notify" /\ rPc' = "done"
  /\ signal' = (aPc = "waiting")
  /\ UNCHANGED <<reportVars, shutdown, cancelled, transfer, cbVars, aPc, world>>

-----------------------------------------------------------------------------
(* read_callback, on the thread t that handles events. *)

HandlesEvents(t) ==
  \/ t = "reader" /\ rPc \in {"events", "drain"}
  \/ t = "app" /\ aPc = "writing"

(* From here until it is submitted again, libusb has no transfer.          *)
CallbackBegins(t) ==
  /\ cbBy = "nobody" /\ HandlesEvents(t) /\ transfer \in Deliverable
  /\ cbBy' = t /\ transfer' = "none"
  /\ cbPc' = CASE transfer = "completed" -> "append"
               [] transfer = "failed" -> "resubmit"
               [] transfer = "ended" -> "shutdown"
  /\ UNCHANGED <<reportVars, shutdown, cancelled, signal, rPc, aPc, world>>

(* libusb_handle_events returns to the loop's test.                        *)
CallbackEnds ==
  /\ cbPc' = "none" /\ cbBy' = "nobody"
  /\ rPc' = IF cbBy = "reader" /\ rPc = "events" THEN "loop" ELSE rPc

(* Under the mutex.  num_queued is the length less one, so the queue       *)
(* starts to drop its oldest at QueueLimit + 2, where the comment says 30. *)
AppendReportFaulty ==
  /\ cbPc = "append" /\ cbPc' = "resubmit"
  /\ received' = received + 1
  /\ reports' = IF Len(reports) - 1 > QueueLimit THEN reports ELSE Append(reports, received + 1)
  /\ signal' = (signal \/ (reports = <<>> /\ aPc = "waiting"))
  /\ UNCHANGED <<got, shutdown, cancelled, transfer, cbBy, rPc, aPc, world>>

AppendReportUnsignalled ==
  /\ cbPc = "append" /\ cbPc' = "resubmit"
  /\ received' = received + 1
  /\ LET longer == Append(reports, received + 1)
     IN reports' = IF Len(reports) - 1 > QueueLimit THEN Tail(longer) ELSE longer
  /\ signal' = (signal \/ (reports # <<>> /\ aPc = "waiting"))
  /\ UNCHANGED <<got, shutdown, cancelled, transfer, cbBy, rPc, aPc, world>>

AppendReport ==
  /\ cbPc = "append" /\ cbPc' = "resubmit"
  /\ received' = received + 1
  /\ LET longer == Append(reports, received + 1)
     IN reports' = IF Len(reports) - 1 > QueueLimit THEN Tail(longer) ELSE longer
  /\ signal' = (signal \/ (reports = <<>> /\ aPc = "waiting"))
  /\ UNCHANGED <<got, shutdown, cancelled, transfer, cbBy, rPc, aPc, world>>

Resubmit ==
  /\ cbPc = "resubmit"
  /\ Submit
  /\ \/ plugged /\ CallbackEnds
     \/ ~plugged /\ cbPc' = "shutdown" /\ UNCHANGED <<cbBy, rPc>>
  /\ UNCHANGED <<reportVars, shutdown, cancelled, signal, aPc, world>>

SetShutdown ==
  /\ cbPc = "shutdown" /\ cbPc' = "cancelled"
  /\ shutdown' = TRUE
  /\ UNCHANGED <<reportVars, cancelled, signal, transfer, cbBy, rPc, aPc, world>>

SetCancelled ==
  /\ cbPc = "cancelled" /\ CallbackEnds
  /\ cancelled' = TRUE
  /\ UNCHANGED <<reportVars, shutdown, signal, transfer, aPc, world>>

-----------------------------------------------------------------------------
(* The device and the kernel. *)

DeviceSends ==
  /\ transfer = "flight" /\ received < MaxReports
  /\ transfer' = "completed"
  /\ UNCHANGED <<reportVars, shutdown, cancelled, signal, cbVars, rPc, aPc, world>>

TransferFails ==
  /\ transfer = "flight" /\ transfer' = "failed"
  /\ UNCHANGED <<reportVars, shutdown, cancelled, signal, cbVars, rPc, aPc, world>>

CancelCompletes ==
  /\ transfer = "cancelling" /\ transfer' = "ended"
  /\ UNCHANGED <<reportVars, shutdown, cancelled, signal, cbVars, rPc, aPc, world>>

Unplug ==
  /\ plugged /\ plugged' = FALSE
  /\ aPc # "closed" /\ ("gone at start" \in may \/ rPc # "submit")
  /\ transfer' = IF transfer = "flight" THEN "ended" ELSE transfer
  /\ UNCHANGED <<reportVars, shutdown, cancelled, signal, cbVars, rPc, aPc, may>>

-----------------------------------------------------------------------------
AppReturns == \/ WriteEnd \/ CloseCancel \/ Join
              \/ signal /\ ReadWake
App == \/ Open \/ Write \/ WriteEnd \/ Read \/ ReadWake \/ ReadTimeout
       \/ Close \/ CloseCancel \/ Join
Callback == AppendReport \/ Resubmit \/ SetShutdown \/ SetCancelled
Reader == \/ FirstSubmit \/ Barrier \/ Loop \/ NoEvent \/ EventsFail
          \/ CancelPending \/ Drained \/ Notify \/ CallbackBegins("reader")
Outside == DeviceSends \/ TransferFails \/ CancelCompletes \/ Unplug

Next == App \/ Callback \/ Reader \/ CallbackBegins("app") \/ Outside

Spec == Init /\ [][Next]_vars

(* Both threads run when they can, hid_write ends with its time-out, the   *)
(* kernel completes what was cancelled; the application need not call, a   *)
(* blocking read need not be answered, and no signal need be spurious.     *)
FairSpec == /\ Spec
            /\ WF_vars(AppReturns) /\ WF_vars(Callback)
            /\ WF_vars(Reader) /\ WF_vars(CancelCompletes)

-----------------------------------------------------------------------------
TypeOK ==
  /\ reports \in Seq(1..MaxReports) /\ Len(reports) <= QueueLimit + 2
  /\ received \in 0..MaxReports /\ got \in 0..MaxReports
  /\ shutdown \in BOOLEAN /\ cancelled \in BOOLEAN /\ signal \in BOOLEAN
  /\ transfer \in Status
  /\ cbBy \in {"nobody", "reader", "app"}
  /\ cbPc \in {"none", "append", "resubmit", "shutdown", "cancelled"}
  /\ rPc \in {"none", "submit", "barrier", "loop", "events", "cancel", "drain", "notify", "done"}
  /\ aPc \in {"closed", "opening", "open", "writing", "waiting", "cancel", "join"}
  /\ plugged \in BOOLEAN /\ may \subseteq Mishaps

(* hid_close frees the transfer and the device only when libusb is done    *)
(* with them: no transfer is in flight and no callback runs, on any        *)
(* thread, once the read thread has ended.                                 *)
NothingFreedInUse ==
  rPc \in {"none", "done"} => transfer = "none" /\ cbBy = "nobody"

(* A reader that sleeps unsignalled has nothing to wake for, although the  *)
(* callback signals only the first report of an empty queue, and the       *)
(* callback and hid_close set shutdown_thread without the mutex.           *)
NoLostWakeup ==
  aPc = "waiting" /\ ~signal => reports = <<>> /\ rPc # "done"

(* The report queue is a queue that drops its oldest, two later than the   *)
(* comment in read_callback says.                                          *)
ReportQueue == INSTANCE DropOldest WITH
  Limit <- QueueLimit + 2, queue <- reports, put <- received, taken <- got
ReportsSpec == ReportQueue!Spec

(* So hid_read never returns a report twice or after a newer one, and only *)
(* the oldest are missing.                                                 *)
ReportsInOrder == ReportQueue!NewestInOrder

(* hid_close returns, when the device is there for the first submission,   *)
(* the cancellation is in time and events are handled.                     *)
CloseReturns == aPc \in {"cancel", "join"} /\ may = {} ~> aPc = "closed"

(* A blocked hid_read returns when the device goes, likewise.              *)
ReadReturnsWhenGone == aPc = "waiting" /\ ~plugged /\ may = {} ~> aPc # "waiting"
=============================================================================
