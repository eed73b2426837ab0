---------------------------- MODULE FlowsProofs -----------------------------
(***************************************************************************)
(* What holds of the flows that MCFlows composes.  First the three         *)
(* components it has one instance of, whose parameters are its own: the    *)
(* cloud login, the desktop app and the owner's notification.  Then the    *)
(* flows: a behaviour of MCFlows is a behaviour of its flow's component,   *)
(* whose theorems are therefore true of it.                                *)
(***************************************************************************)
EXTENDS MCFlows, TLAPS

-----------------------------------------------------------------------------
(* Types.                                                                  *)

\* What one updateOwned does to the row, the request and the fault count.
LEMMA UpdateTyped ==
    ASSUME TypeOK, NEW p \in Processes, NEW new \in Rows, NEW from,
           NEW then \in Pcs, NEW thrown \in Pcs,
           UpdateOwned(p, new, from, then, thrown)
    PROVE  /\ row' \in Rows
           /\ pc' \in [Processes -> Pcs]
           /\ faults' \in 0 .. MaxFaults
<1>1. row' \in Rows
    BY DEF UpdateOwned, TypeOK
<1>2. pc' \in [Processes -> Pcs]
    BY DEF UpdateOwned, TypeOK, Goto
<1>3. faults' \in 0 .. MaxFaults
    BY FaultAssumption DEF UpdateOwned, TypeOK, Fault
<1> QED
    BY <1>1, <1>2, <1>3

\* A request goes to a place of its program.
LEMMA GotoTyped ==
    ASSUME TypeOK, NEW p \in Processes, NEW label \in Pcs, Goto(p, label)
    PROVE  pc' \in [Processes -> Pcs]
BY DEF TypeOK, Goto

\* A fault is counted within its bound.
LEMMA FaultTyped ==
    ASSUME TypeOK, Fault
    PROVE  faults' \in 0 .. MaxFaults
BY FaultAssumption DEF TypeOK, Fault

\* What DestroyBrowser does.
LEMMA DestroyTyped ==
    ASSUME TypeOK, DestroyBrowser
    PROVE  browser' \in Browsers /\ faults' \in 0 .. MaxFaults
<1>1. Delisted(browser.state) \in Browsers
    BY DEF TypeOK, Browsers, Delisted
<1>2. browser' \in Browsers
    BY <1>1 DEF TypeOK, DestroyBrowser
<1>3. faults' \in 0 .. MaxFaults
    BY FaultTyped DEF TypeOK, DestroyBrowser
<1> QED
    BY <1>2, <1>3

\* The creation keeps every variable in its type.
LEMMA CreateTyped ==
    ASSUME TypeOK, Create
    PROVE  TypeOK'
<1> USE DEF Pcs, RequestPcs, CapturePcs, CreatorPcs
<1>0. Creator \in Processes
    BY DEF Processes
<1>1. CASE Insert
    <2>1. row' \in Rows
        BY <1>1 DEF Insert, TypeOK, Rows, RowStates, Active
    <2>2. pc' \in [Processes -> Pcs]
        BY <1>0, <1>1, GotoTyped DEF Insert
    <2> QED
        BY <1>1, <2>1, <2>2 DEF Insert, TypeOK
<1>2. CASE Starting
    <2>1. [row EXCEPT !.state = "starting_browser"] \in Rows
        BY DEF TypeOK, Rows, RowStates, Active
    <2>2. UpdateOwned(Creator, [row EXCEPT !.state = "starting_browser"],
                      {"created"}, "launch", "abandon")
        BY <1>2 DEF Starting
    <2>3. /\ row' \in Rows
          /\ pc' \in [Processes -> Pcs]
          /\ faults' \in 0 .. MaxFaults
        BY <1>0, <2>1, <2>2, UpdateTyped
    <2> QED
        BY <1>2, <2>3 DEF Starting, TypeOK
<1>3. CASE Launch
    <2>1. pc' \in [Processes -> Pcs]
        BY <1>0, <1>3, GotoTyped DEF Launch
    <2>2. faults' \in 0 .. MaxFaults
        BY <1>3, FaultTyped DEF Launch, TypeOK
    <2> QED
        BY <1>3, <2>1, <2>2 DEF Launch, TypeOK
<1>4. CASE Launched
    <2>1. pc' \in [Processes -> Pcs]
        BY <1>0, <1>4, GotoTyped DEF Launched
    <2>2. faults' \in 0 .. MaxFaults
        BY <1>4, FaultTyped DEF Launched, TypeOK
    <2> QED
        BY <1>4, <2>1, <2>2 DEF Launched, TypeOK
<1>5. CASE Attach
    <2> DEFINE new == [row EXCEPT !.provider = TRUE, !.state = "waiting_for_user"]
    <2>1. new \in Rows
        BY DEF TypeOK, Rows, RowStates, Active
    <2>2. UpdateOwned(Creator, new, {"created", "starting_browser"},
                      "answered", "undo")
        BY <1>5 DEF Attach
    <2>3. /\ row' \in Rows
          /\ pc' \in [Processes -> Pcs]
          /\ faults' \in 0 .. MaxFaults
        BY <1>0, <2>1, <2>2, UpdateTyped
    <2> QED
        BY <1>5, <2>3 DEF Attach, TypeOK
<1>6. CASE Undo
    <2>1. browser' \in Browsers /\ faults' \in 0 .. MaxFaults
        BY <1>6, DestroyTyped DEF Undo
    <2>2. pc' \in [Processes -> Pcs]
        BY <1>0, <1>6, GotoTyped DEF Undo
    <2> QED
        BY <1>6, <2>1, <2>2 DEF Undo, TypeOK
<1>7. CASE Abandon
    <2>1. [row EXCEPT !.state = "failed"] \in Rows
        BY DEF TypeOK, Rows, RowStates, Terminal
    <2>2. UpdateOwned(Creator, [row EXCEPT !.state = "failed"], RowStates,
                      "answered", "gone")
        BY <1>7 DEF Abandon
    <2>3. /\ row' \in Rows
          /\ pc' \in [Processes -> Pcs]
          /\ faults' \in 0 .. MaxFaults
        BY <1>0, <2>1, <2>2, UpdateTyped
    <2> QED
        BY <1>7, <2>3 DEF Abandon, TypeOK
<1> QED
    BY <1>1, <1>2, <1>3, <1>4, <1>5, <1>6, <1>7 DEF Create

\* A request's steps keep every variable in its type.
LEMMA RequestTyped ==
    ASSUME TypeOK, NEW r \in Requests, Step(r) \/ StartCancel(r)
    PROVE  TypeOK'
<1> USE DEF Pcs, RequestPcs, CapturePcs, CreatorPcs
<1>0. r \in Processes
    BY DEF Processes
<1>1. CASE Status(r)
    <2>1. pc' \in [Processes -> Pcs]
        BY <1>0, <1>1, GotoTyped DEF Status
    <2>2. faults' \in 0 .. MaxFaults
        BY <1>1, FaultTyped DEF Status, TypeOK
    <2> QED
        BY <1>1, <2>1, <2>2 DEF Status, TypeOK
<1>2. CASE ExpireDestroy(r)
    <2>1. browser' \in Browsers /\ faults' \in 0 .. MaxFaults
        BY <1>2, DestroyTyped DEF ExpireDestroy
    <2>2. pc' \in [Processes -> Pcs]
        BY <1>0, <1>2, GotoTyped DEF ExpireDestroy
    <2> QED
        BY <1>2, <2>1, <2>2 DEF ExpireDestroy, TypeOK
<1>3. CASE Expire(r)
    <2> DEFINE new == [row EXCEPT !.state = "expired", !.destroyed = TRUE]
    <2>1. new \in Rows
        BY DEF TypeOK, Rows, RowStates, Capturing, Terminal
    <2>2. UpdateOwned(r, new, RowStates, "idle", "idle")
        BY <1>3 DEF Expire
    <2>3. /\ row' \in Rows
          /\ pc' \in [Processes -> Pcs]
          /\ faults' \in 0 .. MaxFaults
        BY <1>0, <2>1, <2>2, UpdateTyped
    <2> QED
        BY <1>3, <2>3 DEF Expire, TypeOK
<1>4. CASE Poll(r)
    <2>1. pc' \in [Processes -> Pcs]
        BY <1>0, <1>4, GotoTyped DEF Poll
    <2>2. faults' \in 0 .. MaxFaults
        BY <1>4, FaultTyped DEF Poll, TypeOK
    <2> QED
        BY <1>4, <2>1, <2>2 DEF Poll, TypeOK
<1>5. CASE Vanished(r)
    <2> DEFINE new == [row EXCEPT !.state = "failed", !.destroyed = TRUE]
    <2>1. new \in Rows
        BY DEF TypeOK, Rows, RowStates, Capturing, Terminal
    <2>2. UpdateOwned(r, new, RowStates, "idle", "idle")
        BY <1>5 DEF Vanished
    <2>3. /\ row' \in Rows
          /\ pc' \in [Processes -> Pcs]
          /\ faults' \in 0 .. MaxFaults
        BY <1>0, <2>1, <2>2, UpdateTyped
    <2> QED
        BY <1>5, <2>3 DEF Vanished, TypeOK
<1>6. CASE Observe(r)
    <2>1. pc' \in [Processes -> Pcs]
        BY <1>0, <1>6, GotoTyped DEF Observe
    <2>2. faults' \in 0 .. MaxFaults
        BY <1>6, FaultTyped DEF Observe, TypeOK
    <2>3. seen' \in [Requests -> BrowserStates \ {"captured"}]
        BY <1>6 DEF Observe, IsCaptured, TypeOK, Browsers
    <2> QED
        BY <1>6, <2>1, <2>2, <2>3 DEF Observe, TypeOK
<1>7. CASE Drop(r)
    <2>1. browser' \in Browsers /\ faults' \in 0 .. MaxFaults
        BY <1>7, DestroyTyped DEF Drop
    <2>2. pc' \in [Processes -> Pcs]
        BY <1>0, <1>7, GotoTyped DEF Drop
    <2> QED
        BY <1>7, <2>1, <2>2 DEF Drop, TypeOK
<1>8. CASE Write(r)
    <2> DEFINE new == [row EXCEPT !.state = seen[r],
                   !.destroyed = @ \/ seen[r] \in {"failed", "expired"}]
    <2>1. new \in Rows
        BY DEF TypeOK, Rows, RowStates, BrowserStates, Active, Terminal
    <2>2. UpdateOwned(r, new, RowStates, "idle", "idle")
        BY <1>8 DEF Write
    <2>3. /\ row' \in Rows
          /\ pc' \in [Processes -> Pcs]
          /\ faults' \in 0 .. MaxFaults
        BY <1>0, <2>1, <2>2, UpdateTyped
    <2>4. seen' \in [Requests -> BrowserStates \ {"captured"}]
        BY <1>8 DEF Write, TypeOK, BrowserStates
    <2> QED
        BY <1>8, <2>3, <2>4 DEF Write, TypeOK
<1>9. CASE Claim(r)
    <2>1. pc' \in [Processes -> Pcs]
        BY <1>0, <1>9, GotoTyped DEF Claim
    <2>2. faults' \in 0 .. MaxFaults
        BY <1>9, FaultTyped DEF Claim, TypeOK
    <2>3. row' \in Rows /\ claims' \in 0 .. 2
        BY <1>9 DEF Claim, TypeOK, Rows, RowStates, Capturing, CountTwo
    <2> QED
        BY <1>9, <2>1, <2>2, <2>3 DEF Claim, TypeOK
<1>10. CASE Cookies(r)
    <2>1. pc' \in [Processes -> Pcs]
        BY <1>0, <1>10, GotoTyped DEF Cookies
    <2>2. faults' \in 0 .. MaxFaults
        BY <1>10, FaultTyped DEF Cookies, TypeOK
    <2> QED
        BY <1>10, <2>1, <2>2 DEF Cookies, TypeOK
<1>11. CASE Validating(r)
    <2> DEFINE new == [row EXCEPT !.state = "validating_session"]
    <2>1. new \in Rows
        BY DEF TypeOK, Rows, RowStates, Capturing, Terminal
    <2>2. UpdateOwned(r, new, {"capturing_session"}, "connect", "fail")
        BY <1>11 DEF Validating
    <2>3. /\ row' \in Rows
          /\ pc' \in [Processes -> Pcs]
          /\ faults' \in 0 .. MaxFaults
        BY <1>0, <2>1, <2>2, UpdateTyped
    <2> QED
        BY <1>11, <2>3 DEF Validating, TypeOK
<1>12. CASE Connect(r)
    <2>1. pc' \in [Processes -> Pcs]
        BY <1>0, <1>12, GotoTyped DEF Connect
    <2>2. faults' \in 0 .. MaxFaults
        BY <1>12, FaultTyped DEF Connect, TypeOK
    <2> QED
        BY <1>12, <2>1, <2>2 DEF Connect, TypeOK
<1>13. CASE Note(r)
    <2> DEFINE new == row
    <2>1. new \in Rows
        BY DEF TypeOK, Rows, RowStates, Capturing, Terminal
    <2>2. UpdateOwned(r, new, RowStates, "storefront", "fail")
        BY <1>13 DEF Note
    <2>3. /\ row' \in Rows
          /\ pc' \in [Processes -> Pcs]
          /\ faults' \in 0 .. MaxFaults
        BY <1>0, <2>1, <2>2, UpdateTyped
    <2> QED
        BY <1>13, <2>3 DEF Note, TypeOK
<1>14. CASE ValidateStorefront(r)
    <2>1. pc' \in [Processes -> Pcs]
        BY <1>0, <1>14, GotoTyped DEF ValidateStorefront
    <2>2. faults' \in 0 .. MaxFaults
        BY <1>14, FaultTyped DEF ValidateStorefront, TypeOK
    <2> QED
        BY <1>14, <2>1, <2>2 DEF ValidateStorefront, TypeOK
<1>15. CASE Finish(r)
    <2> DEFINE new == [row EXCEPT !.state = "connected", !.consumed = CountTwo(@)]
    <2>0. CountTwo(row.consumed) \in 0 .. 2
        BY DEF TypeOK, Rows, CountTwo
    <2>1. new \in Rows
        BY <2>0 DEF TypeOK, Rows, RowStates, Capturing, Terminal
    <2>2. UpdateOwned(r, new, FinishFrom, "cleanup", "fail")
        BY <1>15 DEF Finish
    <2>3. /\ row' \in Rows
          /\ pc' \in [Processes -> Pcs]
          /\ faults' \in 0 .. MaxFaults
        BY <1>0, <2>1, <2>2, UpdateTyped
    <2> QED
        BY <1>15, <2>3 DEF Finish, TypeOK
<1>16. CASE Fail(r)
    <2> DEFINE new == [row EXCEPT !.state = "failed"]
    <2>1. new \in Rows
        BY DEF TypeOK, Rows, RowStates, Capturing, Terminal
    <2>2. UpdateOwned(r, new, RowStates, "cleanup", "cleanup")
        BY <1>16 DEF Fail
    <2>3. /\ row' \in Rows
          /\ pc' \in [Processes -> Pcs]
          /\ faults' \in 0 .. MaxFaults
        BY <1>0, <2>1, <2>2, UpdateTyped
    <2> QED
        BY <1>16, <2>3 DEF Fail, TypeOK
<1>17. CASE Cleanup(r)
    <2>1. browser' \in Browsers /\ faults' \in 0 .. MaxFaults
        BY <1>17, DestroyTyped DEF Cleanup
    <2>2. pc' \in [Processes -> Pcs]
        BY <1>0, <1>17, GotoTyped DEF Cleanup
    <2> QED
        BY <1>17, <2>1, <2>2 DEF Cleanup, TypeOK
<1>18. CASE Mark(r)
    <2> DEFINE new == [row EXCEPT !.destroyed = TRUE]
    <2>1. new \in Rows
        BY DEF TypeOK, Rows, RowStates, Capturing, Terminal
    <2>2. UpdateOwned(r, new, RowStates, "idle", "idle")
        BY <1>18 DEF Mark
    <2>3. /\ row' \in Rows
          /\ pc' \in [Processes -> Pcs]
          /\ faults' \in 0 .. MaxFaults
        BY <1>0, <2>1, <2>2, UpdateTyped
    <2> QED
        BY <1>18, <2>3 DEF Mark, TypeOK
<1>19. CASE StartCancel(r)
    <2>1. pc' \in [Processes -> Pcs]
        BY <1>0, <1>19, GotoTyped DEF StartCancel
    <2>2. faults' \in 0 .. MaxFaults
        BY <1>19, FaultTyped DEF StartCancel, TypeOK
    <2> QED
        BY <1>19, <2>1, <2>2 DEF StartCancel, TypeOK
<1>20. CASE CancelDestroy(r)
    <2>1. browser' \in Browsers /\ faults' \in 0 .. MaxFaults
        BY <1>20, DestroyTyped DEF CancelDestroy
    <2>2. pc' \in [Processes -> Pcs]
        BY <1>0, <1>20, GotoTyped DEF CancelDestroy
    <2> QED
        BY <1>20, <2>1, <2>2 DEF CancelDestroy, TypeOK
<1>21. CASE Cancel(r)
    <2> DEFINE new == [row EXCEPT !.state = "cancelled", !.destroyed = TRUE]
    <2>1. new \in Rows
        BY DEF TypeOK, Rows, RowStates, Capturing, Terminal
    <2>2. UpdateOwned(r, new, RowStates, "idle", "idle")
        BY <1>21 DEF Cancel
    <2>3. /\ row' \in Rows
          /\ pc' \in [Processes -> Pcs]
          /\ faults' \in 0 .. MaxFaults
        BY <1>0, <2>1, <2>2, UpdateTyped
    <2> QED
        BY <1>21, <2>3 DEF Cancel, TypeOK
<1> QED
    BY <1>1, <1>2, <1>3, <1>4, <1>5, <1>6, <1>7, <1>8, <1>9, <1>10, <1>11,
       <1>12, <1>13, <1>14, <1>15, <1>16, <1>17, <1>18, <1>19, <1>20, <1>21
    DEF Step, StatusStep, CaptureStep, CancelStep

\* So do the browser service, the clock and a crash.
LEMMA ServiceTyped ==
    ASSUME TypeOK, Service \/ TimePasses \/ \E p \in Processes : Crash(p)
    PROVE  TypeOK'
<1>1. CASE BrowserUp
    BY <1>1 DEF BrowserUp, TypeOK, Browsers, BrowserStates
<1>2. CASE LaunchFails
    BY <1>2 DEF LaunchFails, TypeOK
<1>3. CASE UserActs
    BY <1>3 DEF UserActs, TypeOK, Browsers, BrowserStates
<1>4. CASE PageObserved
    BY <1>4 DEF PageObserved, TypeOK, Browsers, BrowserStates
<1>5. CASE Disconnected
    <2>1. browser' \in Browsers
        BY <1>5 DEF Disconnected, TypeOK, Browsers, BrowserStates
    <2>2. faults' \in 0 .. MaxFaults
        BY <1>5, FaultTyped DEF Disconnected, TypeOK
    <2> QED
        BY <1>5, <2>1, <2>2 DEF Disconnected, TypeOK
<1>6. CASE ViewerLeft
    BY <1>6 DEF ViewerLeft, TypeOK, Browsers, BrowserStates, Delisted
<1>7. CASE Sweep
    BY <1>7 DEF Sweep, TypeOK, Browsers, BrowserStates, Delisted
<1>8. CASE ServiceRestart
    <2>1. browser' \in Browsers
        BY <1>8 DEF ServiceRestart, TypeOK, Browsers, Delisted
    <2>2. pc' \in [Processes -> Pcs]
        BY <1>8 DEF ServiceRestart, TypeOK, Pcs, RequestPcs
    <2>3. faults' \in 0 .. MaxFaults
        BY <1>8, FaultTyped DEF ServiceRestart
    <2> QED
        BY <1>8, <2>1, <2>2, <2>3 DEF ServiceRestart, TypeOK
<1>9. CASE TimePasses
    BY <1>9 DEF TimePasses, TypeOK
<1>10. ASSUME NEW p \in Processes, Crash(p)
       PROVE  TypeOK'
    <2>1. pc' \in [Processes -> Pcs]
        BY <1>10, GotoTyped DEF Crash, Pcs, RequestPcs, CreatorPcs
    <2>2. seen' \in [Requests -> BrowserStates \ {"captured"}]
        BY <1>10 DEF Crash, TypeOK, BrowserStates
    <2>3. faults' \in 0 .. MaxFaults
        BY <1>10, FaultTyped DEF Crash
    <2> QED
        BY <1>10, <2>1, <2>2, <2>3 DEF Crash, TypeOK
<1> QED
    BY <1>1, <1>2, <1>3, <1>4, <1>5, <1>6, <1>7, <1>8, <1>9, <1>10 DEF Service

\* Every variable of the cloud login keeps its type.
THEOREM TypeCorrect == Spec => []TypeOK
<1>1. Init => TypeOK
    <2> SUFFICES ASSUME Init PROVE TypeOK
        OBVIOUS
    <2>1. row \in Rows /\ browser \in Browsers
        BY DEF Init, Rows, RowStates, Browsers, BrowserStates
    <2>2. pc \in [Processes -> Pcs]
        BY DEF Init, Pcs, RequestPcs, CreatorPcs
    <2>3. seen \in [Requests -> BrowserStates \ {"captured"}]
        BY DEF Init, BrowserStates
    <2>4. faults \in 0 .. MaxFaults
        BY FaultAssumption DEF Init
    <2>5. claims \in 0 .. 2
        BY DEF Init
    <2> QED
        BY <2>1, <2>2, <2>3, <2>4, <2>5 DEF Init, TypeOK
<1>2. TypeOK /\ [Next]_vars => TypeOK'
    <2> SUFFICES ASSUME TypeOK, [Next]_vars PROVE TypeOK'
        OBVIOUS
    <2>1. CASE Next
        BY <2>1, CreateTyped, RequestTyped, ServiceTyped DEF Next
    <2>2. CASE UNCHANGED vars
        BY <2>2 DEF vars, TypeOK
    <2> QED
        BY <2>1, <2>2
<1> QED
    BY <1>1, <1>2, PTL DEF Spec

-----------------------------------------------------------------------------
(* Consumption.                                                            *)

\* A consumed row is connected, and was consumed once.
ConsumedInv ==
    /\ row.consumed <= 1
    /\ row.consumed > 0 => row.state = "connected"

\* What one updateOwned may do to the row.
LEMMA UpdateRow ==
    ASSUME NEW p, NEW new, NEW from, NEW then, NEW thrown,
           UpdateOwned(p, new, from, then, thrown)
    PROVE  row' = row \/ (row' = new /\ Permitted(new) /\ row.state \in from)
BY DEF UpdateOwned, Writable

\* How a step leaves `consumed`: alone and permitted, or counted by the write
\* that asks for validating_session.
ConsumedKept == row' = row \/ (row'.consumed = row.consumed /\ Permitted(row'))
ConsumedWritten ==
    /\ row.state = "validating_session"
    /\ row'.consumed = CountTwo(row.consumed)
    /\ row'.state = "connected"

LEMMA ConsumedStep ==
    ASSUME TypeOK, ConsumedInv, Next
    PROVE  ConsumedKept \/ ConsumedWritten
<1> USE DEF ConsumedKept
<1>1. CASE Create
    <2>1. CASE Insert
        BY <2>1 DEF Insert, Permitted, TypeOK, Rows, ConsumedInv
    <2>2. CASE Starting
        <3> DEFINE new == [row EXCEPT !.state = "starting_browser"]
        <3>1. row' = row \/ (row' = new /\ Permitted(new))
            BY <2>2, UpdateRow DEF Starting
        <3> QED
            BY <3>1 DEF TypeOK, Rows
    <2>3. CASE Attach
        <3> DEFINE new == [row EXCEPT !.provider = TRUE, !.state = "waiting_for_user"]
        <3>1. row' = row \/ (row' = new /\ Permitted(new))
            BY <2>3, UpdateRow DEF Attach
        <3> QED
            BY <3>1 DEF TypeOK, Rows
    <2>4. CASE Abandon
        <3> DEFINE new == [row EXCEPT !.state = "failed"]
        <3>1. row' = row \/ (row' = new /\ Permitted(new))
            BY <2>4, UpdateRow DEF Abandon
        <3> QED
            BY <3>1 DEF TypeOK, Rows
    <2> QED
        BY <1>1, <2>1, <2>2, <2>3, <2>4 DEF Create, Launch, Launched, Undo
<1>2. ASSUME NEW r \in Requests, Step(r) \/ StartCancel(r)
      PROVE  ConsumedKept \/ ConsumedWritten
    <2>1. CASE Expire(r)
        <3> DEFINE new == [row EXCEPT !.state = "expired", !.destroyed = TRUE]
        <3>1. row' = row \/ (row' = new /\ Permitted(new))
            BY <2>1, UpdateRow DEF Expire
        <3> QED
            BY <3>1 DEF TypeOK, Rows
    <2>2. CASE Vanished(r)
        <3> DEFINE new == [row EXCEPT !.state = "failed", !.destroyed = TRUE]
        <3>1. row' = row \/ (row' = new /\ Permitted(new))
            BY <2>2, UpdateRow DEF Vanished
        <3> QED
            BY <3>1 DEF TypeOK, Rows
    <2>3. CASE Write(r)
        <3> DEFINE new == [row EXCEPT !.state = seen[r],
                       !.destroyed = @ \/ seen[r] \in {"failed", "expired"}]
        <3>1. row' = row \/ (row' = new /\ Permitted(new))
            BY <2>3, UpdateRow DEF Write
        <3> QED
            BY <3>1 DEF TypeOK, Rows
    <2>4. CASE Validating(r)
        <3> DEFINE new == [row EXCEPT !.state = "validating_session"]
        <3>1. row' = row \/ (row' = new /\ Permitted(new))
            BY <2>4, UpdateRow DEF Validating
        <3> QED
            BY <3>1 DEF TypeOK, Rows
    <2>5. CASE Note(r)
        <3> DEFINE new == row
        <3>1. row' = row \/ (row' = new /\ Permitted(new))
            BY <2>5, UpdateRow DEF Note
        <3> QED
            BY <3>1 DEF TypeOK, Rows
    <2>6. CASE Fail(r)
        <3> DEFINE new == [row EXCEPT !.state = "failed"]
        <3>1. row' = row \/ (row' = new /\ Permitted(new))
            BY <2>6, UpdateRow DEF Fail
        <3> QED
            BY <3>1 DEF TypeOK, Rows
    <2>7. CASE Mark(r)
        <3> DEFINE new == [row EXCEPT !.destroyed = TRUE]
        <3>1. row' = row \/ (row' = new /\ Permitted(new))
            BY <2>7, UpdateRow DEF Mark
        <3> QED
            BY <3>1 DEF TypeOK, Rows
    <2>8. CASE Cancel(r)
        <3> DEFINE new == [row EXCEPT !.state = "cancelled", !.destroyed = TRUE]
        <3>1. row' = row \/ (row' = new /\ Permitted(new))
            BY <2>8, UpdateRow DEF Cancel
        <3> QED
            BY <3>1 DEF TypeOK, Rows
    <2>9. CASE Claim(r)
        BY <2>9 DEF Claim, Claimable, Permitted, TypeOK, Rows
    <2>10. CASE Finish(r)
        <3> DEFINE new == [row EXCEPT !.state = "connected", !.consumed = CountTwo(@)]
        <3>1. row' = row \/ (row' = new /\ row.state \in FinishFrom)
            BY <2>10, UpdateRow DEF Finish
        <3>2. CASE row' = row
            BY <3>2
        <3>3. CASE row' = new /\ row.state \in FinishFrom
            BY <3>3 DEF TypeOK, Rows, FinishFrom, ConsumedWritten
        <3> QED
            BY <3>1, <3>2, <3>3
    <2> QED
        BY <1>2, <2>1, <2>2, <2>3, <2>4, <2>5, <2>6, <2>7, <2>8, <2>9, <2>10
        DEF Step, StatusStep, CaptureStep, CancelStep, Status, ExpireDestroy,
            Poll, Observe, Drop, Cookies, Connect, ValidateStorefront, Cleanup,
            StartCancel, CancelDestroy
<1>3. CASE Service \/ TimePasses \/ \E p \in Processes : Crash(p)
    BY <1>3 DEF Service, BrowserUp, LaunchFails, UserActs, PageObserved,
                Disconnected, ViewerLeft, Sweep, ServiceRestart, TimePasses,
                Crash
<1> QED
    BY <1>1, <1>2, <1>3 DEF Next

\* Consumption happens once, and only to a session not consumed before.
THEOREM ConsumedInvariant == Spec => []ConsumedInv
<1>1. Init => ConsumedInv
    BY DEF Init, ConsumedInv
<1>2. TypeOK /\ ConsumedInv /\ [Next]_vars => ConsumedInv'
    <2> SUFFICES ASSUME TypeOK, ConsumedInv, [Next]_vars PROVE ConsumedInv'
        OBVIOUS
    <2>0. row.consumed \in 0 .. 2
        BY DEF TypeOK, Rows
    <2>1. CASE UNCHANGED vars \/ row' = row
        BY <2>1 DEF vars, ConsumedInv
    <2>2. CASE row'.consumed = row.consumed /\ Permitted(row')
        BY <2>0, <2>2 DEF ConsumedInv, Permitted
    <2>3. CASE ConsumedWritten
        <3>1. row.consumed = 0
            BY <2>0, <2>3 DEF ConsumedWritten, ConsumedInv
        <3> QED
            BY <3>1, <2>3 DEF ConsumedWritten, ConsumedInv, CountTwo
    <2> QED
        BY <2>1, <2>2, <2>3, ConsumedStep DEF ConsumedKept
<1> QED
    BY <1>1, <1>2, TypeCorrect, PTL DEF Spec

\* A session is consumed at most once (capture's last write).
THEOREM Once == Spec => []ConsumedOnce
<1>1. ConsumedInv => ConsumedOnce
    BY DEF ConsumedInv, ConsumedOnce
<1> QED
    BY <1>1, ConsumedInvariant, PTL

\* A consumed session stays connected through every later step.
THEOREM Final == Spec => ConsumedIsFinal
<1>1. TypeOK /\ ConsumedInv /\ [Next]_vars
        => [row.consumed > 0 => row'.consumed > 0 /\ row'.state = "connected"]_vars
    <2> SUFFICES ASSUME TypeOK, ConsumedInv, Next, row.consumed > 0
                 PROVE  row'.consumed > 0 /\ row'.state = "connected"
        OBVIOUS
    <2>1. CASE row' = row
        BY <2>1 DEF ConsumedInv
    <2>2. CASE row'.consumed = row.consumed /\ Permitted(row')
        BY <2>2 DEF Permitted
    <2>3. CASE ConsumedWritten
        BY <2>3 DEF ConsumedWritten, ConsumedInv
    <2> QED
        BY <2>1, <2>2, <2>3, ConsumedStep DEF ConsumedKept
<1> QED
    BY <1>1, TypeCorrect, ConsumedInvariant, PTL DEF Spec, ConsumedIsFinal

-----------------------------------------------------------------------------
(* Steps without a fault.                                                  *)

\* Every step either leaves the fault count alone or is a fault.
LEMMA FaultCounted ==
    ASSUME Next
    PROVE  faults' = faults \/ Fault
<1>1. CASE Create
    BY <1>1 DEF Create, Insert, Starting, Launch, Launched, Attach, Undo,
        Abandon, UpdateOwned, DestroyBrowser
<1>2. ASSUME NEW r \in Requests, Step(r) \/ StartCancel(r)
      PROVE  faults' = faults \/ Fault
    BY <1>2 DEF Step, StatusStep, CaptureStep, CancelStep, UpdateOwned,
        DestroyBrowser,
    Status, ExpireDestroy, Expire, Poll, Vanished, Observe, Drop, Write,
    Claim, Cookies, Validating, Connect, Note, ValidateStorefront, Finish, Fail,
    Cleanup, Mark, StartCancel, CancelDestroy, Cancel
<1>3. CASE Service \/ TimePasses \/ \E p \in Processes : Crash(p)
    BY <1>3 DEF Service, BrowserUp, LaunchFails, UserActs, PageObserved,
        Disconnected, ViewerLeft,
    Sweep, ServiceRestart, TimePasses, Crash
<1> QED
    BY <1>1, <1>2, <1>3 DEF Next

LEMMA FaultFree ==
    ASSUME TypeOK, Next, faults' = 0
    PROVE  faults = 0 /\ ~Fault
<1>1. faults \in Nat
    BY FaultAssumption DEF TypeOK
<1>2. ~Fault
    BY <1>1 DEF Fault
<1> QED
    BY <1>2, FaultCounted

LEMMA UpdateFree ==
    ASSUME NEW p, NEW new, NEW from, NEW then, NEW thrown, ~Fault,
           UpdateOwned(p, new, from, then, thrown)
    PROVE  \/ Writable(new, from) /\ row' = new /\ Goto(p, then)
           \/ ~Writable(new, from) /\ row' = row /\ Goto(p, thrown)
BY DEF UpdateOwned

LEMMA DestroyFree ==
    ASSUME TypeOK, DestroyBrowser, ~Fault
    PROVE  ~browser'.listed
BY DEF TypeOK, Browsers, DestroyBrowser, Delisted

\* A request moves no other process.
LEMMA OthersStay ==
    ASSUME TypeOK, NEW r \in Requests, Step(r) \/ StartCancel(r),
           NEW p \in Processes, p # r
    PROVE  pc'[p] = pc[p]
BY DEF Step, StatusStep, CaptureStep, CancelStep, TypeOK, UpdateOwned, Goto,
    Status, ExpireDestroy, Expire, Poll, Vanished, Observe, Drop, Write,
    Claim, Cookies, Validating, Connect, Note, ValidateStorefront, Finish, Fail,
    Cleanup, Mark, StartCancel, CancelDestroy, Cancel

\* The creation moves no request.
LEMMA RequestsStay ==
    ASSUME TypeOK, Create, NEW r \in Requests
    PROVE  pc'[r] = pc[r]
<1>1. r # Creator /\ r \in Processes
    BY CreatorAssumption DEF Processes
<1> QED
    BY <1>1 DEF Create, TypeOK, UpdateOwned, Goto, Insert, Starting, Launch,
        Launched, Attach, Undo, Abandon

-----------------------------------------------------------------------------
(* The capture is attended.                                                *)

\* A request that leaves a row being captured has not settled it, or another
\* request was capturing it.
LEMMA CaptureOutcome ==
    ASSUME TypeOK, ConsumedInv, NEW r \in Requests,
           Step(r) \/ StartCancel(r), ~Fault, row'.state \in Capturing
    PROVE  \/ pc'[r] \in CapturePcs
           \/ row.state \in Capturing /\ pc[r] \notin CapturePcs
<1> USE DEF CapturePcs, Capturing
<1>0. r \in Processes
    BY DEF Processes
<1>1. CASE Status(r)
    BY <1>1 DEF Status
<1>2. CASE ExpireDestroy(r)
    BY <1>2 DEF ExpireDestroy
<1>3. CASE Expire(r)
    <2> DEFINE new == [row EXCEPT !.state = "expired", !.destroyed = TRUE]
    <2>1. \/ Writable(new, RowStates) /\ row' = new /\ Goto(r, "idle")
          \/ ~Writable(new, RowStates) /\ row' = row /\ Goto(r, "idle")
        BY <1>3, UpdateFree DEF Expire
    <2> QED
        BY <1>3, <2>1 DEF Expire, TypeOK, Rows
<1>4. CASE Poll(r)
    BY <1>4 DEF Poll
<1>5. CASE Vanished(r)
    <2> DEFINE new == [row EXCEPT !.state = "failed", !.destroyed = TRUE]
    <2>1. \/ Writable(new, RowStates) /\ row' = new /\ Goto(r, "idle")
          \/ ~Writable(new, RowStates) /\ row' = row /\ Goto(r, "idle")
        BY <1>5, UpdateFree DEF Vanished
    <2> QED
        BY <1>5, <2>1 DEF Vanished, TypeOK, Rows
<1>6. CASE Observe(r)
    BY <1>6 DEF Observe
<1>7. CASE Drop(r)
    BY <1>7 DEF Drop
<1>8. CASE Write(r)
    <2> DEFINE new == [row EXCEPT !.state = seen[r],
                   !.destroyed = @ \/ seen[r] \in {"failed", "expired"}]
    <2>1. \/ Writable(new, RowStates) /\ row' = new /\ Goto(r, "idle")
          \/ ~Writable(new, RowStates) /\ row' = row /\ Goto(r, "idle")
        BY <1>8, UpdateFree DEF Write
    <2>2. seen[r] \notin Capturing /\ pc[r] = "write"
        BY <1>8 DEF Write, TypeOK, BrowserStates
    <2> QED
        BY <2>1, <2>2 DEF TypeOK, Rows
<1>9. CASE Claim(r)
    BY <1>0, <1>9 DEF Claim, Goto, TypeOK, Rows
<1>10. CASE Cookies(r)
    BY <1>0, <1>10 DEF Cookies, Goto, TypeOK, Rows
<1>11. CASE Validating(r)
    <2> DEFINE new == [row EXCEPT !.state = "validating_session"]
    <2>1. \/ Writable(new, {"capturing_session"}) /\ row' = new /\ Goto(r, "connect")
          \/ ~Writable(new, {"capturing_session"}) /\ row' = row /\ Goto(r, "fail")
        BY <1>11, UpdateFree DEF Validating
    <2> QED
        BY <1>0, <2>1 DEF TypeOK, Rows, Goto
<1>12. CASE Connect(r)
    BY <1>0, <1>12 DEF Connect, Goto, TypeOK, Rows
<1>13. CASE Note(r)
    <2> DEFINE new == row
    <2>1. \/ Writable(new, RowStates) /\ row' = new /\ Goto(r, "storefront")
          \/ ~Writable(new, RowStates) /\ row' = row /\ Goto(r, "fail")
        BY <1>13, UpdateFree DEF Note
    <2> QED
        BY <1>0, <2>1 DEF TypeOK, Rows, Goto
<1>14. CASE ValidateStorefront(r)
    BY <1>0, <1>14 DEF ValidateStorefront, Goto, TypeOK, Rows
<1>15. CASE Finish(r)
    <2> DEFINE new == [row EXCEPT !.state = "connected", !.consumed = CountTwo(@)]
    <2>1. \/ Writable(new, FinishFrom) /\ row' = new /\ Goto(r, "cleanup")
          \/ ~Writable(new, FinishFrom) /\ row' = row /\ Goto(r, "fail")
        BY <1>15, UpdateFree DEF Finish
    <2> QED
        BY <1>0, <2>1 DEF TypeOK, Rows, Goto
<1>16. CASE Fail(r)
    <2> DEFINE new == [row EXCEPT !.state = "failed"]
    <2>1. \/ Writable(new, RowStates) /\ row' = new /\ Goto(r, "cleanup")
          \/ ~Writable(new, RowStates) /\ row' = row /\ Goto(r, "cleanup")
        BY <1>16, UpdateFree DEF Fail
    <2>2. row.state \in Capturing => Writable(new, RowStates)
        BY DEF Writable, Permitted, ConsumedInv, TypeOK, Rows, RowStates
    <2> QED
        BY <2>1, <2>2 DEF TypeOK, Rows
<1>17. CASE Cleanup(r)
    BY <1>17 DEF Cleanup
<1>18. CASE Mark(r)
    <2> DEFINE new == [row EXCEPT !.destroyed = TRUE]
    <2>1. \/ Writable(new, RowStates) /\ row' = new /\ Goto(r, "idle")
          \/ ~Writable(new, RowStates) /\ row' = row /\ Goto(r, "idle")
        BY <1>18, UpdateFree DEF Mark
    <2> QED
        BY <1>18, <2>1 DEF Mark, TypeOK, Rows
<1>19. CASE StartCancel(r)
    BY <1>19 DEF StartCancel
<1>20. CASE CancelDestroy(r)
    BY <1>20 DEF CancelDestroy
<1>21. CASE Cancel(r)
    <2> DEFINE new == [row EXCEPT !.state = "cancelled", !.destroyed = TRUE]
    <2>1. \/ Writable(new, RowStates) /\ row' = new /\ Goto(r, "idle")
          \/ ~Writable(new, RowStates) /\ row' = row /\ Goto(r, "idle")
        BY <1>21, UpdateFree DEF Cancel
    <2> QED
        BY <1>21, <2>1 DEF Cancel, TypeOK, Rows
<1> QED
    BY <1>1, <1>2, <1>3, <1>4, <1>5, <1>6, <1>7, <1>8, <1>9, <1>10, <1>11,
       <1>12, <1>13, <1>14, <1>15, <1>16, <1>17, <1>18, <1>19, <1>20, <1>21
    DEF Step, StatusStep, CaptureStep, CancelStep

\* Without faults, a row between a claim and its outcome has a request that
\* will settle it (the try and catch blocks of capture).
THEOREM Attended == Spec => []CaptureAttended
<1>1. Init => CaptureAttended
    BY DEF Init, CaptureAttended, Capturing
<1>2. TypeOK /\ ConsumedInv /\ CaptureAttended /\ [Next]_vars => CaptureAttended'
    <2> SUFFICES ASSUME TypeOK, ConsumedInv, CaptureAttended, Next,
                        faults' = 0, row'.state \in Capturing
                 PROVE  \E r \in Requests : pc'[r] \in CapturePcs
        BY DEF vars, CaptureAttended
    <2>0. faults = 0 /\ ~Fault
        BY FaultFree
    <2>1. CASE Create
        <3>1. row.state \in Capturing
            BY <2>0, <2>1 DEF Create, Insert, Starting, Launch, Launched,
                Attach, Undo, Abandon,
                UpdateOwned, Capturing, TypeOK, Rows
        <3> QED
            BY <2>0, <2>1, <3>1, RequestsStay DEF CaptureAttended
    <2>2. ASSUME NEW r \in Requests, Step(r) \/ StartCancel(r)
          PROVE  \E q \in Requests : pc'[q] \in CapturePcs
        <3>1. CASE pc'[r] \in CapturePcs
            BY <3>1
        <3>2. CASE row.state \in Capturing /\ pc[r] \notin CapturePcs
            <4>1. PICK q \in Requests : pc[q] \in CapturePcs
                BY <2>0, <3>2 DEF CaptureAttended
            <4>2. q # r /\ q \in Processes
                BY <3>2, <4>1 DEF Processes
            <4> QED
                BY <2>2, <4>1, <4>2, OthersStay
        <3> QED
            BY <2>0, <2>2, <3>1, <3>2, CaptureOutcome
    <2>3. CASE Service \/ TimePasses \/ \E p \in Processes : Crash(p)
        <3>1. UNCHANGED <<row, pc>>
            BY <2>0, <2>3 DEF Service, BrowserUp, LaunchFails, UserActs,
                PageObserved, Disconnected, ViewerLeft,
                Sweep, ServiceRestart,
                TimePasses, Crash
        <3> QED
            BY <2>0, <3>1 DEF CaptureAttended
    <2> QED
        BY <2>1, <2>2, <2>3 DEF Next
<1> QED
    BY <1>1, <1>2, TypeCorrect, ConsumedInvariant, PTL DEF Spec

-----------------------------------------------------------------------------
(* The browser is gone when the row says so.                               *)

\* How far the creation has come, by the browser it may have started.
CreationInv ==
    /\ pc[Creator] \in {"insert", "starting", "launch"} => launch = "none"
    /\ launch = "pending" => pc[Creator] = "waiting"
    /\ launch \in {"none", "pending", "failed"} => ~browser.listed
    /\ pc[Creator] = "abandon" => ~browser.listed
    /\ pc[Creator] # "answered" =>
         /\ \A r \in Requests : pc[r] = "idle"
         /\ ~row.destroyed
         /\ row.state \notin Terminal
    /\ pc[Creator] = "answered" /\ row.state \in Active => row.provider

\* Requests that have destroyed the browser, or learnt that it is gone.
RequestInv ==
    \A r \in Requests :
      /\ pc[r] # "idle" => row.provider
      /\ pc[r] \in {"expire", "vanished", "mark", "cancel"} => ~browser.listed
      /\ pc[r] = "write" /\ seen[r] \in {"failed", "expired"} => ~browser.listed

\* A settled row has no browser, or a capture that is about to destroy it.
ReleaseInv ==
    /\ row.destroyed => ~browser.listed
    /\ row.state \in Terminal =>
         ~browser.listed \/ \E r \in Requests : pc[r] = "cleanup"

FaultFreeInv == CreationInv /\ RequestInv /\ ReleaseInv

BrowserInv == faults = 0 => FaultFreeInv

\* A request finds the session created, and its row keeps its browser.
LEMMA RequestFacts ==
    ASSUME TypeOK, ConsumedInv, FaultFreeInv, NEW r \in Requests,
        Step(r) \/ StartCancel(r), ~Fault
    PROVE  /\ pc[Creator] = "answered" /\ pc'[Creator] = "answered"
           /\ row'.provider = row.provider
           /\ browser'.listed => browser.listed
           /\ launch' = launch
           /\ row.provider
<1>1. pc[Creator] = "answered"
    <2>1. pc[r] # "idle" \/ pc[Creator] = "answered"
        BY DEF Step, StatusStep, CaptureStep, CancelStep, Status,
            ExpireDestroy, Expire, Poll, Vanished, Observe, Drop, Write,
    Claim, Cookies, Validating, Connect, Note, ValidateStorefront, Finish, Fail,
    Cleanup, Mark, StartCancel, CancelDestroy, Cancel
    <2> QED
        BY <2>1 DEF FaultFreeInv, CreationInv
<1>2. pc'[Creator] = "answered"
    BY <1>1, OthersStay, CreatorAssumption DEF Processes
<1>3. row'.provider = row.provider
    BY DEF Step, StatusStep, CaptureStep, CancelStep, TypeOK, Rows,
        UpdateOwned, Status, ExpireDestroy, Expire, Poll, Vanished, Observe,
        Drop, Write,
    Claim, Cookies, Validating, Connect, Note, ValidateStorefront, Finish, Fail,
    Cleanup, Mark, StartCancel, CancelDestroy, Cancel
<1>4. browser'.listed => browser.listed
    BY DEF Step, StatusStep, CaptureStep, CancelStep, TypeOK, Browsers,
        Delisted, DestroyBrowser, Status, ExpireDestroy, Expire, Poll,
        Vanished, Observe, Drop, Write,
    Claim, Cookies, Validating, Connect, Note, ValidateStorefront, Finish, Fail,
    Cleanup, Mark, StartCancel, CancelDestroy, Cancel
<1>5. launch' = launch
    BY DEF Step, StatusStep, CaptureStep, CancelStep, Status, ExpireDestroy,
        Expire, Poll, Vanished, Observe, Drop, Write,
    Claim, Cookies, Validating, Connect, Note, ValidateStorefront, Finish, Fail,
    Cleanup, Mark, StartCancel, CancelDestroy, Cancel
<1>6. row.provider
    <2>1. pc[r] # "idle" \/ row.state \in Active
        BY DEF Step, StatusStep, CaptureStep, CancelStep, Status,
            ExpireDestroy, Expire, Poll, Vanished, Observe, Drop, Write,
    Claim, Cookies, Validating, Connect, Note, ValidateStorefront, Finish, Fail,
    Cleanup, Mark, StartCancel, CancelDestroy, Cancel
    <2> QED
        BY <1>1, <2>1 DEF FaultFreeInv, CreationInv, RequestInv
<1> QED
    BY <1>1, <1>2, <1>3, <1>4, <1>5, <1>6

\* What a request knows of the browser stays true through its own step, and
\* what it writes into the row is what it knows.
LEMMA RequestKnows ==
    ASSUME TypeOK, ConsumedInv, FaultFreeInv, NEW r \in Requests,
        Step(r) \/ StartCancel(r), ~Fault
    PROVE  /\ pc'[r] \in {"expire", "vanished", "mark", "cancel"}
                => ~browser'.listed
           /\ pc'[r] = "write" /\ seen'[r] \in {"failed", "expired"}
                => ~browser'.listed
           /\ row'.destroyed => row.destroyed \/ ~browser'.listed
           /\ row'.state \in Terminal =>
                \/ pc'[r] = "cleanup" \/ ~browser'.listed
                \/ row.state \in Terminal /\ pc[r] # "cleanup"
<1> USE DEF Terminal
<1>0. r \in Processes
    BY DEF Processes
<1>a. row.provider
    BY RequestFacts
<1>1. CASE Status(r)
    <2>1. pc[r] # "cleanup" /\ UNCHANGED <<row, browser, seen>>
        BY <1>1 DEF Status
    <2>2. \/ pc'[r] \in {"expireDestroy", "poll", "observe", "cancelDestroy"}
          \/ pc'[r] = "vanished" /\ ~browser.listed
        BY <1>0, <1>a, <1>1 DEF Status, Goto, TypeOK
    <2> QED
        BY <2>1, <2>2
<1>2. CASE ExpireDestroy(r)
    <2>1. ~browser'.listed
        BY <1>2, DestroyFree DEF ExpireDestroy
    <2> QED
        BY <2>1
<1>3. CASE Expire(r)
    <2> DEFINE new == [row EXCEPT !.state = "expired", !.destroyed = TRUE]
    <2>1. \/ Writable(new, RowStates) /\ row' = new /\ Goto(r, "idle")
          \/ ~Writable(new, RowStates) /\ row' = row /\ Goto(r, "idle")
        BY <1>3, UpdateFree DEF Expire
    <2>2. pc[r] # "cleanup" /\ browser' = browser /\ ~browser.listed
        BY <1>3 DEF Expire, FaultFreeInv, RequestInv
    <2>3. pc'[r] \in {"idle", "idle"}
        BY <1>0, <2>1 DEF Goto, TypeOK
    <2> QED
        BY <2>2, <2>3
<1>4. CASE Poll(r)
    <2>1. pc[r] # "cleanup" /\ UNCHANGED <<row, browser, seen>>
        BY <1>4 DEF Poll
    <2>2. \/ pc'[r] \in {"expireDestroy", "poll", "observe", "cancelDestroy"}
          \/ pc'[r] = "vanished" /\ ~browser.listed
        BY <1>0, <1>a, <1>4 DEF Poll, Goto, TypeOK
    <2> QED
        BY <2>1, <2>2
<1>5. CASE Vanished(r)
    <2> DEFINE new == [row EXCEPT !.state = "failed", !.destroyed = TRUE]
    <2>1. \/ Writable(new, RowStates) /\ row' = new /\ Goto(r, "idle")
          \/ ~Writable(new, RowStates) /\ row' = row /\ Goto(r, "idle")
        BY <1>5, UpdateFree DEF Vanished
    <2>2. pc[r] # "cleanup" /\ browser' = browser /\ ~browser.listed
        BY <1>5 DEF Vanished, FaultFreeInv, RequestInv
    <2>3. pc'[r] \in {"idle", "idle"}
        BY <1>0, <2>1 DEF Goto, TypeOK
    <2> QED
        BY <2>2, <2>3
<1>6. CASE Observe(r)
    <2>1. pc[r] = "observe" /\ UNCHANGED <<row, browser>>
        BY <1>6 DEF Observe
    <2>2. CASE IsCaptured /\ Goto(r, "claim")
        BY <1>0, <2>1, <2>2 DEF Goto, TypeOK
    <2>3. CASE browser.state \in {"failed", "expired"} /\ Goto(r, "drop")
        BY <1>0, <2>1, <2>3 DEF Goto, TypeOK
    <2>4. CASE /\ browser.state \notin {"failed", "expired"}
               /\ seen' = [seen EXCEPT ![r] = browser.state]
               /\ Goto(r, "write")
        BY <1>0, <2>1, <2>4 DEF Goto, TypeOK
    <2> QED
        BY <1>6, <2>2, <2>3, <2>4 DEF Observe
<1>7. CASE Drop(r)
    <2>1. ~browser'.listed
        BY <1>7, DestroyFree DEF Drop
    <2> QED
        BY <2>1
<1>8. CASE Write(r)
    <2> DEFINE new == [row EXCEPT !.state = seen[r],
                   !.destroyed = @ \/ seen[r] \in {"failed", "expired"}]
    <2>1. \/ Writable(new, RowStates) /\ row' = new /\ Goto(r, "idle")
          \/ ~Writable(new, RowStates) /\ row' = row /\ Goto(r, "idle")
        BY <1>8, UpdateFree DEF Write
    <2>2. pc[r] = "write" /\ browser' = browser
        BY <1>8 DEF Write
    <2>3. seen[r] \in {"failed", "expired"} => ~browser.listed
        BY <2>2 DEF FaultFreeInv, RequestInv
    <2>4. seen[r] \notin Terminal \ {"failed", "expired"}
        BY DEF TypeOK, BrowserStates
    <2>5. pc'[r] = "idle"
        BY <1>0, <2>1 DEF Goto, TypeOK
    <2>6. CASE row' = row
        BY <2>2, <2>5, <2>6
    <2>7. CASE row' = new
        <3>1. row'.state = seen[r]
            BY <2>7 DEF TypeOK, Rows
        <3>2. row'.destroyed => row.destroyed \/ seen[r] \in {"failed", "expired"}
            BY <2>7 DEF TypeOK, Rows
        <3> QED
            BY <2>2, <2>3, <2>4, <2>5, <3>1, <3>2
    <2> QED
        BY <2>1, <2>6, <2>7
<1>9. CASE Claim(r)
    <2>1. pc[r] = "claim" /\ pc'[r] \in {"cookies", "idle"}
        BY <1>0, <1>9 DEF Claim, Goto, TypeOK
    <2>2. row'.destroyed = row.destroyed /\ (row' = row \/ row'.state \notin Terminal)
        BY <1>9 DEF Claim, TypeOK, Rows
    <2> QED
        BY <2>1, <2>2
<1>10. CASE Cookies(r)
    <2>1. pc[r] # "cleanup" /\ UNCHANGED <<row, browser>>
        BY <1>10 DEF Cookies
    <2>2. pc'[r] \in {"validating", "fail", "note", "finish"}
        BY <1>0, <1>10 DEF Cookies, Goto, TypeOK
    <2> QED
        BY <2>1, <2>2
<1>11. CASE Validating(r)
    <2> DEFINE new == [row EXCEPT !.state = "validating_session"]
    <2>1. \/ Writable(new, {"capturing_session"}) /\ row' = new /\ Goto(r, "connect")
          \/ ~Writable(new, {"capturing_session"}) /\ row' = row /\ Goto(r, "fail")
        BY <1>11, UpdateFree DEF Validating
    <2>2. pc[r] # "cleanup" /\ browser' = browser
        BY <1>11 DEF Validating
    <2>3. pc'[r] \in {"connect", "fail"}
        BY <1>0, <2>1 DEF Goto, TypeOK
    <2>4. row'.destroyed = row.destroyed /\ (row' = row \/ row'.state \notin Terminal)
        BY <2>1 DEF TypeOK, Rows
    <2> QED
        BY <2>2, <2>3, <2>4
<1>12. CASE Connect(r)
    <2>1. pc[r] # "cleanup" /\ UNCHANGED <<row, browser>>
        BY <1>12 DEF Connect
    <2>2. pc'[r] \in {"validating", "fail", "note", "finish"}
        BY <1>0, <1>12 DEF Connect, Goto, TypeOK
    <2> QED
        BY <2>1, <2>2
<1>13. CASE Note(r)
    <2> DEFINE new == row
    <2>1. \/ Writable(new, RowStates) /\ row' = new /\ Goto(r, "storefront")
          \/ ~Writable(new, RowStates) /\ row' = row /\ Goto(r, "fail")
        BY <1>13, UpdateFree DEF Note
    <2>2. pc[r] # "cleanup" /\ browser' = browser
        BY <1>13 DEF Note
    <2>3. pc'[r] \in {"storefront", "fail"}
        BY <1>0, <2>1 DEF Goto, TypeOK
    <2>4. row'.destroyed = row.destroyed /\ (row' = row \/ row'.state \notin Terminal)
        BY <2>1 DEF TypeOK, Rows
    <2> QED
        BY <2>2, <2>3, <2>4
<1>14. CASE ValidateStorefront(r)
    <2>1. pc[r] # "cleanup" /\ UNCHANGED <<row, browser>>
        BY <1>14 DEF ValidateStorefront
    <2>2. pc'[r] \in {"validating", "fail", "note", "finish"}
        BY <1>0, <1>14 DEF ValidateStorefront, Goto, TypeOK
    <2> QED
        BY <2>1, <2>2
<1>15. CASE Finish(r)
    <2> DEFINE new == [row EXCEPT !.state = "connected", !.consumed = CountTwo(@)]
    <2>1. \/ Writable(new, FinishFrom) /\ row' = new /\ Goto(r, "cleanup")
          \/ ~Writable(new, FinishFrom) /\ row' = row /\ Goto(r, "fail")
        BY <1>15, UpdateFree DEF Finish
    <2>2. pc[r] # "cleanup" /\ browser' = browser
        BY <1>15 DEF Finish
    <2>3. pc'[r] \in {"cleanup", "fail"}
        BY <1>0, <2>1 DEF Goto, TypeOK
    <2>4. row'.destroyed = row.destroyed
        BY <2>1 DEF TypeOK, Rows
    <2>5. row' = row \/ pc'[r] = "cleanup"
        BY <1>0, <2>1 DEF Goto, TypeOK
    <2> QED
        BY <2>2, <2>3, <2>4, <2>5
<1>16. CASE Fail(r)
    <2> DEFINE new == [row EXCEPT !.state = "failed"]
    <2>1. \/ Writable(new, RowStates) /\ row' = new /\ Goto(r, "cleanup")
          \/ ~Writable(new, RowStates) /\ row' = row /\ Goto(r, "cleanup")
        BY <1>16, UpdateFree DEF Fail
    <2>2. pc[r] # "cleanup" /\ browser' = browser
        BY <1>16 DEF Fail
    <2>3. pc'[r] \in {"cleanup", "cleanup"}
        BY <1>0, <2>1 DEF Goto, TypeOK
    <2>4. row'.destroyed = row.destroyed
        BY <2>1 DEF TypeOK, Rows
    <2> QED
        BY <2>2, <2>3, <2>4
<1>17. CASE Cleanup(r)
    <2>1. ~browser'.listed
        BY <1>17, DestroyFree DEF Cleanup
    <2> QED
        BY <2>1
<1>18. CASE Mark(r)
    <2> DEFINE new == [row EXCEPT !.destroyed = TRUE]
    <2>1. \/ Writable(new, RowStates) /\ row' = new /\ Goto(r, "idle")
          \/ ~Writable(new, RowStates) /\ row' = row /\ Goto(r, "idle")
        BY <1>18, UpdateFree DEF Mark
    <2>2. pc[r] # "cleanup" /\ browser' = browser /\ ~browser.listed
        BY <1>18 DEF Mark, FaultFreeInv, RequestInv
    <2>3. pc'[r] \in {"idle", "idle"}
        BY <1>0, <2>1 DEF Goto, TypeOK
    <2> QED
        BY <2>2, <2>3
<1>19. CASE StartCancel(r)
    <2>1. pc[r] # "cleanup" /\ UNCHANGED <<row, browser, seen>>
        BY <1>19 DEF StartCancel
    <2>2. \/ pc'[r] \in {"expireDestroy", "poll", "observe", "cancelDestroy"}
          \/ pc'[r] = "vanished" /\ ~browser.listed
        BY <1>0, <1>a, <1>19 DEF StartCancel, Goto, TypeOK
    <2> QED
        BY <2>1, <2>2
<1>20. CASE CancelDestroy(r)
    <2>1. ~browser'.listed
        BY <1>20, DestroyFree DEF CancelDestroy
    <2> QED
        BY <2>1
<1>21. CASE Cancel(r)
    <2> DEFINE new == [row EXCEPT !.state = "cancelled", !.destroyed = TRUE]
    <2>1. \/ Writable(new, RowStates) /\ row' = new /\ Goto(r, "idle")
          \/ ~Writable(new, RowStates) /\ row' = row /\ Goto(r, "idle")
        BY <1>21, UpdateFree DEF Cancel
    <2>2. pc[r] # "cleanup" /\ browser' = browser /\ ~browser.listed
        BY <1>21 DEF Cancel, FaultFreeInv, RequestInv
    <2>3. pc'[r] \in {"idle", "idle"}
        BY <1>0, <2>1 DEF Goto, TypeOK
    <2> QED
        BY <2>2, <2>3
<1> QED
    BY <1>1, <1>2, <1>3, <1>4, <1>5, <1>6, <1>7, <1>8, <1>9, <1>10, <1>11,
       <1>12, <1>13, <1>14, <1>15, <1>16, <1>17, <1>18, <1>19, <1>20, <1>21
    DEF Step, StatusStep, CaptureStep, CancelStep

\* A request's step keeps the invariant.
LEMMA RequestKeeps ==
    ASSUME TypeOK, ConsumedInv, FaultFreeInv, NEW r \in Requests,
        Step(r) \/ StartCancel(r), ~Fault
    PROVE  FaultFreeInv'
<1>0. /\ pc[Creator] = "answered" /\ pc'[Creator] = "answered"
      /\ row'.provider = row.provider /\ row.provider
      /\ browser'.listed => browser.listed
      /\ launch' = launch
    BY RequestFacts
<1>1. CreationInv'
    BY <1>0 DEF FaultFreeInv, CreationInv
<1>2. ASSUME NEW q \in Requests
      PROVE  /\ pc'[q] # "idle" => row'.provider
             /\ pc'[q] \in {"expire", "vanished", "mark", "cancel"}
                  => ~browser'.listed
             /\ pc'[q] = "write" /\ seen'[q] \in {"failed", "expired"}
                  => ~browser'.listed
    <2>1. CASE q = r
        BY <1>0, <2>1, RequestKnows
    <2>2. CASE q # r
        <3>1. pc'[q] = pc[q]
            BY <2>2, OthersStay DEF Processes
        <3>2. seen'[q] = seen[q]
            BY <2>2 DEF Step, StatusStep, CaptureStep, CancelStep, TypeOK,
                Status, ExpireDestroy, Expire, Poll, Vanished, Observe, Drop,
                Write,
                Claim, Cookies, Validating, Connect, Note, ValidateStorefront,
                Finish, Fail,
                Cleanup, Mark, StartCancel, CancelDestroy, Cancel
        <3> QED
            BY <1>0, <3>1, <3>2 DEF FaultFreeInv, RequestInv
    <2> QED
        BY <2>1, <2>2
<1>3. RequestInv'
    BY <1>2 DEF RequestInv
<1>4. row'.destroyed => ~browser'.listed
    BY <1>0, RequestKnows DEF FaultFreeInv, ReleaseInv
<1>5. ASSUME row'.state \in Terminal
      PROVE  ~browser'.listed \/ \E q \in Requests : pc'[q] = "cleanup"
    <2>1. CASE pc'[r] = "cleanup" \/ ~browser'.listed
        BY <2>1
    <2>2. CASE row.state \in Terminal /\ pc[r] # "cleanup"
        <3>1. CASE ~browser.listed
            BY <1>0, <3>1
        <3>2. CASE \E q \in Requests : pc[q] = "cleanup"
            <4>1. PICK q \in Requests : pc[q] = "cleanup"
                BY <3>2
            <4>2. pc'[q] = "cleanup"
                BY <2>2, <4>1, OthersStay DEF Processes
            <4> QED
                BY <4>2
        <3> QED
            BY <2>2, <3>1, <3>2 DEF FaultFreeInv, ReleaseInv
    <2> QED
        BY <1>5, <2>1, <2>2, RequestKnows
<1> QED
    BY <1>1, <1>3, <1>4, <1>5 DEF FaultFreeInv, ReleaseInv

\* So does the creation: no request is under way, nothing is settled before
\* its last step.
LEMMA CreateKeeps ==
    ASSUME TypeOK, ConsumedInv, FaultFreeInv, Create, ~Fault
    PROVE  FaultFreeInv'
<1>0. pc[Creator] # "answered" /\ Creator \in Processes
    BY DEF Create, Insert, Starting, Launch, Launched, Attach, Undo, Abandon,
        Processes
<1>1. \A r \in Requests : pc[r] = "idle" /\ pc'[r] = "idle"
    BY <1>0, RequestsStay DEF FaultFreeInv, CreationInv
<1>2. RequestInv'
    BY <1>1 DEF RequestInv
<1>3. ~row.destroyed /\ row.state \notin Terminal /\ row.consumed = 0
    BY <1>0 DEF FaultFreeInv, CreationInv, ConsumedInv, TypeOK, Rows, Terminal
<1>4. ~row'.destroyed
    BY <1>3 DEF Create, Insert, Starting, Launch, Launched, Attach, Undo,
        Abandon, UpdateOwned, TypeOK, Rows
<1> USE DEF FaultFreeInv, CreationInv, ReleaseInv, Active, Terminal
<1>5. CASE Insert
    <2>1. row'.state = "created" /\ pc'[Creator] = "starting"
        BY <1>0, <1>5 DEF Insert, Goto, TypeOK, Rows
    <2> QED
        BY <1>1, <1>2, <1>4, <1>5, <2>1 DEF Insert
<1>6. CASE Starting
    <2> DEFINE new == [row EXCEPT !.state = "starting_browser"]
    <2>1. \/ Writable(new, {"created"}) /\ row' = new /\ Goto(Creator, "launch")
          \/ ~Writable(new, {"created"}) /\ row' = row /\ Goto(Creator, "abandon")
        BY <1>6, UpdateFree DEF Starting
    <2>2. row'.state \notin Terminal /\ pc'[Creator] \in {"launch", "abandon"}
        BY <1>0, <1>3, <2>1 DEF Goto, TypeOK, Rows
    <2> QED
        BY <1>1, <1>2, <1>4, <1>6, <2>2 DEF Starting
<1>7. CASE Launch
    <2>1. \/ launch' = "pending" /\ pc'[Creator] = "waiting"
          \/ launch' = launch /\ pc'[Creator] = "abandon"
        BY <1>0, <1>7 DEF Launch, Goto, TypeOK
    <2> QED
        BY <1>1, <1>2, <1>3, <1>4, <1>7, <2>1 DEF Launch
<1>8. CASE Launched
    <2>1. \/ launch = "up" /\ pc'[Creator] = "attach"
          \/ launch = "failed" /\ pc'[Creator] = "abandon"
        BY <1>0, <1>8 DEF Launched, Goto, TypeOK
    <2> QED
        BY <1>1, <1>2, <1>3, <1>4, <1>8, <2>1 DEF Launched
<1>9. CASE Attach
    <2> DEFINE new == [row EXCEPT !.provider = TRUE, !.state = "waiting_for_user"]
    <2>1. \/ row' = new /\ Goto(Creator, "answered")
          \/ row' = row /\ Goto(Creator, "undo")
        BY <1>9, UpdateFree DEF Attach
    <2>2. \/ /\ row'.state = "waiting_for_user" /\ row'.provider
             /\ pc'[Creator] = "answered"
          \/ row' = row /\ pc'[Creator] = "undo"
        BY <1>0, <2>1 DEF Goto, TypeOK, Rows
    <2> QED
        BY <1>1, <1>2, <1>3, <1>4, <1>9, <2>2 DEF Attach
<1>10. CASE Undo
    <2>1. ~browser'.listed
        BY <1>10, DestroyFree DEF Undo
    <2>2. pc'[Creator] = "abandon"
        BY <1>0, <1>10 DEF Undo, Goto, TypeOK
    <2> QED
        BY <1>1, <1>2, <1>3, <1>4, <1>10, <2>1, <2>2 DEF Undo
<1>11. CASE Abandon
    <2> DEFINE new == [row EXCEPT !.state = "failed"]
    <2>1. \/ Writable(new, RowStates) /\ row' = new /\ Goto(Creator, "answered")
          \/ ~Writable(new, RowStates) /\ row' = row /\ Goto(Creator, "gone")
        BY <1>11, UpdateFree DEF Abandon
    <2>2. Writable(new, RowStates)
        BY <1>3 DEF Writable, Permitted, TypeOK, Rows
    <2>3. row'.state = "failed" /\ pc'[Creator] = "answered" /\ ~browser'.listed
        BY <1>0, <1>11, <2>1, <2>2 DEF Abandon, Goto, TypeOK, Rows
    <2> QED
        BY <1>1, <1>2, <1>4, <1>11, <2>3 DEF Abandon
<1> QED
    BY <1>5, <1>6, <1>7, <1>8, <1>9, <1>10, <1>11 DEF Create

\* So do the browser service and the clock: a browser comes up only while its
\* creation waits for it.
LEMMA ServiceKeeps ==
    ASSUME TypeOK, ConsumedInv, FaultFreeInv, ~Fault,
           Service \/ TimePasses \/ \E p \in Processes : Crash(p)
    PROVE  FaultFreeInv'
<1>1. CASE BrowserUp
    <2>1. UNCHANGED <<row, pc, seen>> /\ launch' = "up" /\ launch = "pending"
        BY <1>1 DEF BrowserUp
    <2>2. pc[Creator] = "waiting"
        BY <2>1 DEF FaultFreeInv, CreationInv
    <2>3. /\ \A r \in Requests : pc[r] = "idle"
          /\ ~row.destroyed /\ row.state \notin Terminal
        BY <2>2 DEF FaultFreeInv, CreationInv
    <2> QED
        BY <2>1, <2>2, <2>3
        DEF FaultFreeInv, CreationInv, RequestInv, ReleaseInv
<1>2. CASE ~BrowserUp
    <2>1. UNCHANGED <<row, pc, seen>>
        BY <1>2 DEF Service, LaunchFails, UserActs, PageObserved, Disconnected,
                    ViewerLeft, Sweep, ServiceRestart, TimePasses, Crash
    <2>2. browser'.listed => browser.listed
        <3>1. CASE LaunchFails \/ TimePasses \/ \E p \in Processes : Crash(p)
            BY <3>1 DEF LaunchFails, TimePasses, Crash
        <3>2. CASE UserActs \/ PageObserved \/ Disconnected
            BY <3>2 DEF UserActs, PageObserved, Disconnected, TypeOK, Browsers
        <3>3. CASE ViewerLeft \/ Sweep
            BY <3>3 DEF ViewerLeft, Sweep, Delisted
        <3>4. CASE ServiceRestart
            BY <3>4 DEF ServiceRestart
        <3> QED
            BY <1>2, <3>1, <3>2, <3>3, <3>4 DEF Service
    <2>3. launch' = launch \/ (launch = "pending" /\ launch' = "failed")
        BY <1>2 DEF Service, LaunchFails, UserActs, PageObserved, Disconnected,
                    ViewerLeft, Sweep, ServiceRestart, TimePasses, Crash
    <2>4. CreationInv'
        BY <2>1, <2>2, <2>3 DEF FaultFreeInv, CreationInv
    <2>5. RequestInv' /\ ReleaseInv'
        BY <2>1, <2>2 DEF FaultFreeInv, RequestInv, ReleaseInv
    <2> QED
        BY <2>4, <2>5 DEF FaultFreeInv
<1> QED
    BY <1>1, <1>2

\* Without faults the browser, the row and the requests agree about whether
\* there is a browser.
THEOREM BrowserInvariant == Spec => []BrowserInv
<1>1. Init => BrowserInv
    BY CreatorAssumption DEF Init, BrowserInv, FaultFreeInv, CreationInv,
       RequestInv, ReleaseInv, Terminal, Active, Processes
<1>2. TypeOK /\ ConsumedInv /\ BrowserInv /\ [Next]_vars => BrowserInv'
    <2>1. ASSUME TypeOK, ConsumedInv, BrowserInv, Next, faults' = 0
          PROVE  FaultFreeInv'
        <3>1. faults = 0 /\ ~Fault
            BY <2>1, FaultFree
        <3>2. FaultFreeInv
            BY <2>1, <3>1 DEF BrowserInv
        <3> QED
            BY <2>1, <3>1, <3>2, CreateKeeps, RequestKeeps,
                ServiceKeeps DEF Next
    <2>2. ASSUME BrowserInv, UNCHANGED vars
          PROVE  BrowserInv'
        BY <2>2 DEF vars, BrowserInv, FaultFreeInv, CreationInv, RequestInv,
                    ReleaseInv
    <2> QED
        BY <2>1, <2>2 DEF BrowserInv
<1> QED
    BY <1>1, <1>2, TypeCorrect, ConsumedInvariant, PTL DEF Spec

\* Without faults, destroyed_at is set only once the service has no browser.
THEOREM Destroyed == Spec => []DestroyedIsTrue
<1>1. BrowserInv => DestroyedIsTrue
    BY DEF BrowserInv, FaultFreeInv, ReleaseInv, DestroyedIsTrue
<1> QED
    BY <1>1, BrowserInvariant, PTL

\* Without faults, a settled session has no browser once its requests ended.
THEOREM Released == Spec => []BrowserReleased
<1>1. BrowserInv => BrowserReleased
    BY DEF BrowserInv, FaultFreeInv, ReleaseInv, BrowserReleased, Settled
<1> QED
    BY <1>1, BrowserInvariant, PTL

-----------------------------------------------------------------------------
(* The desktop app.                                                        *)

\* What is true of one capture, whatever the others do to the partition: its
\* promise is not settled before it leaves the login and never twice, a jar
\* was read from a partition with a session, and only a jar is posted.
Sound(this) ==
    /\ this \in Desktop!Capture
    /\ this.settles <= 1
    /\ this.pc \in {"idle", "login"} => this.settles = 0
    /\ this.result = "jar" => this.proof
    /\ this.pc = "post" => this.result = "jar"

CaptureInv ==
    /\ mode \in Desktop!Modes /\ running \in BOOLEAN /\ signedIn \in BOOLEAN
    /\ DOMAIN cap = Captures /\ cap = [c \in Captures |-> cap[c]]
    /\ \A c \in Captures : Sound(cap[c])
    /\ faults \in Nat

\* What finish() makes of a sound capture.
LEMMA FinishIsSound ==
    ASSUME NEW this, Sound(this), NEW result \in Desktop!Results, NEW label,
           label \in {"clear", "keep"}, result = "jar" => this.proof
    PROVE  Sound(Desktop!Finish(this, result, label))
<1> DEFINE done == [this EXCEPT !.pc = label, !.result = result, !.settles = 1]
<1>1. CASE this.pc # "login"
    BY <1>1 DEF Desktop!Finish
<1>2. CASE this.pc = "login"
    <2>2. this \in Desktop!Capture /\ this.settles = 0
        BY <1>2 DEF Sound
    <2>1. Desktop!Finish(this, result, label) = done
        BY <1>2, <2>2 DEF Desktop!Finish
    <2>3. label \in Desktop!Pcs
        BY DEF Desktop!Pcs
    <2>4. /\ done.settles = 1 /\ done.pc = label /\ done.result = result
          /\ done.proof = this.proof
        BY <2>2 DEF Desktop!Capture
    <2>5. done \in Desktop!Capture
        <3> DEFINE arrived == [this EXCEPT !.pc = label]
                   told == [arrived EXCEPT !.result = result]
        <3>1. arrived \in Desktop!Capture
            BY <2>2, <2>3 DEF Desktop!Capture
        <3>2. told \in Desktop!Capture
            <4> HIDE DEF arrived
            <4> QED
                BY <3>1 DEF Desktop!Capture
        <3>3. [told EXCEPT !.settles = 1] \in Desktop!Capture
            <4> HIDE DEF told
            <4> QED
                BY <3>2 DEF Desktop!Capture
        <3> QED
            BY <3>3
    <2> HIDE DEF done
    <2> QED
        BY <2>1, <2>4, <2>5 DEF Sound
<1> QED
    BY <1>1, <1>2

\* A step of one capture that leaves it sound leaves all of them sound.
LEMMA OneCaptureMoves ==
    ASSUME CaptureInv, NEW c \in Captures, NEW this, Sound(this),
           cap' = [cap EXCEPT ![c] = this]
    PROVE  /\ DOMAIN cap' = Captures /\ cap' = [k \in Captures |-> cap'[k]]
           /\ \A k \in Captures : Sound(cap'[k])
BY DEF CaptureInv

CaptureActs(c) == Desktop!Ask(c) \/ Desktop!SignIn(c) \/ Desktop!Navigate(c)
                    \/ Desktop!CloseWindow(c) \/ Desktop!Proceed(c)

Moves(c) == \E this : Sound(this) /\ cap' = [cap EXCEPT ![c] = this]

LEMMA CaptureMoves ==
    ASSUME CaptureInv, NEW c \in Captures, CaptureActs(c)
    PROVE  Moves(c) \/ Desktop!Shutdown(c)
<1>0. Sound(cap[c]) /\ cap[c] \in Desktop!Capture
    BY DEF CaptureInv, Sound
<1> USE DEF Desktop!At, Desktop!Goto, Desktop!Pcs
<1>1. CASE Desktop!Ask(c)
    <2>1. PICK from \in Desktop!Starts, carries \in BOOLEAN :
              cap' = [cap EXCEPT ![c].pc = "login", ![c].from = from,
                                 ![c].token = carries, ![c].window = TRUE]
        BY <1>1 DEF Desktop!Ask
    <2> DEFINE this == [cap[c] EXCEPT !.pc = "login", !.from = from,
                                     !.token = carries, !.window = TRUE]
    <2>2. cap' = [cap EXCEPT ![c] = this]
        BY <2>1 DEF CaptureInv
    <2>3. from \in Desktop!Origins
        BY DEF Desktop!Starts, Desktop!Origins
    <2>4. this \in Desktop!Capture /\ this.pc = "login" /\ this.settles = cap[c].settles
              /\ this.result = cap[c].result /\ this.proof = cap[c].proof
        BY <1>0, <2>3 DEF Desktop!Capture
    <2>5. Sound(this)
        BY <1>0, <1>1, <2>4 DEF Sound, Desktop!Ask
    <2> QED
        BY <2>2, <2>5 DEF Moves
<1>2. CASE Desktop!SignIn(c)
    <2>1. PICK page \in {"completed", "denied"} : cap' = [cap EXCEPT ![c].page = page]
        BY <1>2 DEF Desktop!SignIn
    <2>2. cap' = [cap EXCEPT ![c] = [cap[c] EXCEPT !.page = page]]
        BY <2>1 DEF CaptureInv
    <2>3. Sound([cap[c] EXCEPT !.page = page])
        BY <1>0 DEF Sound, Desktop!Capture
    <2> QED
        BY <2>2, <2>3 DEF Moves
<1>3. CASE Desktop!Navigate(c)
    <2>1. CASE cap[c].reads < 2 /\ cap' = [cap EXCEPT ![c].reads = @ + 1]
        <3>1. cap' = [cap EXCEPT ![c] = [cap[c] EXCEPT !.reads = cap[c].reads + 1]]
            BY <2>1 DEF CaptureInv
        <3>2. Sound([cap[c] EXCEPT !.reads = cap[c].reads + 1])
            BY <1>0, <2>1 DEF Sound, Desktop!Capture
        <3> QED
            BY <3>1, <3>2 DEF Moves
    <2>2. CASE cap' = [cap EXCEPT ![c] = Desktop!Finish(@, "denied", "clear")]
        <3>1. Sound(Desktop!Finish(cap[c], "denied", "clear"))
            BY <1>0, FinishIsSound DEF Desktop!Results, Desktop!Reasons
        <3> QED
            BY <2>2, <3>1 DEF Moves
    <2> QED
        BY <1>3, <2>1, <2>2 DEF Desktop!Navigate
<1>4. CASE Desktop!CloseWindow(c)
    <2> DEFINE this == Desktop!Finish(cap[c], "cancelled", "keep")
    <2>1. Sound(this)
        BY <1>0, FinishIsSound DEF Desktop!Results, Desktop!Reasons
    <2> HIDE DEF this
    <2>2. Sound([this EXCEPT !.window = FALSE])
        BY <2>1 DEF Sound, Desktop!Capture
    <2>3. cap' = [cap EXCEPT ![c] = [this EXCEPT !.window = FALSE]]
        BY <1>4 DEF Desktop!CloseWindow, this
    <2> QED
        BY <2>2, <2>3 DEF Moves
<1>5. CASE Desktop!ReadCookies(c)
    <2> DEFINE this == [cap[c] EXCEPT !.reads = cap[c].reads - 1]
               read == [this EXCEPT !.proof = TRUE]
    <2>1. Sound(this)
        BY <1>0, <1>5 DEF Sound, Desktop!Capture, Desktop!ReadCookies
    <2>0. this \in Desktop!Capture
        BY <2>1 DEF Sound
    <2>4. Sound(read) /\ read.proof
        <3> HIDE DEF this
        <3> QED
            BY <2>0, <2>1 DEF Sound, Desktop!Capture
    <2>2. \/ cap' = [cap EXCEPT ![c] = Desktop!Finish(read, "jar", "clear")]
          \/ cap' = [cap EXCEPT ![c] = Desktop!Finish(this, "noCookies", "clear")]
        BY <1>5 DEF Desktop!ReadCookies, Desktop!SessionProof, CaptureInv
    <2> HIDE DEF this, read
    <2>3. /\ Sound(Desktop!Finish(read, "jar", "clear"))
          /\ Sound(Desktop!Finish(this, "noCookies", "clear"))
        <3>1. "jar" \in Desktop!Results /\ "noCookies" \in Desktop!Results
            BY DEF Desktop!Results, Desktop!Reasons
        <3> QED
            BY <2>1, <2>4, <3>1, FinishIsSound
    <2> QED
        BY <2>2, <2>3 DEF Moves
<1>6. CASE Desktop!Timeout(c)
    <2>1. Sound(Desktop!Finish(cap[c], "timeout", "clear"))
        BY <1>0, FinishIsSound DEF Desktop!Results, Desktop!Reasons
    <2> QED
        BY <1>6, <2>1 DEF Desktop!Timeout, Moves
<1>7. CASE Desktop!Clear(c)
    <2>1. cap' = [cap EXCEPT ![c] = [cap[c] EXCEPT !.pc = "keep"]]
        BY <1>7 DEF Desktop!Clear, CaptureInv
    <2>2. Sound([cap[c] EXCEPT !.pc = "keep"])
        BY <1>0 DEF Sound, Desktop!Capture
    <2> QED
        BY <2>1, <2>2 DEF Moves
<1>8. CASE Desktop!Resolve(c)
    <2>1. cap' = [cap EXCEPT ![c] = [cap[c] EXCEPT !.pc = "resolved", !.window = FALSE]]
        BY <1>8 DEF Desktop!Resolve, CaptureInv
    <2>2. Sound([cap[c] EXCEPT !.pc = "resolved", !.window = FALSE])
        BY <1>0 DEF Sound, Desktop!Capture
    <2> QED
        BY <2>1, <2>2 DEF Moves
<1>9. CASE Desktop!Continue(c)
    <2>1. PICK label \in {"post", "ended"} :
              /\ cap' = [cap EXCEPT ![c].pc = label]
              /\ label = "post" => cap[c].result = "jar"
        BY <1>9 DEF Desktop!Continue
    <2>2. cap' = [cap EXCEPT ![c] = [cap[c] EXCEPT !.pc = label]]
        BY <2>1 DEF CaptureInv
    <2>3. Sound([cap[c] EXCEPT !.pc = label])
        BY <1>0, <2>1 DEF Sound, Desktop!Capture
    <2> QED
        BY <2>2, <2>3 DEF Moves
<1>10. CASE Desktop!Post(c)
    <2>1. cap' = [cap EXCEPT ![c] = [cap[c] EXCEPT !.pc = "ended"]]
        BY <1>10 DEF Desktop!Post, CaptureInv
    <2>2. Sound([cap[c] EXCEPT !.pc = "ended"])
        BY <1>0 DEF Sound, Desktop!Capture
    <2> QED
        BY <2>1, <2>2 DEF Moves
<1> QED
    BY <1>1, <1>2, <1>3, <1>4, <1>5, <1>6, <1>7, <1>8, <1>9, <1>10
    DEF CaptureActs, Desktop!Proceed, Desktop!Settle

\* The end of the program stops every capture where it is.
LEMMA ShutdownIsSound ==
    ASSUME CaptureInv, NEW c \in Captures, Desktop!Shutdown(c)
    PROVE  /\ DOMAIN cap' = Captures /\ cap' = [k \in Captures |-> cap'[k]]
           /\ \A k \in Captures : Sound(cap'[k])
<1>1. cap' = [k \in Captures |->
                  [cap[k] EXCEPT !.window = FALSE, !.reads = 0,
                                 !.pc = IF @ \in {"idle", "ended"} THEN @ ELSE "stopped"]]
    BY DEF Desktop!Shutdown
<1>2. ASSUME NEW k \in Captures
      PROVE  Sound([cap[k] EXCEPT !.window = FALSE, !.reads = 0,
                                  !.pc = IF @ \in {"idle", "ended"} THEN @ ELSE "stopped"])
    <2> DEFINE shut == [cap[k] EXCEPT !.window = FALSE]
               deaf == [shut EXCEPT !.reads = 0]
    <2>0. Sound(cap[k])
        BY DEF CaptureInv
    <2>1. Sound(shut) /\ shut.pc = cap[k].pc
        BY <2>0 DEF Sound, Desktop!Capture
    <2>2. Sound(deaf) /\ deaf.pc = cap[k].pc
        <3> HIDE DEF shut
        <3> QED
            BY <2>1 DEF Sound, Desktop!Capture
    <2>3. Sound([deaf EXCEPT !.pc = "stopped"]) /\ [deaf EXCEPT !.pc = deaf.pc] = deaf
        <3> HIDE DEF deaf
        <3> QED
            BY <2>2 DEF Sound, Desktop!Capture, Desktop!Pcs
    <2> QED
        BY <2>2, <2>3
<1> QED
    BY <1>1, <1>2

LEMMA CaptureInitially == Desktop!Init => CaptureInv
<1> DEFINE idle == [pc |-> "idle", from |-> "launch", page |-> "riot", reads |-> 0,
                    token |-> FALSE, result |-> "none", settles |-> 0,
                    proof |-> FALSE, window |-> FALSE]
<1>1. Sound(idle)
    BY DEF Sound, Desktop!Capture, Desktop!Pcs, Desktop!Origins, Desktop!Results
<1> SUFFICES ASSUME Desktop!Init
             PROVE  CaptureInv
    OBVIOUS
<1>2. cap = [c \in Captures |-> idle]
    BY DEF Desktop!Init
<1>3. /\ DOMAIN cap = Captures /\ cap = [c \in Captures |-> cap[c]]
      /\ \A c \in Captures : Sound(cap[c])
    <2> HIDE DEF idle
    <2> QED
        BY <1>1, <1>2
<1> QED
    BY <1>3 DEF Desktop!Init, CaptureInv

LEMMA CaptureFaultsCount ==
    ASSUME CaptureInv, NEW c \in Captures, CaptureActs(c)
    PROVE  faults' = faults \/ (faults' = faults + 1 /\ faults < CaptureFaults)
BY DEF CaptureActs, Desktop!Ask, Desktop!SignIn, Desktop!Navigate, Desktop!CloseWindow,
       Desktop!Proceed, Desktop!Settle, Desktop!ReadCookies, Desktop!Timeout,
       Desktop!Clear, Desktop!Resolve, Desktop!Continue, Desktop!Post, Desktop!Shutdown

LEMMA CaptureShared ==
    ASSUME CaptureInv, NEW c \in Captures, CaptureActs(c)
    PROVE  mode' \in Desktop!Modes /\ running' \in BOOLEAN /\ signedIn' \in BOOLEAN
BY DEF CaptureInv, CaptureActs, Desktop!Ask, Desktop!SignIn, Desktop!Navigate,
       Desktop!CloseWindow, Desktop!Proceed, Desktop!Settle, Desktop!ReadCookies,
       Desktop!Timeout, Desktop!Clear, Desktop!Resolve, Desktop!Continue, Desktop!Post,
       Desktop!Shutdown

LEMMA CaptureNext == CaptureInv /\ [Desktop!Next]_(Desktop!vars) => CaptureInv'
<1> SUFFICES ASSUME CaptureInv, [Desktop!Next]_(Desktop!vars)
             PROVE  CaptureInv'
    OBVIOUS
<1>1. CASE UNCHANGED Desktop!vars
    BY <1>1 DEF CaptureInv, Desktop!vars
<1>2. ASSUME NEW c \in Captures, CaptureActs(c)
      PROVE  CaptureInv'
    <2>1. faults' \in Nat
        BY <1>2, CaptureFaultsCount DEF CaptureInv
    <2>2. /\ DOMAIN cap' = Captures /\ cap' = [k \in Captures |-> cap'[k]]
          /\ \A k \in Captures : Sound(cap'[k])
        BY <1>2, CaptureMoves, OneCaptureMoves, ShutdownIsSound DEF Moves
    <2> QED
        BY <1>2, <2>1, <2>2, CaptureShared DEF CaptureInv
<1> QED
    BY <1>1, <1>2 DEF Desktop!Next, CaptureActs

THEOREM CaptureInvariant == Desktop!Spec => []CaptureInv
BY CaptureInitially, CaptureNext, PTL DEF Desktop!Spec

\* However many redirect events, refusals, timers and closed windows reach
\* finish(), a capture settles once.
THEOREM CapturesSettleOnce == Desktop!Spec => []Desktop!OneOutcome
<1>1. CaptureInv => Desktop!OneOutcome
    BY DEF CaptureInv, Sound, Desktop!OneOutcome
<1> QED
    BY <1>1, CaptureInvariant, PTL

\* What is posted was read from a partition that held a session, although any
\* capture may clear the partition at any moment.
THEOREM PostsAreSignedIn == Desktop!Spec => []Desktop!PostedIsSignedIn
<1>1. CaptureInv => Desktop!PostedIsSignedIn
    BY DEF CaptureInv, Sound, Desktop!PostedIsSignedIn, Desktop!At
<1> QED
    BY <1>1, CaptureInvariant, PTL

\* The types of the captures, and the bound on faults.
THEOREM CaptureTypeCorrect ==
    ASSUME CaptureFaults \in Nat
    PROVE  Desktop!Spec => []Desktop!TypeOK
<1> DEFINE Few == faults \in 0 .. CaptureFaults
<1>1. Desktop!Init => Few
    BY DEF Desktop!Init
<1>2. CaptureInv /\ Few /\ [Desktop!Next]_(Desktop!vars) => Few'
    <2> SUFFICES ASSUME CaptureInv, Few, [Desktop!Next]_(Desktop!vars)
                 PROVE  Few'
        OBVIOUS
    <2>1. ASSUME NEW c \in Captures, CaptureActs(c)
          PROVE  faults' = faults \/ (faults' = faults + 1 /\ faults < CaptureFaults)
        BY <2>1, CaptureFaultsCount
    <2> QED
        BY <2>1 DEF Desktop!Next, CaptureActs, Desktop!vars
<1>3. CaptureInv /\ Few => Desktop!TypeOK
    BY DEF CaptureInv, Sound, Desktop!TypeOK
<1> QED
    BY <1>1, <1>2, <1>3, CaptureInvariant, PTL DEF Desktop!Spec

-----------------------------------------------------------------------------
(* The owner's notification.                                               *)

\* The types the proofs rest on.
NoticeShape ==
    /\ notice \in Owner!Rows
    /\ callback \in [Callbacks -> Owner!Pcs]
    /\ admitted \in SUBSET Callbacks
    /\ noticeMails \in 0 .. 2
    /\ faults \in Nat

\* A callback that has claimed the notice and not yet let go of it.
HoldsNotice(b) == callback[b] \in {"send", "mark"}

\* The notice has one holder at most, and is claimed as long as it has one; the
\* holder has called the provider exactly when it is about to mark the notice, and
\* no message precedes the claim.
NoticeInv ==
    /\ NoticeShape
    /\ \A b, c \in Callbacks : HoldsNotice(b) /\ HoldsNotice(c) => b = c
    /\ \A b \in Callbacks : HoldsNotice(b) => notice = "claimed"
    /\ \A b \in Callbacks : callback[b] = "send" => noticeMails = 0
    /\ \A b \in Callbacks : callback[b] = "mark" => noticeMails = 1
    /\ notice \in {"none", "queued"} => noticeMails = 0
    /\ noticeMails <= 1

-----------------------------------------------------------------------------
(* What a callback's step does to the notice and to the mails.              *)

\* It has nothing to do with the notice, or gives it up.
LeavesNotice(b) ==
    /\ UNCHANGED <<notice, noticeMails>>
    /\ ~HoldsNotice(b)' \/ callback'[b] = callback[b]

ClaimsNotice(b) ==
    /\ notice = "queued" /\ notice' = "claimed" /\ noticeMails' = noticeMails
    /\ callback'[b] # "mark"

SendsNotice(b) ==
    /\ callback[b] = "send" /\ Owner!Accept /\ notice' = notice
    /\ callback'[b] # "send"

RecordsNotice(b) ==
    /\ callback[b] = "mark" /\ notice' = "emailed" /\ noticeMails' = noticeMails
    /\ ~HoldsNotice(b)'

\* The other callbacks stay where they are.
OneCallback(b) == \A c \in Callbacks : c # b => callback'[c] = callback[c]

LEMMA CallbackGoes ==
    ASSUME NoticeShape, NEW b \in Callbacks, NEW label \in Owner!Pcs, Owner!Goto(b, label)
    PROVE  callback' \in [Callbacks -> Owner!Pcs] /\ callback'[b] = label /\ OneCallback(b)
BY DEF NoticeShape, Owner!Goto, OneCallback

CallbackStep(b) ==
    Owner!Open(b) \/ Owner!Proceed(b) \/ Owner!NoticeFails(b) \/ Owner!Crash(b)

LEMMA CallbackEffects ==
    ASSUME NoticeShape, NEW b \in Callbacks, CallbackStep(b)
    PROVE  /\ callback' \in [Callbacks -> Owner!Pcs] /\ OneCallback(b)
           /\ admitted' \in SUBSET Callbacks
           /\ faults' = faults \/ (faults' = faults + 1 /\ faults < NoticeFaults)
           /\ LeavesNotice(b) \/ ClaimsNotice(b) \/ SendsNotice(b) \/ RecordsNotice(b)
<1> USE DEF Owner!Pcs, Owner!Working, Owner!Answers
<1>0. \A label \in Owner!Pcs : Owner!Goto(b, label) =>
          callback' \in [Callbacks -> Owner!Pcs] /\ callback'[b] = label /\ OneCallback(b)
    BY CallbackGoes
<1>1. CASE Owner!Open(b)
    BY <1>0, <1>1 DEF Owner!Open, LeavesNotice, HoldsNotice, NoticeShape
<1>2. CASE Owner!Exchange(b)
    BY <1>0, <1>2 DEF Owner!Exchange, LeavesNotice, HoldsNotice, NoticeShape
<1>3. CASE Owner!Claim(b)
    BY <1>0, <1>3 DEF Owner!Claim, Owner!Claimable, LeavesNotice, ClaimsNotice,
                      HoldsNotice, NoticeShape
<1>4. CASE Owner!Send(b)
    BY <1>0, <1>4 DEF Owner!Send, SendsNotice, NoticeShape
<1>5. CASE Owner!Mark(b)
    BY <1>0, <1>5 DEF Owner!Mark, RecordsNotice, HoldsNotice, NoticeShape
<1>6. CASE Owner!NoticeFails(b)
    BY <1>0, <1>6 DEF Owner!NoticeFails, Owner!Fault, Owner!Swallowed, Owner!Claimable,
                      LeavesNotice, ClaimsNotice, SendsNotice,
                      RecordsNotice, HoldsNotice, NoticeShape
<1>7. CASE Owner!Crash(b)
    BY <1>0, <1>7 DEF Owner!Crash, Owner!Fault, LeavesNotice, HoldsNotice, NoticeShape
<1> QED
    BY <1>1, <1>2, <1>3, <1>4, <1>5, <1>6, <1>7 DEF CallbackStep, Owner!Proceed

LEMMA NoticeInitially == Owner!Init => NoticeInv
BY DEF Owner!Init, NoticeInv, NoticeShape, Owner!Rows, Owner!Pcs, HoldsNotice

LEMMA NoticeStep ==
    ASSUME NoticeInv, NEW b \in Callbacks, CallbackStep(b)
    PROVE  NoticeInv'
<1>0. NoticeShape
    BY DEF NoticeInv
<1>1. /\ callback' \in [Callbacks -> Owner!Pcs] /\ OneCallback(b)
      /\ admitted' \in SUBSET Callbacks /\ faults' \in Nat
      /\ LeavesNotice(b) \/ ClaimsNotice(b) \/ SendsNotice(b) \/ RecordsNotice(b)
    BY <1>0, CallbackEffects DEF NoticeShape
<1>2. CASE LeavesNotice(b)
    BY <1>1, <1>2 DEF NoticeInv, NoticeShape, LeavesNotice, OneCallback, HoldsNotice
<1>3. CASE ClaimsNotice(b)
    <2>1. \A c \in Callbacks : ~HoldsNotice(c)
        BY <1>3 DEF NoticeInv, ClaimsNotice
    <2> QED
        BY <1>1, <1>3, <2>1 DEF NoticeInv, NoticeShape, ClaimsNotice,
            OneCallback, HoldsNotice, Owner!Rows
<1>4. CASE SendsNotice(b)
    <2>1. noticeMails' = 1
        BY <1>4 DEF NoticeInv, SendsNotice, Owner!Accept
    <2>2. notice = "claimed" /\ \A c \in Callbacks : c # b => ~HoldsNotice(c)
        BY <1>4 DEF NoticeInv, SendsNotice, HoldsNotice
    <2> QED
        BY <1>1, <1>4, <2>1, <2>2 DEF NoticeInv, NoticeShape, SendsNotice,
            OneCallback, HoldsNotice
<1>5. CASE RecordsNotice(b)
    <2>1. \A c \in Callbacks : ~HoldsNotice(c)'
        BY <1>1, <1>5 DEF NoticeInv, RecordsNotice, OneCallback, HoldsNotice
    <2> QED
        BY <1>1, <1>5, <2>1 DEF NoticeInv, NoticeShape, RecordsNotice,
            HoldsNotice, Owner!Rows
<1> QED
    BY <1>1, <1>2, <1>3, <1>4, <1>5

\* One holder, and no message but its own.
THEOREM NoticeInvariant == Owner!Spec => []NoticeInv
<1>1. NoticeInv /\ [Owner!Next]_(Owner!vars) => NoticeInv'
    <2>1. CASE UNCHANGED Owner!vars
        BY <2>1 DEF Owner!vars, NoticeInv, NoticeShape, HoldsNotice
    <2> QED
        BY <2>1, NoticeStep DEF Owner!Next, CallbackStep
<1> QED
    BY <1>1, NoticeInitially, PTL DEF Owner!Spec

\* The types of the notice and of the callbacks, and the bound on faults.
THEOREM NoticeTypeCorrect ==
    ASSUME NoticeFaults \in Nat
    PROVE  Owner!Spec => []Owner!TypeOK
<1> DEFINE Few == faults \in 0 .. NoticeFaults
<1>1. Owner!Init => Few
    BY DEF Owner!Init
<1>2. NoticeInv /\ Few /\ [Owner!Next]_(Owner!vars) => Few'
    <2> SUFFICES ASSUME NoticeInv, Few, [Owner!Next]_(Owner!vars)
                 PROVE  Few'
        OBVIOUS
    <2>1. ASSUME NEW b \in Callbacks, CallbackStep(b)
          PROVE  faults' = faults \/ (faults' = faults + 1 /\ faults < NoticeFaults)
        BY <2>1, CallbackEffects DEF NoticeInv
    <2> QED
        BY <2>1 DEF Owner!Next, CallbackStep, Owner!vars
<1>3. NoticeInv /\ Few => Owner!TypeOK
    BY DEF NoticeInv, NoticeShape, Owner!TypeOK
<1> QED
    BY <1>1, <1>2, <1>3, NoticeInvariant, PTL DEF Owner!Spec

-----------------------------------------------------------------------------
(* The refinement.                                                         *)

NoticeStage == CASE notice = "none" -> "gone"
           [] notice = "queued" -> "open"
           [] OTHER -> notice

LEMMA NoticeStageIs ==
    /\ notice = "none" => NoticeStage = "gone"
    /\ notice = "queued" => NoticeStage = "open"
    /\ notice = "claimed" => NoticeStage = "claimed"
    /\ notice = "emailed" => NoticeStage = "emailed"
BY DEF NoticeStage

LEMMA NoticeStepMaps ==
    ASSUME NoticeInv, NEW b \in Callbacks, CallbackStep(b)
    PROVE  [Owner!Single!Next]_(Owner!Single!vars)
<1> DEFINE stages == [k \in {Owner!User} |-> NoticeStage]
           sends == [k \in {Owner!User} |-> noticeMails]
<1>0. LeavesNotice(b) \/ ClaimsNotice(b) \/ SendsNotice(b) \/ RecordsNotice(b)
    BY CallbackEffects DEF NoticeInv
<1>1. CASE LeavesNotice(b)
    <2>1. UNCHANGED Owner!Single!vars
        BY <1>1 DEF LeavesNotice, Owner!Single!vars
    <2> QED
        BY <2>1
<1>2. CASE ClaimsNotice(b)
    <2>1. stages[Owner!User] = "open" /\ stages'[Owner!User] = "claimed" /\ sends' = sends
        BY <1>2, NoticeStageIs DEF ClaimsNotice, NoticeStage
    <2>2. Owner!Single!Claim(Owner!User)
        BY <2>1 DEF Owner!Single!Claim, NoticeStage
    <2> QED
        BY <2>2 DEF Owner!Single!Next
<1>3. CASE SendsNotice(b)
    <2>1. notice = "claimed" /\ noticeMails = 0 /\ noticeMails' = 1 /\ notice' = notice
        BY <1>3 DEF NoticeInv, SendsNotice, HoldsNotice, Owner!Accept
    <2>2. Owner!Single!Send(Owner!User)
        BY <2>1 DEF Owner!Single!Send
    <2> QED
        BY <2>2 DEF Owner!Single!Next
<1>4. CASE RecordsNotice(b)
    <2>1. /\ notice = "claimed" /\ notice' = "emailed"
          /\ noticeMails = 1 /\ noticeMails' = noticeMails
        BY <1>4 DEF NoticeInv, RecordsNotice, HoldsNotice
    <2>2. Owner!Single!Record(Owner!User)
        BY <2>1 DEF Owner!Single!Record
    <2> QED
        BY <2>2 DEF Owner!Single!Next
<1> QED
    BY <1>0, <1>1, <1>2, <1>3, <1>4

\* The sign-in callback implements SingleDelivery: every step of a callback is
\* the claim, the message or the record of the owner's one notification, or
\* leaves both alone.
THEOREM NoticeIsSingle == Owner!Spec => Owner!ImplementsSingleDelivery
<1>1. Owner!Init => Owner!Single!Init
    BY DEF Owner!Init, Owner!Single!Init
<1>2. NoticeInv /\ [Owner!Next]_(Owner!vars) => [Owner!Single!Next]_(Owner!Single!vars)
    <2>1. CASE UNCHANGED Owner!vars
        BY <2>1 DEF Owner!vars, Owner!Single!vars
    <2> QED
        BY <2>1, NoticeStepMaps DEF Owner!Next, CallbackStep
<1> QED
    BY <1>1, <1>2, NoticeInvariant, PTL
    DEF Owner!Spec, Owner!ImplementsSingleDelivery, Owner!Single!Spec

-----------------------------------------------------------------------------
(* The flows.  A behaviour stays in the flow it begins in, and what it     *)
(* does there is what that flow's component does.                          *)

InFlow(f) == flow = f

LEMMA FlowStays ==
    ASSUME NEW f, [FlowsNext]_all
    PROVE  InFlow(f)' <=> InFlow(f)
BY DEF FlowsNext, InCloud, InCredential, InExtension, InDesktop, InOwner, InDelivery,
       all, InFlow

LEMMA ChallengeFlow ==
    /\ FlowsSpec => []InFlow("challenge") \/ []~InFlow("challenge")
    /\ FlowsSpec /\ InFlow("challenge") => Challenge!Spec
<1>1. InFlow("challenge") /\ [FlowsNext]_all => InFlow("challenge")'
    BY FlowStays
<1>2. ~InFlow("challenge") /\ [FlowsNext]_all => ~InFlow("challenge")'
    BY FlowStays
<1>3. FlowsInit /\ InFlow("challenge") => Challenge!Init
    BY DEF FlowsInit, InFlow
<1>4. InFlow("challenge") /\ [FlowsNext]_all => [Challenge!Next]_(Challenge!vars)
    BY DEF FlowsNext, InCloud, InCredential, InExtension, InDesktop, InOwner, InDelivery,
           all, vars, credential, cloud, InFlow, Challenge!vars
<1> QED
    BY <1>1, <1>2, <1>3, <1>4, PTL DEF FlowsSpec, Challenge!Spec

LEMMA TwoLoginsFlow ==
    /\ FlowsSpec => []InFlow("twoLogins") \/ []~InFlow("twoLogins")
    /\ FlowsSpec /\ InFlow("twoLogins") => TwoLogins!Spec
<1>1. InFlow("twoLogins") /\ [FlowsNext]_all => InFlow("twoLogins")'
    BY FlowStays
<1>2. ~InFlow("twoLogins") /\ [FlowsNext]_all => ~InFlow("twoLogins")'
    BY FlowStays
<1>3. FlowsInit /\ InFlow("twoLogins") => TwoLogins!Init
    BY DEF FlowsInit, InFlow
<1>4. InFlow("twoLogins") /\ [FlowsNext]_all => [TwoLogins!Next]_(TwoLogins!vars)
    BY DEF FlowsNext, InCloud, InCredential, InExtension, InDesktop, InOwner, InDelivery,
           all, vars, credential, cloud, InFlow, TwoLogins!vars
<1> QED
    BY <1>1, <1>2, <1>3, <1>4, PTL DEF FlowsSpec, TwoLogins!Spec

\* Whatever requests of a user sign in, paste and answer challenges beside one
\* another, what is saved is what was chosen, and while calls answer a request
\* says "connected" exactly when it saved.
THEOREM SignInsAreTruthful == FlowsSpec => []SignInIsTruthful
<1>1. /\ Challenge!Spec => []Challenge!SavedWhereChosen
      /\ TwoLogins!Spec => []TwoLogins!SavedWhereChosen
    BY Challenge!SavesWhereChosen, TwoLogins!SavesWhereChosen
<1>2. Challenge!Spec => []Challenge!AnswerIsTruth
    <2>1. Null \notin Challenge!Calls \cup {Main}
        BY FlowsAssumption DEF Challenge!Calls
    <2> QED
        BY <2>1, Challenge!AnswersAreTrue
<1>3. TwoLogins!Spec => []TwoLogins!AnswerIsTruth
    <2>1. Null \notin TwoLogins!Calls \cup {Main}
        BY FlowsAssumption DEF TwoLogins!Calls
    <2> QED
        BY <2>1, TwoLogins!AnswersAreTrue
<1>4. ASSUME InFlow("challenge") => Challenge!SavedWhereChosen /\ Challenge!AnswerIsTruth,
             InFlow("twoLogins") => TwoLogins!SavedWhereChosen /\ TwoLogins!AnswerIsTruth
      PROVE  SignInIsTruthful
    BY <1>4 DEF SignInIsTruthful, InFlow
<1> QED
    BY <1>1, <1>2, <1>3, <1>4, ChallengeFlow, TwoLoginsFlow, PTL

\* Whoever saves to a connection, in whatever order, it keeps the Riot account
\* it is bound to.
THEOREM ConnectionsKeepTheirIdentity == FlowsSpec => IdentityImmutable
<1> DEFINE Kept == flow \in {"challenge", "twoLogins"} => Challenge!KeepsIdentity
<1>1. Challenge!Spec => [][Challenge!KeepsIdentity]_(Challenge!vars)
    <2>1. Main \notin Challenge!Calls
        BY FlowsAssumption DEF Challenge!Calls
    <2> QED
        BY <2>1, Challenge!KeepsItsIdentity DEF Challenge!IdentityImmutable
<1>2. TwoLogins!Spec => [][TwoLogins!KeepsIdentity]_(TwoLogins!vars)
    <2>1. Main \notin TwoLogins!Calls
        BY FlowsAssumption DEF TwoLogins!Calls
    <2> QED
        BY <2>1, TwoLogins!KeepsItsIdentity DEF TwoLogins!IdentityImmutable
<1>3. InFlow("challenge") /\ [Challenge!KeepsIdentity]_(Challenge!vars) => [Kept]_all
    BY DEF Challenge!KeepsIdentity, Challenge!vars
<1>4. InFlow("twoLogins") /\ [TwoLogins!KeepsIdentity]_(TwoLogins!vars) => [Kept]_all
    BY DEF Challenge!KeepsIdentity, TwoLogins!KeepsIdentity, TwoLogins!vars
<1>5. ~InFlow("challenge") /\ ~InFlow("twoLogins") => [Kept]_all
    BY DEF InFlow
<1> QED
    BY <1>1, <1>2, <1>3, <1>4, <1>5, ChallengeFlow, TwoLoginsFlow, PTL
    DEF IdentityImmutable

LEMMA DesktopFlow ==
    /\ FlowsSpec => []InFlow("desktop") \/ []~InFlow("desktop")
    /\ FlowsSpec /\ InFlow("desktop") => Desktop!Spec
<1>1. InFlow("desktop") /\ [FlowsNext]_all => InFlow("desktop")'
    BY FlowStays
<1>2. ~InFlow("desktop") /\ [FlowsNext]_all => ~InFlow("desktop")'
    BY FlowStays
<1>3. FlowsInit /\ InFlow("desktop") => Desktop!Init
    BY DEF FlowsInit, InFlow
<1>4. InFlow("desktop") /\ [FlowsNext]_all => [Desktop!Next]_(Desktop!vars)
    BY DEF FlowsNext, InCloud, InCredential, InExtension, InDesktop, InOwner, InDelivery,
           all, vars, desktop, cloud, InFlow, Desktop!vars
<1> QED
    BY <1>1, <1>2, <1>3, <1>4, PTL DEF FlowsSpec, Desktop!Spec

\* A desktop capture settles once, and posts only what proves a session.
THEOREM CapturesAreHonest == FlowsSpec => []CaptureIsHonest
<1>1. InFlow("desktop") /\ Desktop!OneOutcome /\ Desktop!PostedIsSignedIn
          => CaptureIsHonest
    BY DEF CaptureIsHonest
<1>2. ~InFlow("desktop") => CaptureIsHonest
    BY DEF CaptureIsHonest, InFlow
<1> QED
    BY <1>1, <1>2, DesktopFlow, CapturesSettleOnce, PostsAreSignedIn, PTL

LEMMA OneShopFlow ==
    /\ FlowsSpec => []InFlow("oneShop") \/ []~InFlow("oneShop")
    /\ FlowsSpec /\ InFlow("oneShop") => OneShop!Spec
<1>1. InFlow("oneShop") /\ [FlowsNext]_all => InFlow("oneShop")'
    BY FlowStays
<1>2. ~InFlow("oneShop") /\ [FlowsNext]_all => ~InFlow("oneShop")'
    BY FlowStays
<1>3. FlowsInit /\ InFlow("oneShop") => OneShop!Init
    BY DEF FlowsInit, InFlow
<1>4. InFlow("oneShop") /\ [FlowsNext]_all => [OneShop!Next]_(OneShop!vars)
    BY DEF FlowsNext, InCloud, InCredential, InExtension, InDesktop, InOwner, InDelivery,
           all, vars, delivery, cloud, InFlow, OneShop!vars
<1> QED
    BY <1>1, <1>2, <1>3, <1>4, PTL DEF FlowsSpec, OneShop!Spec

\* Runs that overlap, crash or lose answers mail a skin of a shop once at most.
THEOREM MailsAtMostOnce == FlowsSpec => []AtMostOneMail
<1>1. InFlow("oneShop") /\ OneShop!AtMostOneMail => AtMostOneMail
    BY DEF AtMostOneMail
<1>2. ~InFlow("oneShop") => AtMostOneMail
    BY DEF AtMostOneMail, InFlow
<1> QED
    BY <1>1, <1>2, OneShopFlow, OneShop!MailOnce, PTL

\* While no call fails a reservation is in somebody's hands until it is
\* recorded, and success means that the plan was claimed.
THEOREM DeliveriesCover == FlowsSpec => []DeliveryCovers
<1>1. InFlow("oneShop") /\ OneShop!NoSilentLoss /\ OneShop!SuccessCoversPlan
          => DeliveryCovers
    BY DEF DeliveryCovers
<1>2. ~InFlow("oneShop") => DeliveryCovers
    BY DEF DeliveryCovers, InFlow
<1> QED
    BY <1>1, <1>2, OneShopFlow, OneShop!NothingIsLost, OneShop!CoversPlan, PTL

LEMMA OwnerFlow ==
    /\ FlowsSpec => []InFlow("owner") \/ []~InFlow("owner")
    /\ FlowsSpec /\ InFlow("owner") => Owner!Spec
<1>1. InFlow("owner") /\ [FlowsNext]_all => InFlow("owner")'
    BY FlowStays
<1>2. ~InFlow("owner") /\ [FlowsNext]_all => ~InFlow("owner")'
    BY FlowStays
<1>3. FlowsInit /\ InFlow("owner") => Owner!Init
    BY DEF FlowsInit, InFlow
<1>4. InFlow("owner") /\ [FlowsNext]_all => [Owner!Next]_(Owner!vars)
    BY DEF FlowsNext, InCloud, InCredential, InExtension, InDesktop, InOwner, InDelivery,
           all, vars, owner, cloud, InFlow, Owner!vars
<1> QED
    BY <1>1, <1>2, <1>3, <1>4, PTL DEF FlowsSpec, Owner!Spec

\* The owner's outbox implements SingleDelivery; in the other flows it is at
\* rest.
THEOREM NoticesAreSingle == FlowsSpec => NoticeIsSingleDelivery
<1>1. FlowsInit /\ ~InFlow("owner") => Owner!Single!Init
    BY DEF FlowsInit, NoOwner, InFlow, Owner!Single!Init
<1>2. ~InFlow("owner") /\ [FlowsNext]_all => [Owner!Single!Next]_(Owner!Single!vars)
    <2>1. ~InFlow("owner") /\ [FlowsNext]_all => UNCHANGED Owner!Single!vars
        BY DEF FlowsNext, InCloud, InCredential, InExtension, InDesktop, InOwner,
               InDelivery, all, owner, InFlow, Owner!Single!vars
    <2> QED
        BY <2>1
<1> QED
    BY <1>1, <1>2, OwnerFlow, NoticeIsSingle, PTL
    DEF NoticeIsSingleDelivery, FlowsSpec, Owner!ImplementsSingleDelivery, Owner!Single!Spec

LEMMA TwoShopsFlow ==
    /\ FlowsSpec => []InFlow("twoShops") \/ []~InFlow("twoShops")
    /\ FlowsSpec /\ InFlow("twoShops") => TwoShops!Spec
<1>1. InFlow("twoShops") /\ [FlowsNext]_all => InFlow("twoShops")'
    BY FlowStays
<1>2. ~InFlow("twoShops") /\ [FlowsNext]_all => ~InFlow("twoShops")'
    BY FlowStays
<1>3. FlowsInit /\ InFlow("twoShops") => TwoShops!Init
    BY DEF FlowsInit, InFlow
<1>4. InFlow("twoShops") /\ [FlowsNext]_all => [TwoShops!Next]_(TwoShops!vars)
    BY DEF FlowsNext, InCloud, InCredential, InExtension, InDesktop, InOwner, InDelivery,
           all, vars, delivery, cloud, InFlow, TwoShops!vars
<1> QED
    BY <1>1, <1>2, <1>3, <1>4, PTL DEF FlowsSpec, TwoShops!Spec

\* The notifications implement SingleDelivery, and are at rest in the other
\* flows (oneShop's are those of another instance).
THEOREM MailsAreSingle ==
    ASSUME "oneShop" \notin Flows
    PROVE  FlowsSpec => MailIsSingleDelivery
<1>0. FlowsInit => ~InFlow("oneShop")
    BY DEF FlowsInit, InFlow
<1>1. FlowsInit /\ ~InFlow("twoShops") => TwoShops!Single!Init
    <2> SUFFICES ASSUME FlowsInit, ~InFlow("twoShops")
                 PROVE  TwoShops!Single!Init
        OBVIOUS
    <2>1. NoDelivery
        BY <1>0 DEF FlowsInit, InFlow
    <2>2. \A k \in TwoShops!Key : k[1] \in {main, alt} /\ k[2] \in {vandal}
        BY DEF TwoShops!Key
    <2>3. \A c \in {main, alt}, s \in {vandal} :
              /\ notifications[c][s] = "none" /\ c \in alive
              /\ mails[c][s] = 0
        BY <2>1 DEF NoDelivery
    <2>4. \A c \in {main, alt}, s \in {vandal} : TwoShops!StageOf(c, s) = "open"
        BY <2>3 DEF TwoShops!StageOf, TwoShops!Claimable
    <2> QED
        BY <2>2, <2>3, <2>4 DEF TwoShops!Single!Init
<1>2. ~InFlow("oneShop") /\ [FlowsNext]_all => ~InFlow("oneShop")'
    BY FlowStays
<1>3. ~InFlow("oneShop") /\ ~InFlow("twoShops") /\ [FlowsNext]_all
          => [TwoShops!Single!Next]_(TwoShops!Single!vars)
    <2> SUFFICES ASSUME ~InFlow("oneShop"), ~InFlow("twoShops"), [FlowsNext]_all
                 PROVE  UNCHANGED TwoShops!Single!vars
        OBVIOUS
    <2>1. UNCHANGED delivery
        BY DEF FlowsNext, InCloud, InCredential, InExtension, InDesktop, InOwner,
               InDelivery, all, InFlow
    <2> QED
        BY <2>1 DEF delivery, TwoShops!Single!vars, TwoShops!StageOf, TwoShops!Holds
<1> QED
    BY <1>0, <1>1, <1>2, <1>3, TwoShopsFlow, TwoShops!DeliveryIsSingle, PTL
    DEF FlowsSpec, MailIsSingleDelivery, TwoShops!ImplementsSingleDelivery,
        TwoShops!Single!Spec

-----------------------------------------------------------------------------
(* The extension, and the types of every flow.                             *)

LEMMA RequestFlow ==
    /\ FlowsSpec => []InFlow("request") \/ []~InFlow("request")
    /\ FlowsSpec /\ InFlow("request") => Request!Spec
<1>1. InFlow("request") /\ [FlowsNext]_all => InFlow("request")'
    BY FlowStays
<1>2. ~InFlow("request") /\ [FlowsNext]_all => ~InFlow("request")'
    BY FlowStays
<1>3. FlowsInit /\ InFlow("request") => Request!Init
    BY DEF FlowsInit, InFlow
<1>4. InFlow("request") /\ [FlowsNext]_all => [Request!Next]_(Request!vars)
    BY DEF FlowsNext, InCloud, InCredential, InExtension, InDesktop, InOwner, InDelivery,
           all, vars, extension, cloud, InFlow, Request!vars
<1> QED
    BY <1>1, <1>2, <1>3, <1>4, PTL DEF FlowsSpec, Request!Spec

LEMMA RetryFlow ==
    /\ FlowsSpec => []InFlow("retry") \/ []~InFlow("retry")
    /\ FlowsSpec /\ InFlow("retry") => Retry!Spec
<1>1. InFlow("retry") /\ [FlowsNext]_all => InFlow("retry")'
    BY FlowStays
<1>2. ~InFlow("retry") /\ [FlowsNext]_all => ~InFlow("retry")'
    BY FlowStays
<1>3. FlowsInit /\ InFlow("retry") => Retry!Init
    BY DEF FlowsInit, InFlow
<1>4. InFlow("retry") /\ [FlowsNext]_all => [Retry!Next]_(Retry!vars)
    BY DEF FlowsNext, InCloud, InCredential, InExtension, InDesktop, InOwner, InDelivery,
           all, vars, extension, cloud, InFlow, Retry!vars
<1> QED
    BY <1>1, <1>2, <1>3, <1>4, PTL DEF FlowsSpec, Retry!Spec

\* Through failed calls and restarts a capture token saves one session at most,
\* and while there are none what is stored of a request is attended to; and
\* requests of one panel leave one live token, and it says "connected" of the
\* one it is on, once that is saved.
THEOREM ExtensionsAreHonest == FlowsSpec => []ExtensionIsHonest
<1>1. /\ Request!Spec => []Request!TokenOnce
      /\ Request!Spec => []Request!TransientStateRemoved
    <2>1. Request!OneRequest
        BY DEF Request!OneRequest
    <2> QED
        BY <2>1, Request!SavesOnce, Request!OneRequestIsAttended
<1>2. /\ Retry!Spec => []Retry!OneLiveToken
      /\ Retry!Spec => []Retry!ConnectedIsSaved
    <2>1. Retry!OnePanel
        BY DEF Retry!OnePanel
    <2> QED
        BY <2>1, Retry!OnePanelOneToken, Retry!ConnectedMeansSaved
<1>3. ASSUME InFlow("request") => Request!TokenOnce /\ Request!TransientStateRemoved,
             InFlow("retry") => Retry!OneLiveToken /\ Retry!ConnectedIsSaved
      PROVE  ExtensionIsHonest
    BY <1>3 DEF ExtensionIsHonest, InFlow
<1> QED
    BY <1>1, <1>2, <1>3, RequestFlow, RetryFlow, PTL

LEMMA CloudFlow ==
    /\ FlowsSpec => []InFlow("cloud") \/ []~InFlow("cloud")
    /\ FlowsSpec /\ InFlow("cloud") => Spec
<1>1. InFlow("cloud") /\ [FlowsNext]_all => InFlow("cloud")'
    BY FlowStays
<1>2. ~InFlow("cloud") /\ [FlowsNext]_all => ~InFlow("cloud")'
    BY FlowStays
<1>3. FlowsInit /\ InFlow("cloud") => Init
    BY DEF FlowsInit, InFlow
<1>4. InFlow("cloud") /\ [FlowsNext]_all => [Next]_vars
    BY DEF FlowsNext, InCloud, InCredential, InExtension, InDesktop, InOwner, InDelivery,
           all, vars, cloud, InFlow
<1> QED
    BY <1>1, <1>2, <1>3, <1>4, PTL DEF FlowsSpec, Spec

\* Every component keeps its types in its flow.
THEOREM FlowsTypeCorrect == FlowsSpec => []FlowTypeOK
<1>1. /\ Challenge!Spec => []Challenge!TypeOK
      /\ TwoLogins!Spec => []TwoLogins!TypeOK
    BY Challenge!CredentialTypeCorrect, TwoLogins!CredentialTypeCorrect
<1>2. /\ Request!Spec => []Request!TypeOK
      /\ Retry!Spec => []Retry!TypeOK
    BY Request!ConnectTypeCorrect, Retry!ConnectTypeCorrect
<1>3. /\ Desktop!Spec => []Desktop!TypeOK
      /\ Owner!Spec => []Owner!TypeOK
    BY FlowsAssumption, CaptureTypeCorrect, NoticeTypeCorrect
<1>4. /\ OneShop!Spec => []OneShop!TypeOK
      /\ TwoShops!Spec => []TwoShops!TypeOK
    BY FlowsAssumption, OneShop!DeliveryTypeCorrect, TwoShops!DeliveryTypeCorrect
<1>5. ASSUME InFlow("cloud") => TypeOK,
             InFlow("challenge") => Challenge!TypeOK,
             InFlow("twoLogins") => TwoLogins!TypeOK,
             InFlow("request") => Request!TypeOK,
             InFlow("retry") => Retry!TypeOK,
             InFlow("desktop") => Desktop!TypeOK,
             InFlow("owner") => Owner!TypeOK,
             InFlow("oneShop") => OneShop!TypeOK,
             InFlow("twoShops") => TwoShops!TypeOK
      PROVE  FlowTypeOK
    BY <1>5 DEF FlowTypeOK, InFlow
<1> QED
    BY <1>1, <1>2, <1>3, <1>4, <1>5, TypeCorrect, CloudFlow, ChallengeFlow, TwoLoginsFlow,
       RequestFlow, RetryFlow, DesktopFlow, OwnerFlow, OneShopFlow, TwoShopsFlow, PTL
=============================================================================
