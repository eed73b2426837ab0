--------------------- MODULE NotificationDeliveryProofs ---------------------
(***************************************************************************)
(* What holds of the email delivery for every set of runs, shops and skins *)
(* and every bound on faults: a skin of a shop is mailed once at most, a   *)
(* run that reports success has left nothing of its plan unclaimed, no     *)
(* reservation is lost without a fault, and the whole is a SingleDelivery. *)
(***************************************************************************)
EXTENDS NotificationDelivery, TLAPS

\* The types the proofs rest on.
Shape ==
    /\ rows \in [Checks -> [Skins -> Stages]]
    /\ alive \in SUBSET Checks
    /\ pc \in [Runs -> Pcs]
    /\ check \in [Runs -> Checks]
    /\ offers \in [Runs -> SUBSET Skins]
    /\ planned \in [Runs -> SUBSET Skins]
    /\ todo \in [Runs -> SUBSET Skins]
    /\ current \in [Runs -> SUBSET Skins]
    /\ report \in [Runs -> Reports]
    /\ mails \in [Checks -> [Skins -> 0 .. 2]]
    /\ faults \in Nat

RunStep(r) == Start(r) \/ Planning(r) \/ Delivering(r) \/ Failing(r)

-----------------------------------------------------------------------------
(* What the steps of a run do to the reservations: nothing, or one of the  *)
(* three steps of a delivery.                                              *)

InHand == {"send", "mark"}

Quiet(r) ==
    /\ UNCHANGED <<rows, mails>>
    /\ pc'[r] \notin InHand
    /\ pc[r] \in InHand => check[r] \notin alive \/ faults' # 0

Claims(r, s) ==
    /\ pc[r] = "reserve" /\ check[r] \in alive
    /\ Claimable(rows[check[r]][s])
    /\ rows' = [rows EXCEPT ![check[r]][s] = "claimed"]
    /\ mails' = mails
    /\ \/ pc'[r] = "send" /\ current'[r] = {s}
       \/ pc'[r] \notin InHand /\ faults' # 0

Accepts(r, s) ==
    /\ pc[r] = "send" /\ s \in current[r]
    /\ current'[r] = current[r] /\ rows' = rows
    /\ Accepted(r, s)
    /\ pc'[r] = "mark" \/ (pc'[r] = "done" /\ faults' # 0)

Records(r, s) ==
    /\ pc[r] = "mark" /\ s \in current[r] /\ check[r] \in alive
    /\ rows' = [rows EXCEPT ![check[r]][s] = "emailed"]
    /\ mails' = mails
    /\ pc'[r] = "reserve" \/ (pc'[r] = "done" /\ faults' # 0)

\* The other runs, the accounts and the shop a run has recorded stay.
Local(r) ==
    /\ UNCHANGED <<alive, check>>
    /\ \A q \in Runs \ {r} : /\ pc'[q] = pc[q]
                             /\ current'[q] = current[q]
                             /\ planned'[q] = planned[q]
                             /\ todo'[q] = todo[q]
                             /\ report'[q] = report[q]

LEMMA FaultIsCounted ==
    ASSUME Shape, Fault
    PROVE  faults' \in Nat /\ faults' # 0
BY DEF Shape, Fault

LEMMA RunIsLocal ==
    ASSUME Shape, NEW r \in Runs, RunStep(r)
    PROVE  Local(r)
<1>1. CASE Start(r)
    BY <1>1 DEF Shape, Start, Goto, Local, plan, result, history
<1>2. CASE Planning(r)
    BY <1>2 DEF Shape, Planning, LoadSent, Plan, Names, Enrich, Recipient, Goto, End,
                Fails, Local, plan, result, history
<1>3. CASE Delivering(r)
    <2>1. ASSUME NEW s \in Skins, Reserve(r, s)
          PROVE  Local(r)
        BY <2>1 DEF Shape, Reserve, AfterSkip, Goto, End, Fails, Local, plan, result,
                    history
    <2>2. ASSUME NEW s \in Skins, Send(r, s) \/ MarkAccepted(r, s)
          PROVE  Local(r)
        BY <2>2 DEF Shape, Send, MarkAccepted, Goto, End, Fails, Local, plan, result,
                    history
    <2>3. CASE Delivered(r)
        BY <2>3 DEF Shape, Delivered, Goto, End, Local, plan, history
    <2> QED
        BY <1>3, <2>1, <2>2, <2>3 DEF Delivering
<1>4. CASE Failing(r)
    BY <1>4 DEF Shape, Failing, ReserveUnanswered, SendUnanswered, MarkUnanswered,
                CallFails, Crash, Goto, End, Fails, Local, plan, result, history
<1> QED
    BY <1>1, <1>2, <1>3, <1>4 DEF RunStep

LEMMA RunEffect ==
    ASSUME Shape, NEW r \in Runs, RunStep(r)
    PROVE  \/ Quiet(r)
           \/ \E s \in Skins : Claims(r, s) \/ Accepts(r, s) \/ Records(r, s)
<1>1. CASE Start(r)
    BY <1>1 DEF Shape, Start, Goto, Quiet, InHand, history
<1>2. CASE Planning(r)
    BY <1>2 DEF Shape, Planning, LoadSent, Plan, Names, Enrich, Recipient, Goto, End,
                Fails, Quiet, InHand, history
<1>3. CASE Delivering(r)
    <2>1. ASSUME NEW s \in Skins, Reserve(r, s)
          PROVE  Quiet(r) \/ Claims(r, s)
        BY <2>1 DEF Shape, Reserve, Goto, End, Fails, Quiet, Claims, InHand, history
    <2>2. ASSUME NEW s \in Skins, Send(r, s)
          PROVE  Accepts(r, s)
        BY <2>2 DEF Shape, Send, Goto, Accepts
    <2>3. ASSUME NEW s \in Skins, MarkAccepted(r, s)
          PROVE  Quiet(r) \/ Records(r, s)
        BY <2>3 DEF Shape, MarkAccepted, Markable, Goto, End, Fails, Quiet, Records,
                    InHand, history
    <2>4. CASE Delivered(r)
        BY <2>4 DEF Shape, Delivered, Goto, End, Quiet, InHand, history
    <2> QED
        BY <1>3, <2>1, <2>2, <2>3, <2>4 DEF Delivering
<1>4. CASE Failing(r)
    <2>1. ASSUME NEW s \in Skins, ReserveUnanswered(r, s)
          PROVE  Claims(r, s)
        BY <2>1, FaultIsCounted DEF Shape, ReserveUnanswered, Goto, End, Claims, InHand,
                                    history
    <2>2. ASSUME NEW s \in Skins, SendUnanswered(r, s)
          PROVE  Accepts(r, s)
        BY <2>2, FaultIsCounted DEF Shape, SendUnanswered, Goto, End, Accepts
    <2>3. ASSUME NEW s \in Skins, MarkUnanswered(r, s)
          PROVE  Records(r, s)
        BY <2>3, FaultIsCounted DEF Shape, MarkUnanswered, Markable, Goto, End, Records,
                                    history
    <2>4. CASE CallFails(r) \/ Crash(r)
        BY <2>4, FaultIsCounted DEF Shape, CallFails, Crash, Goto, End, Fails, Quiet, InHand, history
    <2> QED
        BY <1>4, <2>1, <2>2, <2>3, <2>4 DEF Failing
<1> QED
    BY <1>1, <1>2, <1>3, <1>4 DEF RunStep

-----------------------------------------------------------------------------
(* Types.                                                                  *)

\* One cell of a table of tables is replaced.
LEMMA CellTyped ==
    ASSUME NEW S, NEW T, NEW V, NEW f \in [S -> [T -> V]],
           NEW c \in S, NEW s \in T, NEW v \in V
    PROVE  [f EXCEPT ![c][s] = v] \in [S -> [T -> V]]
<1>1. [f[c] EXCEPT ![s] = v] \in [T -> V]
    OBVIOUS
<1> QED
    BY <1>1

\* The part of Shape that belongs to the runs.
RunShape ==
    /\ pc \in [Runs -> Pcs]
    /\ offers \in [Runs -> SUBSET Skins]
    /\ planned \in [Runs -> SUBSET Skins]
    /\ todo \in [Runs -> SUBSET Skins]
    /\ current \in [Runs -> SUBSET Skins]
    /\ report \in [Runs -> Reports]
    /\ faults \in Nat

LEMMA HandTyped ==
    ASSUME NEW f \in [Runs -> SUBSET Skins], NEW r \in Runs, NEW s \in Skins
    PROVE  /\ [f EXCEPT ![r] = {s}] \in [Runs -> SUBSET Skins]
           /\ [f EXCEPT ![r] = {}] \in [Runs -> SUBSET Skins]
<1>1. {s} \in SUBSET Skins /\ {} \in SUBSET Skins
    OBVIOUS
<1> QED
    BY <1>1, Zenon

LEMMA RunFields ==
    ASSUME Shape, NEW r \in Runs, RunStep(r)
    PROVE  RunShape'
<1>1. CASE Start(r)
    BY <1>1 DEF Shape, RunShape, Start, Goto, Pcs, plan, result
<1>2. CASE Planning(r)
    <2>1. CASE LoadSent(r) \/ Names(r) \/ Recipient(r)
        BY <2>1 DEF Shape, RunShape, LoadSent, Names, Recipient, Goto, Pcs, plan, result
    <2>2. CASE Plan(r)
        <3>1. Decide(Match(offers[r], watched[check[r]]), sent[r]) \in SUBSET Skins
            BY DEF Shape, Decide, Match
        <3> QED
            BY <2>2, <3>1 DEF Shape, RunShape, Plan, Goto, Pcs, result
    <2>3. CASE Enrich(r)
        BY <2>3 DEF Shape, RunShape, Enrich, Goto, End, Fails, Pcs, Reports, plan
    <2> QED
        BY <1>2, <2>1, <2>2, <2>3 DEF Planning
<1>3. CASE Delivering(r)
    <2>1. ASSUME NEW s \in Skins, Reserve(r, s)
          PROVE  RunShape'
        <3>1. pc' \in [Runs -> Pcs]
            BY <2>1 DEF Shape, Reserve, Goto, End, Fails, Pcs
        <3>2. current' = current \/ current' = [current EXCEPT ![r] = {s}]
            BY <2>1 DEF Reserve, Fails
        <3>3. current' \in [Runs -> SUBSET Skins]
            <4>1. current \in [Runs -> SUBSET Skins]
                BY DEF Shape
            <4> QED
                BY <3>2, <4>1, HandTyped, Zenon
        <3>4. todo' \in [Runs -> SUBSET Skins] /\ report' \in [Runs -> Reports]
            BY <2>1 DEF Shape, Reserve, AfterSkip, End, Fails, Reports, result
        <3> QED
            BY <2>1, <3>1, <3>3, <3>4 DEF Shape, RunShape, Reserve, plan
    <2>2. ASSUME NEW s \in Skins, Send(r, s) \/ MarkAccepted(r, s)
          PROVE  RunShape'
        <3>1. pc' \in [Runs -> Pcs]
            BY <2>2 DEF Shape, Send, MarkAccepted, Goto, End, Fails, Pcs
        <3>2. current' = current \/ current' = [current EXCEPT ![r] = {}]
            BY <2>2 DEF Send, MarkAccepted, Fails
        <3>3. current' \in [Runs -> SUBSET Skins]
            <4>1. current \in [Runs -> SUBSET Skins]
                BY DEF Shape
            <4> QED
                BY <3>2, <4>1, HandTyped, Zenon
        <3>4. todo' = todo \/ todo' = [todo EXCEPT ![r] = todo[r] \ {s}]
            BY <2>2 DEF Send, MarkAccepted, Fails
        <3>5. todo' \in [Runs -> SUBSET Skins]
            <4>1. todo \in [Runs -> SUBSET Skins] /\ todo[r] \ {s} \in SUBSET Skins
                BY DEF Shape
            <4> QED
                BY <3>4, <4>1, Zenon
        <3>6. report' \in [Runs -> Reports]
            BY <2>2 DEF Shape, Send, MarkAccepted, End, Fails, Reports, result
        <3> QED
            BY <2>2, <3>1, <3>3, <3>5, <3>6 DEF Shape, RunShape, Send, MarkAccepted, plan
    <2>3. CASE Delivered(r)
        BY <2>3 DEF Shape, RunShape, Delivered, Goto, End, Pcs, Reports, plan, history
    <2> QED
        BY <1>3, <2>1, <2>2, <2>3 DEF Delivering
<1>4. CASE Failing(r)
    <2>1. faults' \in Nat
        BY <1>4, FaultIsCounted DEF Failing, ReserveUnanswered, SendUnanswered,
                                    MarkUnanswered, CallFails, Crash
    <2>2. ASSUME NEW s \in Skins,
                 ReserveUnanswered(r, s) \/ SendUnanswered(r, s) \/ MarkUnanswered(r, s)
          PROVE  RunShape'
        BY <2>1, <2>2 DEF Shape, RunShape, ReserveUnanswered, SendUnanswered,
                          MarkUnanswered, Goto, End, Pcs, Reports, plan, result, history
    <2>3. CASE CallFails(r)
        BY <2>1, <2>3 DEF Shape, RunShape, CallFails, Goto, End, Fails, Pcs, Reports,
                          plan, result, history
    <2>4. CASE Crash(r)
        BY <2>1, <2>4 DEF Shape, RunShape, Crash, Goto, Pcs, plan, result
    <2> QED
        BY <1>4, <2>2, <2>3, <2>4 DEF Failing
<1> QED
    BY <1>1, <1>2, <1>3, <1>4 DEF RunStep

\* The tables after a run's step.
LEMMA TablesTyped ==
    ASSUME Shape, NEW r \in Runs, RunStep(r)
    PROVE  /\ rows' \in [Checks -> [Skins -> Stages]]
           /\ mails' \in [Checks -> [Skins -> 0 .. 2]]
<1>1. check[r] \in Checks /\ {"claimed", "emailed"} \in SUBSET Stages
    BY DEF Shape, Stages
<1>2. CASE Quiet(r)
    BY <1>2 DEF Quiet, Shape
<1>3. ASSUME NEW s \in Skins, Claims(r, s) \/ Records(r, s)
      PROVE  /\ rows' \in [Checks -> [Skins -> Stages]]
             /\ mails' \in [Checks -> [Skins -> 0 .. 2]]
    <2>1. \A v \in Stages :
              [rows EXCEPT ![check[r]][s] = v] \in [Checks -> [Skins -> Stages]]
        BY <1>1, CellTyped DEF Shape
    <2>2. "claimed" \in Stages /\ "emailed" \in Stages
        BY DEF Stages
    <2>3. rows' \in [Checks -> [Skins -> Stages]]
        BY <1>3, <2>1, <2>2 DEF Claims, Records
    <2> QED
        BY <1>3, <2>3 DEF Claims, Records, Shape
<1>4. ASSUME NEW s \in Skins, Accepts(r, s)
      PROVE  /\ rows' \in [Checks -> [Skins -> Stages]]
             /\ mails' \in [Checks -> [Skins -> 0 .. 2]]
    <2> DEFINE n == IF mails[check[r]][s] < 2 THEN mails[check[r]][s] + 1 ELSE 2
    <2>1. mails[check[r]][s] \in 0 .. 2
        BY <1>1 DEF Shape
    <2>2. n \in 0 .. 2
        BY <2>1
    <2>3. mails' = [mails EXCEPT ![check[r]][s] = n]
        BY <1>4 DEF Accepts, Accepted
    <2> HIDE DEF n
    <2>4. mails \in [Checks -> [Skins -> 0 .. 2]]
        BY DEF Shape
    <2>5. mails' \in [Checks -> [Skins -> 0 .. 2]]
        BY <1>1, <2>2, <2>3, <2>4, CellTyped
    <2> QED
        BY <1>4, <2>5 DEF Accepts, Shape
<1> QED
    BY <1>2, <1>3, <1>4, RunEffect

LEMMA ShapeHolds == Spec => []Shape
<1>1. Init => Shape
    BY DEF Init, Shape, Stages, Pcs, Reports
<1>2. Shape /\ [Next]_vars => Shape'
    <2>1. ASSUME Shape, NEW r \in Runs, RunStep(r)
          PROVE  Shape'
        BY <2>1, RunFields, TablesTyped, RunIsLocal DEF Shape, RunShape, Local
    <2>2. ASSUME Shape, NEW c \in Checks, Disconnect(c)
          PROVE  Shape'
        BY <2>2 DEF Shape, Disconnect, Stages, plan, result, history
    <2>3. ASSUME Shape, NEW c \in Checks, NEW s \in Skins, SetSkinWatched(c, s)
          PROVE  Shape'
        BY <2>3 DEF Shape, SetSkinWatched, plan, result, history
    <2>4. CASE UNCHANGED vars
        BY <2>4 DEF Shape, vars
    <2> QED
        BY <2>1, <2>2, <2>3, <2>4 DEF Next, RunStep
<1> QED
    BY <1>1, <1>2, PTL DEF Spec

-----------------------------------------------------------------------------
(* One mail for a skin of a shop.                                          *)

\* A run has one email in hand at a time.
OneInHand == \A r \in Runs : \A s1, s2 \in current[r] : s1 = s2

\* ReservationInv with what it needs.
MailInv == ReservationInv /\ OneInHand

LEMMA OneInHandHolds ==
    ASSUME Shape, OneInHand, NEW r \in Runs, RunStep(r)
    PROVE  OneInHand'
<1>1. current'[r] = current[r] \/ current'[r] = {} \/ \E s \in Skins : current'[r] = {s}
    BY DEF Shape, RunStep, Start, Planning, LoadSent, Plan, Names, Enrich, Recipient,
           Delivering, Reserve, Send, MarkAccepted, Delivered, Failing,
           ReserveUnanswered, SendUnanswered, MarkUnanswered, CallFails, Crash, Fails,
           result, history
<1> QED
    BY <1>1, RunIsLocal DEF OneInHand, Local

\* Nothing of the reservation is told apart from before by a step that leaves
\* the tables and the emails in hand.
LEMMA QuietKeepsMailInv ==
    ASSUME Shape, ReservationInv, NEW r \in Runs, Local(r), Quiet(r)
    PROVE  ReservationInv'
<1>1. \A q \in Runs, c \in Checks, s \in Skins :
          Holds(q, c, s)' => Holds(q, c, s) /\ q # r /\ pc'[q] = pc[q]
    BY DEF Local, Quiet, Holds, InHand
<1> QED
    BY <1>1 DEF ReservationInv, AtMostOneMail, Claimable, Local, Quiet

LEMMA ClaimKeepsMailInv ==
    ASSUME Shape, ReservationInv, NEW r \in Runs, NEW s \in Skins, Local(r), Claims(r, s)
    PROVE  ReservationInv'
<1> DEFINE c == check[r]
<1>1. /\ c \in Checks /\ c \in alive
      /\ mails[c][s] = 0
      /\ \A q \in Runs : ~Holds(q, c, s)
    BY DEF Shape, Claims, ReservationInv, Claimable
<1>2. /\ rows'[c][s] = "claimed"
      /\ \A d \in Checks, t \in Skins : d # c \/ t # s => rows'[d][t] = rows[d][t]
    BY <1>1 DEF Shape, Claims
<1>3. \A q \in Runs, d \in Checks, t \in Skins :
          Holds(q, d, t)' => \/ q # r /\ Holds(q, d, t) /\ pc'[q] = pc[q]
                             \/ q = r /\ d = c /\ t = s /\ pc'[q] = "send"
    BY DEF Local, Claims, Holds, InHand
<1> HIDE DEF c
<1>4. (\A d \in alive, t \in Skins : Claimable(rows[d][t]) => mails[d][t] = 0)'
    BY <1>1, <1>2 DEF ReservationInv, Claimable, Claims, Local, Shape
<1>5. (\A q1, q2 \in Runs, d \in Checks, t \in Skins :
          Holds(q1, d, t) /\ Holds(q2, d, t) => q1 = q2)'
    BY <1>1, <1>3 DEF ReservationInv
<1>6. (\A q \in Runs, d \in Checks, t \in Skins :
         Holds(q, d, t) =>
            /\ pc[q] = "send" => mails[d][t] = 0
            /\ pc[q] = "mark" => mails[d][t] = 1
            /\ d \in alive => rows[d][t] = "claimed")'
    BY <1>1, <1>2, <1>3 DEF ReservationInv, Claims, Local
<1>7. (\A d \in Checks, t \in Skins : rows[d][t] = "emailed" => mails[d][t] = 1)'
    BY <1>1, <1>2 DEF ReservationInv, Claims
<1>8. AtMostOneMail'
    BY DEF ReservationInv, AtMostOneMail, Claims
<1> QED
    BY <1>4, <1>5, <1>6, <1>7, <1>8 DEF ReservationInv

LEMMA SendKeepsMailInv ==
    ASSUME Shape, MailInv, NEW r \in Runs, NEW s \in Skins, Local(r), Accepts(r, s)
    PROVE  ReservationInv'
<1> DEFINE c == check[r]
<1>1. c \in Checks /\ Holds(r, c, s) /\ pc[r] = "send"
    BY DEF Shape, Accepts, Holds
<1>2. /\ mails[c][s] = 0
      /\ \A q \in Runs : Holds(q, c, s) => q = r
      /\ c \in alive => rows[c][s] = "claimed"
      /\ rows[c][s] # "emailed"
    BY <1>1 DEF MailInv, ReservationInv
<1>3. /\ mails'[c][s] = 1
      /\ \A d \in Checks, t \in Skins : d # c \/ t # s => mails'[d][t] = mails[d][t]
    BY <1>1, <1>2 DEF Shape, Accepts, Accepted
<1>4. \A q \in Runs, d \in Checks, t \in Skins :
          Holds(q, d, t)' => \/ q # r /\ Holds(q, d, t) /\ pc'[q] = pc[q]
                             \/ q = r /\ d = c /\ t = s /\ pc'[q] = "mark"
    BY DEF Local, Accepts, Holds, MailInv, OneInHand
<1> HIDE DEF c
<1>5. (\A d \in alive, t \in Skins : Claimable(rows[d][t]) => mails[d][t] = 0)'
    BY <1>2, <1>3 DEF MailInv, ReservationInv, Claimable, Accepts, Local, Shape
<1>6. (\A q1, q2 \in Runs, d \in Checks, t \in Skins :
          Holds(q1, d, t) /\ Holds(q2, d, t) => q1 = q2)'
    BY <1>2, <1>4 DEF MailInv, ReservationInv
<1>7. (\A q \in Runs, d \in Checks, t \in Skins :
         Holds(q, d, t) =>
            /\ pc[q] = "send" => mails[d][t] = 0
            /\ pc[q] = "mark" => mails[d][t] = 1
            /\ d \in alive => rows[d][t] = "claimed")'
    BY <1>2, <1>3, <1>4 DEF MailInv, ReservationInv, Accepts, Local
<1>8. (\A d \in Checks, t \in Skins : rows[d][t] = "emailed" => mails[d][t] = 1)'
    BY <1>2, <1>3 DEF MailInv, ReservationInv, Accepts
<1>9. AtMostOneMail'
    <2>1. \A d \in Checks, t \in Skins : mails'[d][t] = 1 \/ mails'[d][t] = mails[d][t]
        BY <1>3
    <2> QED
        BY <2>1 DEF MailInv, ReservationInv, AtMostOneMail
<1> QED
    BY <1>5, <1>6, <1>7, <1>8, <1>9 DEF ReservationInv

LEMMA RecordKeepsMailInv ==
    ASSUME Shape, ReservationInv, NEW r \in Runs, NEW s \in Skins, Local(r), Records(r, s)
    PROVE  ReservationInv'
<1> DEFINE c == check[r]
<1>1. c \in Checks /\ c \in alive /\ Holds(r, c, s) /\ pc[r] = "mark"
    BY DEF Shape, Records, Holds
<1>2. /\ mails[c][s] = 1
      /\ \A q \in Runs : Holds(q, c, s) => q = r
    BY <1>1 DEF ReservationInv
<1>3. /\ rows'[c][s] = "emailed"
      /\ \A d \in Checks, t \in Skins : d # c \/ t # s => rows'[d][t] = rows[d][t]
    BY <1>1 DEF Shape, Records
<1>4. \A q \in Runs, d \in Checks, t \in Skins :
          Holds(q, d, t)' => q # r /\ Holds(q, d, t) /\ pc'[q] = pc[q]
    BY DEF Local, Records, Holds
<1> HIDE DEF c
<1>5. (\A d \in alive, t \in Skins : Claimable(rows[d][t]) => mails[d][t] = 0)'
    BY <1>3 DEF ReservationInv, Claimable, Records, Local, Shape
<1>6. (\A q1, q2 \in Runs, d \in Checks, t \in Skins :
          Holds(q1, d, t) /\ Holds(q2, d, t) => q1 = q2)'
    BY <1>4 DEF ReservationInv
<1>7. (\A q \in Runs, d \in Checks, t \in Skins :
         Holds(q, d, t) =>
            /\ pc[q] = "send" => mails[d][t] = 0
            /\ pc[q] = "mark" => mails[d][t] = 1
            /\ d \in alive => rows[d][t] = "claimed")'
    BY <1>2, <1>3, <1>4 DEF ReservationInv, Records, Local
<1>8. (\A d \in Checks, t \in Skins : rows[d][t] = "emailed" => mails[d][t] = 1)'
    BY <1>2, <1>3 DEF ReservationInv, Records
<1>9. AtMostOneMail'
    BY DEF ReservationInv, AtMostOneMail, Records
<1> QED
    BY <1>5, <1>6, <1>7, <1>8, <1>9 DEF ReservationInv

\* The account is gone and its rows with it; the mails in hand stay in hand.
LEMMA DisconnectKeepsMailInv ==
    ASSUME Shape, ReservationInv, NEW c \in Checks, Disconnect(c)
    PROVE  ReservationInv'
<1>1. /\ alive' = alive \ {c}
      /\ UNCHANGED <<mails, pc, check, current>>
    BY DEF Disconnect, plan, history
<1>2. \A d \in Checks : \A t \in Skins :
          rows'[d][t] = IF d = c THEN "none" ELSE rows[d][t]
    BY DEF Shape, Disconnect
<1>3. \A q, d, t : Holds(q, d, t)' <=> Holds(q, d, t)
    BY <1>1 DEF Holds
<1>4. (\A d \in alive, t \in Skins : Claimable(rows[d][t]) => mails[d][t] = 0)'
    BY <1>1, <1>2 DEF ReservationInv, Claimable, Shape
<1>5. (\A q1, q2 \in Runs, d \in Checks, t \in Skins :
          Holds(q1, d, t) /\ Holds(q2, d, t) => q1 = q2)'
    BY <1>3 DEF ReservationInv
<1>6. (\A q \in Runs, d \in Checks, t \in Skins :
         Holds(q, d, t) =>
            /\ pc[q] = "send" => mails[d][t] = 0
            /\ pc[q] = "mark" => mails[d][t] = 1
            /\ d \in alive => rows[d][t] = "claimed")'
    BY <1>1, <1>2, <1>3 DEF ReservationInv
<1>7. (\A d \in Checks, t \in Skins : rows[d][t] = "emailed" => mails[d][t] = 1)'
    BY <1>1, <1>2 DEF ReservationInv
<1> QED
    BY <1>1, <1>4, <1>5, <1>6, <1>7 DEF ReservationInv, AtMostOneMail

LEMMA MailInvariant == Spec => []MailInv
<1>1. ASSUME Init
      PROVE  MailInv
    <2>1. \A c \in Checks : \A s \in Skins : mails[c][s] = 0 /\ rows[c][s] # "emailed"
        BY <1>1 DEF Init
    <2>2. \A r \in Runs : current[r] = {}
        BY <1>1 DEF Init
    <2> QED
        BY <1>1, <2>1, <2>2 DEF Init, MailInv, ReservationInv, OneInHand, AtMostOneMail, Holds
<1>2. Shape /\ MailInv /\ [Next]_vars => MailInv'
    <2>1. ASSUME Shape, MailInv, NEW r \in Runs, RunStep(r)
          PROVE  MailInv'
        BY <2>1, RunIsLocal, RunEffect, OneInHandHolds, QuietKeepsMailInv,
           ClaimKeepsMailInv, SendKeepsMailInv, RecordKeepsMailInv DEF MailInv
    <2>2. ASSUME Shape, MailInv, NEW c \in Checks, Disconnect(c)
          PROVE  MailInv'
        BY <2>2, DisconnectKeepsMailInv DEF MailInv, OneInHand, Disconnect
    <2>3. ASSUME MailInv,
                 \/ \E c \in Checks, s \in Skins : SetSkinWatched(c, s)
                 \/ UNCHANGED vars
          PROVE  MailInv'
        BY <2>3 DEF MailInv, ReservationInv, OneInHand, AtMostOneMail, Holds,
                    SetSkinWatched, vars, plan, history
    <2> QED
        BY <2>1, <2>2, <2>3 DEF Next, RunStep
<1> QED
    BY <1>1, <1>2, ShapeHolds, PTL DEF Spec

\* However many runs of a shop overlap, crash or lose answers, the provider
\* accepts at most one email for a skin of it.
THEOREM MailOnce == Spec => []AtMostOneMail
<1>1. MailInv => AtMostOneMail
    BY DEF MailInv, ReservationInv
<1> QED
    BY <1>1, MailInvariant, PTL

-----------------------------------------------------------------------------
(* Nothing is left behind.                                                 *)

LEMMA FaultsGrow ==
    ASSUME Shape, NEW r \in Runs, RunStep(r)
    PROVE  faults' = faults \/ faults' # 0
BY FaultIsCounted
   DEF RunStep, Start, Planning, LoadSent, Plan, Names, Enrich, Recipient, Delivering,
       Reserve, Send, MarkAccepted, Delivered, Failing, ReserveUnanswered,
       SendUnanswered, MarkUnanswered, CallFails, Crash

LEMMA RunLosesNothing ==
    ASSUME Shape, MailInv, NoSilentLoss, NEW r \in Runs, RunStep(r)
    PROVE  NoSilentLoss'
<1> SUFFICES ASSUME faults' = 0, NEW c \in alive, NEW s \in Skins,
                    rows'[c][s] = "claimed"
             PROVE  \E q \in Runs : Holds(q, c, s)'
    BY RunIsLocal DEF NoSilentLoss, Local
<1>1. Local(r) /\ c \in Checks /\ check[r] \in Checks
    BY RunIsLocal DEF Shape
<1>2. faults = 0
    BY FaultsGrow
<1>3. rows[c][s] = "claimed" => \E q \in Runs : Holds(q, c, s)
    BY <1>2 DEF NoSilentLoss
<1>4. \A q \in Runs : q # r /\ Holds(q, c, s) => Holds(q, c, s)'
    BY <1>1 DEF Local, Holds
<1>5. CASE Quiet(r)
    BY <1>3, <1>4, <1>5 DEF Quiet, Holds, InHand
<1>6. ASSUME NEW t \in Skins, Claims(r, t)
      PROVE  \E q \in Runs : Holds(q, c, s)'
    <2>1. CASE c = check[r] /\ s = t
        BY <1>1, <1>6, <2>1 DEF Claims, Holds, Local
    <2>2. CASE ~(c = check[r] /\ s = t)
        <3>1. rows'[c][s] = rows[c][s]
            BY <1>1, <1>6, <2>2 DEF Claims, Shape
        <3>2. ~Holds(r, c, s)
            BY <1>6 DEF Claims, Holds
        <3> QED
            BY <1>3, <1>4, <3>1, <3>2
    <2> QED
        BY <2>1, <2>2
<1>7. ASSUME NEW t \in Skins, Accepts(r, t)
      PROVE  \E q \in Runs : Holds(q, c, s)'
    <2>1. Holds(r, c, s) => Holds(r, c, s)'
        BY <1>1, <1>7 DEF Accepts, Holds, Local
    <2> QED
        BY <1>3, <1>4, <1>7, <2>1 DEF Accepts
<1>8. ASSUME NEW t \in Skins, Records(r, t)
      PROVE  \E q \in Runs : Holds(q, c, s)'
    <2>1. ~(c = check[r] /\ s = t)
        BY <1>1, <1>8 DEF Records, Shape
    <2>2. rows'[c][s] = rows[c][s]
        BY <1>1, <1>8, <2>1 DEF Records, Shape
    <2>3. ~Holds(r, c, s)
        BY <1>8, <2>1 DEF Records, Holds, MailInv, OneInHand
    <2> QED
        BY <1>3, <1>4, <2>2, <2>3
<1> QED
    BY <1>5, <1>6, <1>7, <1>8, RunEffect

\* While no call fails, a reserved email is in the hands of a run until it is
\* recorded or its account is deleted.
THEOREM NothingIsLost == Spec => []NoSilentLoss
<1>1. ASSUME Init
      PROVE  NoSilentLoss
    <2>1. \A c \in Checks : \A s \in Skins : rows[c][s] # "claimed"
        BY <1>1 DEF Init
    <2> QED
        BY <1>1, <2>1 DEF Init, NoSilentLoss
<1>2. Shape /\ MailInv /\ NoSilentLoss /\ [Next]_vars => NoSilentLoss'
    <2>1. ASSUME Shape, NoSilentLoss, NEW c \in Checks, Disconnect(c)
          PROVE  NoSilentLoss'
        <3>1. \A d \in alive' : d \in alive /\ rows'[d] = rows[d]
            BY <2>1 DEF Disconnect, Shape
        <3>2. \A q, d, t : Holds(q, d, t)' <=> Holds(q, d, t)
            BY <2>1 DEF Disconnect, Holds, plan
        <3> QED
            BY <2>1, <3>1, <3>2 DEF NoSilentLoss, Disconnect
    <2>2. ASSUME NoSilentLoss,
                 \/ \E c \in Checks, s \in Skins : SetSkinWatched(c, s)
                 \/ UNCHANGED vars
          PROVE  NoSilentLoss'
        BY <2>2 DEF NoSilentLoss, Holds, SetSkinWatched, vars, plan
    <2> QED
        BY <2>1, <2>2, RunLosesNothing DEF Next, RunStep
<1> QED
    BY <1>1, <1>2, ShapeHolds, MailInvariant, PTL DEF Spec

\* What a run has dealt with is claimed, and it reports success at the end.
CoverInv ==
    /\ \A r \in Runs : check[r] \in alive =>
          \A s \in planned[r] \ todo[r] : rows[check[r]][s] \in {"claimed", "emailed"}
    /\ \A r \in Runs : report[r] = "succeeded" => pc[r] = "done" /\ todo[r] = {}

\* A claimed row of an account that exists stays claimed.
LEMMA ClaimedStays ==
    ASSUME Shape, NEW r \in Runs, RunStep(r)
    PROVE  \A c \in Checks, s \in Skins :
              rows[c][s] \in {"claimed", "emailed"} => rows'[c][s] \in {"claimed", "emailed"}
<1> SUFFICES ASSUME NEW c \in Checks, NEW s \in Skins,
                    rows[c][s] \in {"claimed", "emailed"}
             PROVE  rows'[c][s] \in {"claimed", "emailed"}
    OBVIOUS
<1>1. ASSUME NEW t \in Skins, Claims(r, t) \/ Records(r, t)
      PROVE  rows'[c][s] \in {"claimed", "emailed"}
    <2>1. \/ rows' = [rows EXCEPT ![check[r]][t] = "claimed"]
          \/ rows' = [rows EXCEPT ![check[r]][t] = "emailed"]
        BY <1>1 DEF Claims, Records
    <2>2. rows \in [Checks -> [Skins -> Stages]]
        BY DEF Shape
    <2>3. rows'[c][s] \in {rows[c][s], "claimed", "emailed"}
        BY <2>1, <2>2
    <2> QED
        BY <2>3
<1> QED
    BY <1>1, RunEffect DEF Quiet, Accepts

\* A run puts a skin aside once its row is claimed.
LEMMA AsideIsClaimed ==
    ASSUME Shape, NEW r \in Runs, RunStep(r), check[r] \in alive,
           NEW s \in planned'[r] \ todo'[r], s \notin planned[r] \ todo[r]
    PROVE  rows'[check[r]][s] \in {"claimed", "emailed"}
<1>1. check[r] \in Checks /\ s \in Skins
    BY RunFields DEF Shape, RunShape
<1>2. CASE Start(r) \/ Planning(r)
    BY <1>2 DEF Shape, Start, Planning, LoadSent, Plan, Names, Enrich, Recipient, End,
                Fails, plan
<1>3. CASE Failing(r) \/ Delivered(r)
    BY <1>3 DEF Shape, Failing, ReserveUnanswered, SendUnanswered, MarkUnanswered,
                CallFails, Crash, Delivered, Fails, plan
<1>4. ASSUME NEW t \in Skins, Reserve(r, t)
      PROVE  rows'[check[r]][s] \in {"claimed", "emailed"}
    <2>1. /\ s = t /\ ~Claimable(rows[check[r]][t]) /\ rows' = rows
        BY <1>4 DEF Shape, Reserve, AfterSkip, Fails, plan
    <2>2. rows[check[r]][t] \in Stages
        BY <1>1, <2>1 DEF Shape
    <2> QED
        BY <2>1, <2>2 DEF Claimable, Stages
<1>5. ASSUME NEW t \in Skins, Send(r, t) \/ MarkAccepted(r, t)
      PROVE  rows'[check[r]][s] \in {"claimed", "emailed"}
    <2>1. s = t /\ rows' = [rows EXCEPT ![check[r]][s] = "emailed"]
        BY <1>5 DEF Shape, Send, MarkAccepted, Fails, plan
    <2> QED
        BY <1>1, <2>1 DEF Shape
<1> QED
    BY <1>2, <1>3, <1>4, <1>5 DEF RunStep, Delivering

\* A run that has ended does nothing, and only an empty list ends in success.
LEMMA SuccessIsLast ==
    ASSUME Shape, NEW r \in Runs, RunStep(r),
           report[r] = "succeeded" => pc[r] = "done" /\ todo[r] = {},
           report'[r] = "succeeded"
    PROVE  pc'[r] = "done" /\ todo'[r] = {}
<1>1. pc[r] # "done"
    BY DEF RunStep, Start, Planning, LoadSent, Plan, Names, Enrich, Recipient,
           Delivering, Reserve, Send, Markable, MarkAccepted, Delivered, Failing,
           ReserveUnanswered, SendUnanswered, MarkUnanswered, CallFails, Crash
<1>2. report'[r] # report[r]
    BY <1>1
<1>3. CASE Delivered(r)
    BY <1>3 DEF Shape, Delivered, End, Goto
<1>4. CASE Start(r) \/ Planning(r) \/ Failing(r)
    BY <1>2, <1>4 DEF Shape, Start, Planning, LoadSent, Plan, Names, Enrich, Recipient,
                      End, Fails, Failing, ReserveUnanswered, SendUnanswered,
                      MarkUnanswered, CallFails, Crash, result
<1>5. ASSUME NEW s \in Skins, Reserve(r, s) \/ Send(r, s) \/ MarkAccepted(r, s)
      PROVE  FALSE
    BY <1>2, <1>5 DEF Shape, Reserve, Send, MarkAccepted, End, Fails, result
<1> QED
    BY <1>3, <1>4, <1>5 DEF RunStep, Delivering

LEMMA CoverInvariant == Spec => []CoverInv
<1>1. Init => CoverInv
    BY DEF Init, CoverInv
<1>2. Shape /\ CoverInv /\ [Next]_vars => CoverInv'
    <2>1. ASSUME Shape, CoverInv, NEW r \in Runs, RunStep(r)
          PROVE  CoverInv'
        <3>1. Local(r) /\ Shape'
            BY <2>1, RunIsLocal, RunFields, TablesTyped DEF Shape, RunShape, Local
        <3>2. \A q \in Runs : \A s \in planned'[q] \ todo'[q] : s \in Skins
            BY <3>1 DEF Shape
        <3>3. ASSUME NEW q \in Runs, check'[q] \in alive',
                     NEW s \in planned'[q] \ todo'[q]
              PROVE  rows'[check[q]][s] \in {"claimed", "emailed"}
            <4>1. check[q] \in alive /\ check[q] \in Checks /\ s \in Skins
                BY <2>1, <3>1, <3>2, <3>3 DEF Local, Shape
            <4>2. CASE s \in planned[q] \ todo[q]
                BY <2>1, <4>1, <4>2, ClaimedStays DEF CoverInv
            <4>3. CASE s \notin planned[q] \ todo[q]
                <5>1. q = r
                    BY <3>1, <3>3, <4>3 DEF Local
                <5> QED
                    BY <2>1, <3>3, <4>1, <4>3, <5>1, AsideIsClaimed
            <4> QED
                BY <4>2, <4>3
        <3>4. ASSUME NEW q \in Runs, report'[q] = "succeeded"
              PROVE  pc'[q] = "done" /\ todo'[q] = {}
            <4>1. report[q] = "succeeded" => pc[q] = "done" /\ todo[q] = {}
                BY <2>1 DEF CoverInv
            <4>2. CASE q = r
                BY <2>1, <3>4, <4>1, <4>2, SuccessIsLast
            <4>3. CASE q # r
                BY <3>1, <3>4, <4>1, <4>3 DEF Local
            <4> QED
                BY <4>2, <4>3
        <3> QED
            BY <3>1, <3>3, <3>4 DEF CoverInv, Local
    <2>2. ASSUME Shape, CoverInv, NEW c \in Checks, Disconnect(c)
          PROVE  CoverInv'
        <3>1. \A d \in alive' : d \in alive /\ rows'[d] = rows[d]
            BY <2>2 DEF Disconnect, Shape
        <3> QED
            BY <2>2, <3>1 DEF CoverInv, Disconnect, plan, result
    <2>3. ASSUME CoverInv,
                 \/ \E c \in Checks, s \in Skins : SetSkinWatched(c, s)
                 \/ UNCHANGED vars
          PROVE  CoverInv'
        BY <2>3 DEF CoverInv, SetSkinWatched, vars, plan, result
    <2> QED
        BY <2>1, <2>2, <2>3 DEF Next, RunStep
<1> QED
    BY <1>1, <1>2, ShapeHolds, PTL DEF Spec

\* A run reports success only when every email it planned has been claimed, by
\* itself or by another run.
THEOREM CoversPlan == Spec => []SuccessCoversPlan
<1>1. CoverInv => SuccessCoversPlan
    BY DEF CoverInv, SuccessCoversPlan
<1> QED
    BY <1>1, CoverInvariant, PTL

-----------------------------------------------------------------------------
(* The delivery is a SingleDelivery: a reservation is its claim, a call of *)
(* the provider its message, a mark its record.  A run that gives up a row *)
(* deleted under it, and a disconnect, delete keys.                        *)

Moves(c, s, stage) ==
    \A d \in Checks, t \in Skins :
        StageOf(d, t)' = IF d = c /\ t = s THEN stage ELSE StageOf(d, t)

LEMMA Keyed == \A k \in Key : /\ k[1] \in Checks /\ k[2] \in Skins
                              /\ k = <<k[1], k[2]>>
BY DEF Key

LEMMA StageOfAlive ==
    ASSUME Shape, NEW c \in alive, NEW s \in Skins
    PROVE  StageOf(c, s) = IF Claimable(rows[c][s]) THEN "open" ELSE rows[c][s]
BY DEF StageOf

LEMMA StageOfGone ==
    ASSUME NEW c \in Checks \ alive, NEW s \in Skins
    PROVE  StageOf(c, s) = IF \E r \in Runs : Holds(r, c, s) THEN "claimed" ELSE "gone"
BY DEF StageOf

\* What a holder holds is claimed.
LEMMA StageHeld ==
    ASSUME Shape, ReservationInv, NEW r \in Runs, NEW c \in Checks, NEW s \in Skins,
           Holds(r, c, s)
    PROVE  StageOf(c, s) = "claimed"
<1>1. CASE c \in alive
    <2>1. rows[c][s] = "claimed"
        BY <1>1 DEF ReservationInv
    <2> QED
        BY <1>1, <2>1, StageOfAlive DEF Claimable
<1>2. CASE c \notin alive
    BY <1>2, StageOfGone
<1> QED
    BY <1>1, <1>2

\* A key that is neither written nor held by the run of the step stays.
LEMMA StageStays ==
    ASSUME Shape, NEW r \in Runs, Local(r), NEW c \in Checks, NEW s \in Skins,
           rows'[c][s] = rows[c][s],
           c \in alive \/ (Holds(r, c, s)' <=> Holds(r, c, s))
    PROVE  StageOf(c, s)' = StageOf(c, s)
<1>1. \A q \in Runs : q # r => (Holds(q, c, s)' <=> Holds(q, c, s))
    BY DEF Local, Holds
<1>2. CASE c \in alive
    BY <1>2 DEF Local, StageOf, Claimable
<1>3. CASE c \notin alive
    <2>1. (\E q \in Runs : Holds(q, c, s)') <=> (\E q \in Runs : Holds(q, c, s))
        BY <1>1, <1>3
    <2> QED
        BY <1>3, <2>1 DEF Local, StageOf
<1> QED
    BY <1>2, <1>3

LEMMA ClaimMaps ==
    ASSUME Shape, NEW r \in Runs, NEW s \in Skins, Local(r), Claims(r, s)
    PROVE  Single!Next
<1>0. PICK c \in Checks : c = check[r]
    BY DEF Shape
<1>1. c \in Checks /\ c \in alive /\ c \in alive'
    BY <1>0 DEF Shape, Claims, Local
<1>2. StageOf(c, s) = "open"
    BY <1>0, <1>1, StageOfAlive DEF Claims
<1>3. rows'[c][s] = "claimed"
    BY <1>0, <1>1 DEF Shape, Claims
<1>4. StageOf(c, s)' = "claimed"
    BY <1>1, <1>3 DEF StageOf, Claimable
<1>5. ASSUME NEW d \in Checks, NEW t \in Skins, ~(d = c /\ t = s)
      PROVE  StageOf(d, t)' = StageOf(d, t)
    <2>1. rows'[d][t] = rows[d][t]
        BY <1>0, <1>1, <1>5 DEF Shape, Claims
    <2>2. d \in alive \/ (Holds(r, d, t)' <=> Holds(r, d, t))
        BY <1>0, <1>1 DEF Claims, Holds, Local, InHand
    <2> QED
        BY <2>1, <2>2, StageStays
<1>6. Moves(c, s, "claimed") /\ mails' = mails
    BY <1>0, <1>4, <1>5 DEF Moves, Claims
<1>7. <<c, s>> \in Key
    BY <1>1 DEF Key
<1>8. Single!Claim(<<c, s>>)
    BY <1>2, <1>6, <1>7, Keyed DEF Single!Claim, Moves
<1> QED
    BY <1>7, <1>8 DEF Single!Next

LEMMA SendMaps ==
    ASSUME Shape, MailInv, NEW r \in Runs, NEW s \in Skins, Local(r), Accepts(r, s)
    PROVE  Single!Next
<1>0. PICK c \in Checks : c = check[r]
    BY DEF Shape
<1>1. c \in Checks /\ Holds(r, c, s) /\ pc[r] = "send"
    BY <1>0 DEF Shape, Accepts, Holds
<1>2. /\ StageOf(c, s) = "claimed" /\ mails[c][s] = 0
      /\ \A q \in Runs : Holds(q, c, s) => q = r
    BY <1>1, StageHeld DEF MailInv, ReservationInv
<1>3. StageOf(c, s)' \in {"claimed", "gone"}
    <2>1. CASE c \in alive
        BY <1>0, <1>1, <1>2, <2>1, StageStays DEF Accepts
    <2>2. CASE c \notin alive
        BY <1>1, <2>2 DEF StageOf, Local
    <2> QED
        BY <2>1, <2>2
<1>4. ASSUME NEW d \in Checks, NEW t \in Skins, ~(d = c /\ t = s)
      PROVE  StageOf(d, t)' = StageOf(d, t)
    <2>1. ~Holds(r, d, t) /\ ~Holds(r, d, t)'
        BY <1>0, <1>4 DEF Accepts, Holds, Local, MailInv, OneInHand
    <2> QED
        BY <1>0, <2>1, StageStays DEF Accepts
<1>5. \A d \in Checks : \A t \in Skins :
          mails'[d][t] = IF d = c /\ t = s THEN 1 ELSE mails[d][t]
    BY <1>0, <1>1, <1>2 DEF Shape, Accepts, Accepted
<1>6. PICK stage : stage = StageOf(c, s)' /\ Moves(c, s, stage)
    BY <1>4 DEF Moves
<1>7. <<c, s>> \in Key
    BY <1>1 DEF Key
<1>8. Single!Send(<<c, s>>)
    <2> DEFINE stages == [k \in Key |-> StageOf(k[1], k[2])]
               sends == [k \in Key |-> mails[k[1]][k[2]]]
    <2>1. stages[<<c, s>>] = "claimed" /\ sends[<<c, s>>] = 0
        BY <1>2, <1>7
    <2>2. sends' = [sends EXCEPT ![<<c, s>>] = 1]
        BY <1>5, <1>7, Keyed
    <2>3. stages' = [stages EXCEPT ![<<c, s>>] = stage]
        BY <1>6, <1>7, Keyed DEF Moves
    <2>4. stage = "claimed" => stages' = stages
        BY <2>1, <2>3
    <2>5. stage \in {"claimed", "gone"}
        BY <1>3, <1>6
    <2> HIDE DEF stages, sends
    <2> QED
        BY <2>1, <2>2, <2>3, <2>4, <2>5 DEF Single!Send, stages, sends
<1> QED
    BY <1>7, <1>8 DEF Single!Next

LEMMA RecordMaps ==
    ASSUME Shape, MailInv, NEW r \in Runs, NEW s \in Skins, Local(r), Records(r, s)
    PROVE  Single!Next
<1>0. PICK c \in Checks : c = check[r]
    BY DEF Shape
<1>1. c \in Checks /\ c \in alive /\ c \in alive' /\ Holds(r, c, s) /\ pc[r] = "mark"
    BY <1>0 DEF Shape, Records, Holds, Local
<1>2. StageOf(c, s) = "claimed" /\ mails[c][s] = 1
    BY <1>1, StageHeld DEF MailInv, ReservationInv
<1>3. rows'[c][s] = "emailed"
    BY <1>0, <1>1 DEF Shape, Records
<1>4. StageOf(c, s)' = "emailed"
    BY <1>1, <1>3 DEF StageOf, Claimable
<1>5. ASSUME NEW d \in Checks, NEW t \in Skins, ~(d = c /\ t = s)
      PROVE  StageOf(d, t)' = StageOf(d, t)
    <2>1. rows'[d][t] = rows[d][t]
        BY <1>0, <1>1, <1>5 DEF Shape, Records
    <2>2. ~Holds(r, d, t) /\ ~Holds(r, d, t)'
        BY <1>0, <1>5 DEF Records, Holds, Local, MailInv, OneInHand
    <2> QED
        BY <2>1, <2>2, StageStays
<1>6. Moves(c, s, "emailed") /\ mails' = mails
    BY <1>0, <1>4, <1>5 DEF Moves, Records
<1>7. <<c, s>> \in Key
    BY <1>1 DEF Key
<1>8. Single!Record(<<c, s>>)
    BY <1>2, <1>6, <1>7, Keyed DEF Single!Record, Moves
<1> QED
    BY <1>7, <1>8 DEF Single!Next

\* Keys that a step turns to gone, while the others and the mails stay.
LEMMA DeleteMaps ==
    ASSUME NEW G \in SUBSET Key, mails' = mails,
           \A d \in Checks, t \in Skins :
              StageOf(d, t)' = IF <<d, t>> \in G THEN "gone" ELSE StageOf(d, t)
    PROVE  Single!Next
<1>1. Single!Delete
    BY Keyed DEF Single!Delete
<1> QED
    BY <1>1 DEF Single!Next

LEMMA QuietMaps ==
    ASSUME Shape, MailInv, NEW r \in Runs, Local(r), Quiet(r)
    PROVE  Single!Next
<1> DEFINE G == {k \in Key : k[1] \notin alive /\ Holds(r, k[1], k[2])}
<1>1. ASSUME NEW d \in Checks, NEW t \in Skins
      PROVE  StageOf(d, t)' = IF <<d, t>> \in G THEN "gone" ELSE StageOf(d, t)
    <2>1. ~Holds(r, d, t)'
        BY DEF Quiet, Holds, InHand
    <2>2. <<d, t>> \in G <=> d \notin alive /\ Holds(r, d, t)
        BY DEF Key
    <2>3. CASE d \notin alive /\ Holds(r, d, t)
        <3>1. \A q \in Runs : ~Holds(q, d, t)'
            BY <2>1, <2>3 DEF MailInv, ReservationInv, Local, Holds
        <3> QED
            BY <2>2, <2>3, <3>1 DEF StageOf, Local
    <2>4. CASE ~(d \notin alive /\ Holds(r, d, t))
        BY <2>1, <2>2, <2>4, StageStays DEF Quiet
    <2> QED
        BY <2>3, <2>4
<1>2. G \in SUBSET Key
    OBVIOUS
<1> HIDE DEF G
<1> QED
    BY <1>1, <1>2, DeleteMaps DEF Quiet

LEMMA DisconnectMaps ==
    ASSUME Shape, MailInv, NEW c \in Checks, Disconnect(c)
    PROVE  Single!Next
<1> DEFINE G == {k \in Key : k[1] = c /\ ~\E q \in Runs : Holds(q, k[1], k[2])}
<1>1. \A q, d, t : Holds(q, d, t)' <=> Holds(q, d, t)
    BY DEF Disconnect, Holds, plan
<1>2. ASSUME NEW d \in Checks, NEW t \in Skins
      PROVE  StageOf(d, t)' = IF <<d, t>> \in G THEN "gone" ELSE StageOf(d, t)
    <2>1. <<d, t>> \in G <=> d = c /\ ~\E q \in Runs : Holds(q, d, t)
        BY DEF Key
    <2>2. CASE d # c
        <3>1. rows'[d] = rows[d] /\ (d \in alive' <=> d \in alive)
            BY <2>2 DEF Disconnect, Shape
        <3>2. (\E q \in Runs : Holds(q, d, t)') <=> (\E q \in Runs : Holds(q, d, t))
            BY <1>1
        <3> QED
            BY <2>1, <2>2, <3>1, <3>2 DEF StageOf, Claimable
    <2>3. CASE d = c
        <3>1. d \notin alive'
            BY <2>3 DEF Disconnect
        <3>2. CASE \E q \in Runs : Holds(q, d, t)
            BY <1>1, <2>1, <3>1, <3>2, StageHeld DEF StageOf, MailInv
        <3>3. CASE ~\E q \in Runs : Holds(q, d, t)
            BY <1>1, <2>1, <2>3, <3>1, <3>3 DEF StageOf
        <3> QED
            BY <3>2, <3>3
    <2> QED
        BY <2>2, <2>3
<1>3. mails' = mails
    BY DEF Disconnect, history
<1>4. G \in SUBSET Key
    OBVIOUS
<1> HIDE DEF G
<1> QED
    BY <1>2, <1>3, <1>4, DeleteMaps

\* The email delivery implements SingleDelivery: every step claims, sends,
\* records or deletes keys, or leaves them alone.
THEOREM DeliveryIsSingle == Spec => ImplementsSingleDelivery
<1>1. ASSUME Init
      PROVE  Single!Init
    <2>1. \A c \in Checks, s \in Skins : StageOf(c, s) = "open" /\ mails[c][s] = 0
        BY <1>1 DEF Init, StageOf, Claimable
    <2> QED
        BY <2>1, Keyed DEF Single!Init
<1>2. Shape /\ MailInv /\ [Next]_vars => [Single!Next]_(Single!vars)
    <2>1. ASSUME Shape, MailInv, NEW r \in Runs, RunStep(r)
          PROVE  Single!Next
        BY <2>1, RunIsLocal, RunEffect, QuietMaps, ClaimMaps, SendMaps, RecordMaps
    <2>2. ASSUME \/ \E c \in Checks, s \in Skins : SetSkinWatched(c, s)
                 \/ UNCHANGED vars
          PROVE  UNCHANGED Single!vars
        BY <2>2 DEF SetSkinWatched, vars, plan, history, Single!vars, StageOf, Holds
    <2> QED
        BY <2>1, <2>2, DisconnectMaps DEF Next, RunStep
<1> QED
    BY <1>1, <1>2, ShapeHolds, MailInvariant, PTL
       DEF Spec, ImplementsSingleDelivery, Single!Spec

-----------------------------------------------------------------------------
(* The types of what the reservations do not depend on.                    *)

Rest ==
    /\ watched \in [Checks -> SUBSET Skins]
    /\ sent \in [Runs -> SUBSET Skins]
    /\ emailsSent \in [Runs -> Nat]
    /\ delivered \in [Runs -> SUBSET Skins]
    /\ faults \in 0 .. MaxFaults

\* Resets and counts of a run, and the faults it may meet.
LEMMA RunRest ==
    ASSUME MaxFaults \in Nat, Shape, Rest, NEW r \in Runs, RunStep(r)
    PROVE  /\ watched' = watched
           /\ sent' = sent \/ \E S \in SUBSET Skins : sent' = [sent EXCEPT ![r] = S]
           /\ emailsSent' = emailsSent
                \/ \E n \in Nat : emailsSent' = [emailsSent EXCEPT ![r] = n]
           /\ delivered' = delivered
                \/ \E S \in SUBSET Skins : delivered' = [delivered EXCEPT ![r] = S]
           /\ faults' \in 0 .. MaxFaults
<1>0. /\ faults' = faults => faults' \in 0 .. MaxFaults
      /\ Fault => faults' \in 0 .. MaxFaults
      /\ 0 \in Nat /\ emailsSent[r] + 1 \in Nat
    <2>1. faults \in 0 .. MaxFaults /\ emailsSent[r] \in Nat
        BY DEF Rest
    <2>2. ASSUME Fault
          PROVE  faults' \in 0 .. MaxFaults
        <3>1. faults < MaxFaults /\ faults' = faults + 1
            BY <2>2 DEF Fault
        <3> QED
            BY <2>1, <3>1
    <2> QED
        BY <2>1, <2>2
<1>1. CASE Start(r)
    BY <1>0, <1>1 DEF Start, plan, result, history
<1>2. CASE Planning(r)
    <2>1. IF check[r] \in alive THEN Emailed(check[r]) \in SUBSET Skins ELSE TRUE
        BY DEF Emailed
    <2>2. CASE LoadSent(r)
        <3>1. (IF check[r] \in alive THEN Emailed(check[r]) ELSE {}) \in SUBSET Skins
            BY <2>1
        <3> QED
            BY <1>0, <2>2, <3>1 DEF LoadSent, plan, result, history
    <2>3. CASE Plan(r) \/ Names(r) \/ Recipient(r)
        BY <1>0, <2>3 DEF Plan, Names, Recipient, plan, result, history
    <2>4. CASE Enrich(r)
        BY <1>0, <2>4 DEF Enrich, Fails, plan, result, history
    <2> QED
        BY <1>2, <2>2, <2>3, <2>4 DEF Planning
<1>3. CASE Delivering(r)
    <2>1. ASSUME NEW s \in Skins, Reserve(r, s) \/ Send(r, s)
          PROVE  /\ UNCHANGED <<watched, sent, delivered, faults>>
                 /\ emailsSent' = emailsSent \/ emailsSent' = [emailsSent EXCEPT ![r] = 0]
        BY <2>1 DEF Reserve, Send, Fails, plan, result, history
    <2>2. ASSUME NEW s \in Skins, MarkAccepted(r, s)
          PROVE  /\ UNCHANGED <<watched, sent, faults>>
                 /\ \/ emailsSent' = [emailsSent EXCEPT ![r] = emailsSent[r] + 1]
                    \/ emailsSent' = [emailsSent EXCEPT ![r] = 0]
                 /\ \/ delivered' = delivered
                    \/ delivered' = [delivered EXCEPT ![r] = delivered[r] \cup {s}]
        BY <2>2 DEF MarkAccepted, Fails, plan, history, Rest
    <2>3. \A s \in Skins : delivered[r] \cup {s} \in SUBSET Skins
        BY DEF Rest
    <2>4. CASE Delivered(r)
        BY <1>0, <2>4 DEF Delivered, plan, history
    <2>5. CASE \E s \in Skins : Reserve(r, s) \/ Send(r, s)
        BY <1>0, <2>1, <2>5
    <2>6. CASE \E s \in Skins : MarkAccepted(r, s)
        <3>1. PICK s \in Skins : MarkAccepted(r, s)
            BY <2>6
        <3> QED
            BY <1>0, <2>2, <2>3, <3>1
    <2> QED
        BY <1>3, <2>4, <2>5, <2>6 DEF Delivering
<1>4. CASE Failing(r)
    <2>1. /\ Fault
          /\ UNCHANGED <<watched, sent, delivered>>
          /\ emailsSent' = emailsSent \/ emailsSent' = [emailsSent EXCEPT ![r] = 0]
        BY <1>4 DEF Failing, ReserveUnanswered, SendUnanswered, MarkUnanswered, CallFails,
                    Crash, Fails, plan, result, history
    <2> QED
        BY <1>0, <2>1
<1> QED
    BY <1>1, <1>2, <1>3, <1>4 DEF RunStep

\* The types of the rows, the accounts, the watchlists and the runs, and the
\* bound on faults.
THEOREM DeliveryTypeCorrect ==
    ASSUME MaxFaults \in Nat
    PROVE  Spec => []TypeOK
<1>1. Init => Rest
    BY DEF Init, Rest
<1>2. Shape /\ Rest /\ [Next]_vars => Rest'
    <2> SUFFICES ASSUME Shape, Rest, [Next]_vars
                 PROVE  Rest'
        OBVIOUS
    <2>1. ASSUME NEW r \in Runs, RunStep(r)
          PROVE  Rest'
        <3>1. sent' \in [Runs -> SUBSET Skins] /\ delivered' \in [Runs -> SUBSET Skins]
            BY <2>1, RunRest DEF Rest
        <3>2. emailsSent' \in [Runs -> Nat]
            BY <2>1, RunRest DEF Rest
        <3> QED
            BY <2>1, <3>1, <3>2, RunRest DEF Rest
    <2>2. ASSUME NEW c \in Checks, Disconnect(c)
          PROVE  Rest'
        BY <2>2 DEF Disconnect, Rest, plan, result, history
    <2>3. ASSUME NEW c \in Checks, NEW s \in Skins, SetSkinWatched(c, s)
          PROVE  Rest'
        <3>1. watched[c] \ {s} \in SUBSET Skins /\ watched[c] \cup {s} \in SUBSET Skins
            BY DEF Rest
        <3> QED
            BY <2>3, <3>1 DEF SetSkinWatched, Rest, plan, result, history
    <2>4. CASE UNCHANGED vars
        BY <2>4 DEF vars, Rest, plan, result, history
    <2> QED
        BY <2>1, <2>2, <2>3, <2>4 DEF Next, RunStep
<1>3. Shape /\ Rest => TypeOK
    BY DEF Shape, Rest, TypeOK
<1> QED
    BY <1>1, <1>2, <1>3, ShapeHolds, PTL DEF Spec
=============================================================================
