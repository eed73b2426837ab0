----------------------- MODULE ExtensionConnectProofs -----------------------
(***************************************************************************)
(* What holds of the extension's sign-in for every set of panels and       *)
(* requests, however often its worker is restarted: a capture token saves  *)
(* one session at most, and a panel says connected only of a request whose *)
(* session is saved.  One panel has one live token at most, and a job of   *)
(* one request that is stored has somebody to end it.                      *)
(***************************************************************************)
EXTENDS ExtensionConnect, FiniteSetTheorems, TLAPS

Cell == [pc : HandlerPcs, snap : SUBSET Requests, outcome : Outcomes]
Hands == [Kinds -> [Requests -> Cell]]
Panel == [pc : PanelPcs, req : Requests \cup {None}]

\* The types the proofs rest on.
Shape ==
    /\ token \in [Requests -> Tokens]
    /\ saved \in [Requests -> 0 .. 2]
    /\ panel \in [Panels -> Panel]
    /\ jobs \in SUBSET Requests
    /\ hand \in Hands

-----------------------------------------------------------------------------
(* What becomes of a listener's cell.                                      *)

LEMMA CellSet ==
    ASSUME NEW h \in Hands, NEW k \in Kinds, NEW r \in Requests, NEW c \in Cell
    PROVE  /\ [h EXCEPT ![k][r] = c] \in Hands
           /\ \A l \in Kinds, q \in Requests :
                 [h EXCEPT ![k][r] = c][l][q] = IF l = k /\ q = r THEN c ELSE h[l][q]
<1>1. [h[k] EXCEPT ![r] = c] \in [Requests -> Cell]
    BY DEF Hands
<1>2. [h EXCEPT ![k][r] = c] \in Hands
    BY <1>1 DEF Hands
<1> QED
    BY <1>2 DEF Hands

LEMMA PcSet ==
    ASSUME NEW h \in Hands, NEW k \in Kinds, NEW r \in Requests, NEW label \in HandlerPcs
    PROVE  /\ Moved(h, k, r, label) \in Hands
           /\ \A l \in Kinds, q \in Requests :
                 /\ Moved(h, k, r, label)[l][q].pc
                       = IF l = k /\ q = r THEN label ELSE h[l][q].pc
                 /\ Moved(h, k, r, label)[l][q].outcome = h[l][q].outcome
<1> DEFINE c == [h[k][r] EXCEPT !.pc = label]
<1>1. h[k][r] \in Cell
    BY DEF Hands
<1>2. c \in Cell /\ c.pc = label /\ c.outcome = h[k][r].outcome
    BY <1>1 DEF Cell
<1>3. Moved(h, k, r, label) = [h EXCEPT ![k][r] = c]
    BY DEF Moved
<1> HIDE DEF c
<1>4. Moved(h, k, r, label) \in Hands
    <2>1. [h EXCEPT ![k][r] = c] \in Hands
        BY <1>2, CellSet
    <2> QED
        BY <1>3, <2>1
<1>5. \A l \in Kinds, q \in Requests :
          Moved(h, k, r, label)[l][q] = IF l = k /\ q = r THEN c ELSE h[l][q]
    BY <1>2, <1>3, CellSet
<1> QED
    BY <1>2, <1>4, <1>5

\* A request's session is being saved; a listener is about to report success.
Saving(r) == hand["callback"][r].pc = "save"
Told(r) == \E k \in Kinds : hand[k][r].pc \in {"drop", "disarm", "notify"} /\ hand[k][r].outcome = "ok"

\* A step that starts neither.
Plain ==
    /\ hand' \in Hands
    /\ \A r \in Requests : (Saving(r)' => Saving(r)) /\ (Told(r)' => Told(r))

LEMMA PlainStill ==
    ASSUME Shape, UNCHANGED hand
    PROVE  Plain
<1>1. hand' = hand /\ hand' \in Hands
    BY DEF Shape
<1>2. \A r \in Requests : Saving(r)' <=> Saving(r)
    BY <1>1 DEF Saving
<1>3. \A r \in Requests : Told(r)' <=> Told(r)
    BY <1>1 DEF Told
<1> QED
    BY <1>1, <1>2, <1>3 DEF Plain

\* A listener goes to a place that is neither the save nor its report.
LEMMA PlainGoto ==
    ASSUME Shape, NEW k \in Kinds, NEW r \in Requests,
           NEW label \in HandlerPcs \ {"save", "drop", "disarm", "notify"}, Goto(k, r, label)
    PROVE  Plain
<1>1. "callback" \in Kinds
    BY DEF Kinds
<1>2. hand \in Hands /\ hand' = Moved(hand, k, r, label) /\ label \in HandlerPcs
    BY DEF Shape, Goto, Moved
<1>3. hand' \in Hands
    BY <1>2, PcSet
<1>4. \A l \in Kinds, q \in Requests :
          /\ hand'[l][q].pc = IF l = k /\ q = r THEN label ELSE hand[l][q].pc
          /\ hand'[l][q].outcome = hand[l][q].outcome
    BY <1>2, PcSet
<1> QED
    BY <1>1, <1>3, <1>4 DEF Plain, Saving, Told

\* A listener's cell is replaced by one that reports no success.
LEMMA PlainCell ==
    ASSUME Shape, NEW k \in Kinds, NEW r \in Requests, NEW c \in Cell,
           c.pc # "save", c.pc \in {"drop", "disarm", "notify"} => c.outcome # "ok",
           hand' = [hand EXCEPT ![k][r] = c]
    PROVE  Plain
<1>1. "callback" \in Kinds
    BY DEF Kinds
<1>2. hand' \in Hands
    BY CellSet DEF Shape
<1>3. \A l \in Kinds, q \in Requests :
          hand'[l][q] = IF l = k /\ q = r THEN c ELSE hand[l][q]
    BY CellSet DEF Shape
<1> QED
    BY <1>1, <1>2, <1>3 DEF Plain, Saving, Told

LEMMA PlainEnd ==
    ASSUME Shape, NEW k \in Kinds, NEW r \in Requests, End(k, r)
    PROVE  Plain
<1>1. Idle \in Cell /\ Idle.pc = "idle"
    BY DEF Idle, Cell, HandlerPcs, Outcomes
<1> QED
    BY <1>1, PlainCell DEF End

LEMMA PlainFinish ==
    ASSUME Shape, NEW k \in Kinds, NEW r \in Requests, NEW snap \in SUBSET Requests,
           Finish(k, r, "failed", snap)
    PROVE  Plain
<1> DEFINE c == [pc |-> "drop", snap |-> snap, outcome |-> "failed"]
<1>1. c \in Cell /\ c.pc = "drop" /\ c.outcome = "failed"
    BY DEF Cell, HandlerPcs, Outcomes
<1>2. hand' = [hand EXCEPT ![k][r] = c]
    BY DEF Finish
<1> HIDE DEF c
<1> QED
    BY <1>1, <1>2, PlainCell

\* Closing a tab starts the listener for removed tabs.
LEMMA PlainClosed ==
    ASSUME Shape, NEW r \in Requests, NEW h \in Hands, hand' = Closed(h, r),
           \A q \in Requests :
              /\ h["callback"][q].pc = "save" => Saving(q)
              /\ \A k \in Kinds : h[k][q].pc \in {"drop", "disarm", "notify"} /\ h[k][q].outcome = "ok"
                                     => Told(q)
    PROVE  Plain
<1>1. "find" \in HandlerPcs /\ "removed" \in Kinds /\ "callback" \in Kinds
    BY DEF HandlerPcs, Kinds
<1>2. CASE tab[r] = "closed"
    BY <1>1, <1>2 DEF Closed, Plain, Saving, Told
<1>3. CASE tab[r] # "closed"
    <2>1. hand' = Moved(h, "removed", r, "find")
        BY <1>3 DEF Closed
    <2>2. hand' \in Hands
        BY <1>1, <2>1, PcSet
    <2>3. \A l \in Kinds, q \in Requests :
              /\ hand'[l][q].pc = IF l = "removed" /\ q = r THEN "find" ELSE h[l][q].pc
              /\ hand'[l][q].outcome = h[l][q].outcome
        BY <1>1, <2>1, PcSet
    <2> QED
        BY <1>1, <2>2, <2>3 DEF Plain, Saving, Told
<1> QED
    BY <1>2, <1>3

LEMMA SnapTyped ==
    ASSUME Shape, NEW k \in Kinds, NEW r \in Requests
    PROVE  hand[k][r].snap \in SUBSET Requests
<1>1. hand[k][r] \in Cell
    BY DEF Shape, Hands
<1> QED
    BY <1>1 DEF Cell

-----------------------------------------------------------------------------
(* The steps that neither save nor start to.                               *)

\* All of Work but Submit and Save, and what of the world is not the server.
QuietWork(r) ==
    \/ Create(r) \/ Read(r) \/ Write(r) \/ Arm(r) \/ Navigate(r) \/ Capture(r)
    \/ Removed(r) \/ Observe(r) \/ UserCloses(r) \/ Fire(r) \/ FireFails(r)
    \/ SignIn(r)
    \/ \E k \in Kinds : Listener(k, r) \/ StorageFails(k, r)

\* Two fields of a cell are set at once.
LEMMA SnapSet ==
    ASSUME Shape, NEW k \in Kinds, NEW r \in Requests, NEW snap \in SUBSET Requests,
           NEW label \in HandlerPcs \ {"save", "drop", "disarm", "notify"},
           hand' = [hand EXCEPT ![k][r].pc = label, ![k][r].snap = snap]
    PROVE  Plain
<1> DEFINE c == [hand[k][r] EXCEPT !.pc = label, !.snap = snap]
<1>1. hand[k][r] \in Cell
    BY DEF Shape, Hands
<1>2. c \in Cell /\ c.pc = label
    BY <1>1 DEF Cell
<1>3. hand' = [hand EXCEPT ![k][r] = c]
    OBVIOUS
<1> HIDE DEF c
<1>4. c.pc # "save" /\ c.pc \notin {"drop", "disarm", "notify"}
    BY <1>2
<1> QED
    BY <1>2, <1>3, <1>4, PlainCell

LEMMA FailureSet ==
    ASSUME Shape, NEW k \in Kinds, NEW r \in Requests,
           hand' = [hand EXCEPT ![k][r].pc = "notify", ![k][r].outcome = "failed"]
    PROVE  Plain
<1> DEFINE c == [hand[k][r] EXCEPT !.pc = "notify", !.outcome = "failed"]
<1>1. hand[k][r] \in Cell
    BY DEF Shape, Hands
<1>2. c \in Cell /\ c.pc = "notify" /\ c.outcome = "failed"
    BY <1>1 DEF Cell, HandlerPcs, Outcomes
<1>3. hand' = [hand EXCEPT ![k][r] = c]
    OBVIOUS
<1> HIDE DEF c
<1> QED
    BY <1>2, <1>3, PlainCell

\* finishJob() goes on to tell what it was told to tell.
LEMMA DropIsPlain ==
    ASSUME Shape, NEW k \in Kinds, NEW r \in Requests, Drop(k, r)
    PROVE  Plain
<1> DEFINE c == [hand[k][r] EXCEPT !.pc = "disarm", !.snap = {}]
<1>1. hand[k][r] \in Cell /\ hand[k][r].pc = "drop"
    BY DEF Shape, Hands, Drop, At
<1>2. c \in Cell /\ c.pc = "disarm" /\ c.outcome = hand[k][r].outcome
    BY <1>1 DEF Cell, HandlerPcs
<1>3. hand' = [hand EXCEPT ![k][r] = c]
    BY DEF Drop
<1> HIDE DEF c
<1>4. hand' \in Hands
    BY <1>2, <1>3, CellSet DEF Shape
<1>5. \A l \in Kinds, q \in Requests :
          hand'[l][q] = IF l = k /\ q = r THEN c ELSE hand[l][q]
    BY <1>2, <1>3, CellSet DEF Shape
<1>6. "callback" \in Kinds
    BY DEF Kinds
<1> QED
    BY <1>1, <1>2, <1>4, <1>5, <1>6 DEF Plain, Saving, Told

LEMMA DisarmIsPlain ==
    ASSUME Shape, NEW k \in Kinds, NEW r \in Requests, Disarm(k, r)
    PROVE  Plain
<1>1. /\ hand \in Hands /\ hand' = Moved(hand, k, r, "notify")
      /\ hand[k][r].pc = "disarm"
    BY DEF Shape, Disarm, Goto, At
<1>2. "notify" \in HandlerPcs /\ "callback" \in Kinds
    BY DEF HandlerPcs, Kinds
<1>3. hand' \in Hands
    BY <1>1, <1>2, PcSet
<1>4. \A l \in Kinds, q \in Requests :
          /\ hand'[l][q].pc = IF l = k /\ q = r THEN "notify" ELSE hand[l][q].pc
          /\ hand'[l][q].outcome = hand[l][q].outcome
    BY <1>1, <1>2, PcSet
<1> QED
    BY <1>1, <1>2, <1>3, <1>4 DEF Plain, Saving, Told

LEMMA CloseIsPlain ==
    ASSUME Shape, NEW k \in Kinds, NEW r \in Requests, CloseTab(k, r)
    PROVE  Plain
<1> DEFINE h == [hand EXCEPT ![k][r] = Idle]
<1>1. Idle \in Cell /\ Idle.pc = "idle"
    BY DEF Idle, Cell, HandlerPcs, Outcomes
<1>2. /\ h \in Hands
      /\ \A l \in Kinds, q \in Requests :
            h[l][q] = IF l = k /\ q = r THEN Idle ELSE hand[l][q]
    BY <1>1, CellSet DEF Shape
<1>3. hand' = Closed(h, r)
    BY DEF CloseTab
<1>4. "callback" \in Kinds
    BY DEF Kinds
<1> HIDE DEF h
<1>5. \A q \in Requests :
          /\ h["callback"][q].pc = "save" => Saving(q)
          /\ \A l \in Kinds : h[l][q].pc \in {"drop", "disarm", "notify"} /\ h[l][q].outcome = "ok"
                                 => Told(q)
    BY <1>1, <1>2, <1>4 DEF Saving, Told
<1> QED
    BY <1>2, <1>3, <1>5, PlainClosed

LEMMA QuietIsPlain ==
    ASSUME Shape, NEW r \in Requests, QuietWork(r)
    PROVE  Plain /\ UNCHANGED server
<1>1. UNCHANGED server
    BY DEF QuietWork, Create, Read, Write, Arm, Navigate, Capture, Removed, Observe,
           UserCloses, Fire, FireFails, SignIn, Listener, Drop, Disarm, Notify, CloseTab,
           StorageFails
<1>2. /\ hand \in Hands /\ jobs \in SUBSET Requests
      /\ \A k \in Kinds : hand[k][r].snap \in SUBSET Requests
    BY SnapTyped DEF Shape
<1>3. /\ {"start", "callback", "removed", "alarm"} \subseteq Kinds
      /\ {"read", "write", "arm", "navigate", "capture", "submit", "close"}
            \subseteq HandlerPcs \ {"save", "drop", "disarm", "notify"}
    BY DEF Kinds, HandlerPcs
<1>4. CASE Create(r)
    BY <1>3, <1>4, PlainGoto, FailureSet DEF Create
<1>5. CASE Read(r)
    BY <1>2, <1>3, <1>5, SnapSet DEF Read
<1>6. CASE Write(r) \/ Arm(r)
    BY <1>3, <1>6, PlainGoto DEF Write, Arm
<1>7. CASE Navigate(r)
    BY <1>2, <1>3, <1>7, PlainEnd, PlainFinish DEF Navigate
<1>8. CASE Capture(r)
    BY <1>2, <1>3, <1>8, PlainGoto, PlainFinish DEF Capture
<1>9. CASE Removed(r) \/ Fire(r)
    BY <1>2, <1>3, <1>9, PlainEnd, PlainFinish DEF Removed, Fire, Found
<1>10. CASE Observe(r)
    BY <1>2, <1>3, <1>10, SnapSet, PlainFinish DEF Observe
<1>11. CASE UserCloses(r)
    <2>1. hand' = Closed(hand, r)
        BY <1>11 DEF UserCloses
    <2>2. \A q \in Requests :
              /\ hand["callback"][q].pc = "save" => Saving(q)
              /\ \A k \in Kinds :
                    hand[k][q].pc \in {"drop", "disarm", "notify"} /\ hand[k][q].outcome = "ok"
                       => Told(q)
        BY DEF Saving, Told
    <2> QED
        BY <1>1, <1>2, <2>1, <2>2, PlainClosed
<1>12. CASE SignIn(r) \/ FireFails(r)
    <2>1. hand' = hand
        BY <1>12 DEF SignIn, FireFails
    <2> QED
        BY <1>1, <2>1, PlainStill
<1>13. ASSUME NEW k \in Kinds, Notify(k, r)
       PROVE  Plain
    BY <1>3, <1>13, PlainEnd, PlainGoto DEF Notify
<1>14. ASSUME NEW k \in Kinds, StorageFails(k, r)
       PROVE  Plain
    BY <1>14, PlainEnd DEF StorageFails
<1> QED
    BY <1>1, <1>4, <1>5, <1>6, <1>7, <1>8, <1>9, <1>10, <1>11, <1>12, <1>13, <1>14,
       DropIsPlain, DisarmIsPlain, CloseIsPlain DEF QuietWork, Listener

-----------------------------------------------------------------------------
(* The invariant.                                                          *)

\* A session is saved only with a token that is spent, and only once: while it
\* is being saved it is not saved yet, and success is reported of it after.
SaveInv ==
    \A r \in Requests :
        /\ saved[r] \in 0 .. 1
        /\ token[r] # "consumed" => saved[r] = 0
        /\ Saving(r) => token[r] = "consumed" /\ saved[r] = 0
        /\ Told(r) => saved[r] = 1

\* A panel that is minting has a request no other panel has, and no token yet.
Minting(p) == panel[p].pc \in {"delete", "insert"}
PanelInv ==
    /\ \A p \in Panels :
          /\ panel[p].pc # "idle" => panel[p].req \in Requests
          /\ Minting(p) => token[panel[p].req] = "none"
          /\ panel[p].pc = "connected" => saved[panel[p].req] = 1
    /\ \A p, q \in Panels :
          panel[p].pc # "idle" /\ panel[q].pc # "idle" /\ panel[p].req = panel[q].req
             => p = q

ConnectInv == Shape /\ SaveInv /\ PanelInv

\* No token is spent, and a spent one stays so.
TokensKept == \A r \in Requests :
    token'[r] = token[r] \/ (token[r] # "consumed" /\ token'[r] # "consumed")

LEMMA SaveKept ==
    ASSUME SaveInv, Plain, TokensKept, UNCHANGED saved
    PROVE  SaveInv'
<1> SUFFICES ASSUME NEW r \in Requests
             PROVE  /\ saved'[r] \in 0 .. 1
                    /\ token'[r] # "consumed" => saved'[r] = 0
                    /\ Saving(r)' => token'[r] = "consumed" /\ saved'[r] = 0
                    /\ Told(r)' => saved'[r] = 1
    BY DEF SaveInv
<1>1. /\ saved[r] \in 0 .. 1
      /\ token[r] # "consumed" => saved[r] = 0
      /\ Saving(r) => token[r] = "consumed" /\ saved[r] = 0
      /\ Told(r) => saved[r] = 1
    BY DEF SaveInv
<1>2. (Saving(r)' => Saving(r)) /\ (Told(r)' => Told(r))
    BY DEF Plain
<1>3. token'[r] = token[r] \/ (token[r] # "consumed" /\ token'[r] # "consumed")
    BY DEF TokensKept
<1> QED
    BY <1>1, <1>2, <1>3

\* What becomes of a callback listener's cell.
LEMMA CallbackCell ==
    ASSUME Shape, NEW r \in Requests, NEW c \in Cell,
           hand' = [hand EXCEPT !["callback"][r] = c]
    PROVE  /\ hand' \in Hands
           /\ Saving(r)' <=> c.pc = "save"
           /\ Told(r)' => Told(r) \/ (c.pc \in {"drop", "disarm", "notify"} /\ c.outcome = "ok")
           /\ \A q \in Requests \ {r} : (Saving(q)' <=> Saving(q)) /\ (Told(q)' <=> Told(q))
<1>1. "callback" \in Kinds
    BY DEF Kinds
<1>2. hand' \in Hands
    BY <1>1, CellSet DEF Shape
<1>3. \A l \in Kinds, q \in Requests :
          hand'[l][q] = IF l = "callback" /\ q = r THEN c ELSE hand[l][q]
    BY <1>1, CellSet DEF Shape
<1>4. Saving(r)' <=> c.pc = "save"
    BY <1>1, <1>3 DEF Saving
<1>5. Told(r)' => Told(r) \/ (c.pc \in {"drop", "disarm", "notify"} /\ c.outcome = "ok")
    BY <1>3 DEF Told
<1>6. \A q \in Requests \ {r} : Saving(q)' <=> Saving(q)
    BY <1>1, <1>3 DEF Saving
<1>7. \A q \in Requests \ {r} : Told(q)' <=> Told(q)
    BY <1>3 DEF Told
<1> QED
    BY <1>2, <1>4, <1>5, <1>6, <1>7

LEMMA CountIsOne ==
    ASSUME Shape, NEW r \in Requests, Count(r), saved[r] = 0
    PROVE  /\ saved' \in [Requests -> 0 .. 2]
           /\ saved'[r] = 1
           /\ \A q \in Requests \ {r} : saved'[q] = saved[q]
BY DEF Shape, Count

\* The token is spent, and its session is being saved, or it is refused.
LEMMA SubmitSaves ==
    ASSUME ConnectInv, NEW r \in Requests, Submit(r)
    PROVE  SaveInv' /\ hand' \in Hands
<1>1. Shape /\ SaveInv
    BY DEF ConnectInv
<1>2. CASE Claimable(r)
    <2> DEFINE c == [hand["callback"][r] EXCEPT !.pc = "save"]
    <2>1. hand["callback"][r] \in Cell /\ hand["callback"][r].pc = "submit"
        BY <1>1 DEF Shape, Hands, Kinds, Submit, At
    <2>2. c \in Cell /\ c.pc = "save"
        BY <2>1 DEF Cell, HandlerPcs
    <2>3. hand' = [hand EXCEPT !["callback"][r] = c]
        BY <1>2 DEF Submit, Goto, Moved
    <2> HIDE DEF c
    <2>4. /\ hand' \in Hands
          /\ Told(r)' => Told(r)
          /\ \A q \in Requests \ {r} : (Saving(q)' <=> Saving(q)) /\ (Told(q)' <=> Told(q))
        BY <1>1, <2>2, <2>3, CallbackCell
    <2>5. token[r] = "live" /\ token' = [token EXCEPT ![r] = "consumed"] /\ saved' = saved
        BY <1>2 DEF Submit, Claimable
    <2>6. token'[r] = "consumed" /\ \A q \in Requests \ {r} : token'[q] = token[q]
        BY <1>1, <2>5 DEF Shape
    <2> QED
        BY <1>1, <2>4, <2>5, <2>6 DEF SaveInv
<1>3. CASE ~Claimable(r)
    <2>1. hand["callback"][r].snap \in SUBSET Requests /\ "callback" \in Kinds
        BY <1>1, SnapTyped DEF Kinds
    <2>2. UNCHANGED server /\ Finish("callback", r, "failed", hand["callback"][r].snap)
        BY <1>3 DEF Submit, server
    <2>3. Plain
        BY <1>1, <2>1, <2>2, PlainFinish
    <2>4. TokensKept /\ UNCHANGED saved
        BY <2>2 DEF server, TokensKept
    <2> QED
        BY <1>1, <2>3, <2>4, SaveKept DEF Plain
<1> QED
    BY <1>2, <1>3

\* The session is saved and success reported of it, or neither.
LEMMA SaveCounts ==
    ASSUME ConnectInv, NEW r \in Requests, Save(r)
    PROVE  /\ SaveInv' /\ hand' \in Hands
           /\ saved' \in [Requests -> 0 .. 2]
           /\ \A q \in Requests : saved[q] = 1 => saved'[q] = 1
<1>1. Shape /\ SaveInv
    BY DEF ConnectInv
<1>2. /\ hand["callback"][r].snap \in SUBSET Requests /\ "callback" \in Kinds
      /\ UNCHANGED token
    BY <1>1, SnapTyped DEF Kinds, Save
<1>3. Saving(r) /\ saved[r] = 0 /\ token[r] = "consumed"
    BY <1>1 DEF Save, At, Saving, SaveInv
<1>4. CASE Count(r) /\ Finish("callback", r, "ok", hand["callback"][r].snap)
    <2> DEFINE c == [pc |-> "drop", snap |-> hand["callback"][r].snap, outcome |-> "ok"]
    <2>1. c \in Cell /\ c.pc = "drop"
        BY <1>2 DEF Cell, HandlerPcs, Outcomes
    <2>2. hand' = [hand EXCEPT !["callback"][r] = c]
        BY <1>4 DEF Finish
    <2> HIDE DEF c
    <2>3. /\ hand' \in Hands
          /\ ~Saving(r)'
          /\ \A q \in Requests \ {r} : (Saving(q)' <=> Saving(q)) /\ (Told(q)' <=> Told(q))
        BY <1>1, <2>1, <2>2, CallbackCell
    <2>4. /\ saved' \in [Requests -> 0 .. 2] /\ saved'[r] = 1
          /\ \A q \in Requests \ {r} : saved'[q] = saved[q]
        BY <1>1, <1>3, <1>4, CountIsOne
    <2> QED
        BY <1>1, <1>2, <1>3, <2>3, <2>4 DEF SaveInv
<1>5. CASE UNCHANGED saved /\ Finish("callback", r, "failed", hand["callback"][r].snap)
    <2>1. Plain
        BY <1>1, <1>2, <1>5, PlainFinish
    <2>2. TokensKept
        BY <1>2 DEF TokensKept
    <2> QED
        BY <1>1, <1>5, <2>1, <2>2, SaveKept DEF Plain, Shape
<1> QED
    BY <1>4, <1>5 DEF Save

\* The listener gives up on its post, which may have done its work.
LEMMA LostSubmit ==
    ASSUME ConnectInv, NEW r \in Requests, SubmitUnanswered(r)
    PROVE  /\ SaveInv' /\ hand' \in Hands
           /\ token' \in [Requests -> Tokens] /\ saved' \in [Requests -> 0 .. 2]
           /\ \A q \in Requests : saved[q] = 1 => saved'[q] = 1
           /\ \A q \in Requests : token[q] = "none" => token'[q] = "none"
<1>1. Shape /\ SaveInv
    BY DEF ConnectInv
<1> DEFINE c == [pc |-> "drop", snap |-> hand["callback"][r].snap, outcome |-> "failed"]
<1>2. c \in Cell /\ c.pc = "drop" /\ c.outcome = "failed"
    <2>1. hand["callback"][r].snap \in SUBSET Requests
        BY <1>1, SnapTyped DEF Kinds
    <2> QED
        BY <2>1 DEF Cell, HandlerPcs, Outcomes
<1>3. hand' = [hand EXCEPT !["callback"][r] = c]
    BY DEF SubmitUnanswered, Finish
<1> HIDE DEF c
<1>4. /\ hand' \in Hands
      /\ ~Saving(r)' /\ (Told(r)' => Told(r))
      /\ \A q \in Requests \ {r} : (Saving(q)' <=> Saving(q)) /\ (Told(q)' <=> Told(q))
    BY <1>1, <1>2, <1>3, CallbackCell
<1>5. CASE UNCHANGED server
    BY <1>1, <1>4, <1>5 DEF SaveInv, Shape, server
<1>6. CASE /\ Claimable(r) \/ At("callback", r, "save")
           /\ token' = [token EXCEPT ![r] = "consumed"]
           /\ Count(r) \/ UNCHANGED saved
    <2>1. saved[r] = 0 /\ ~Told(r) /\ token[r] # "none"
        BY <1>1, <1>6 DEF Claimable, At, Saving, SaveInv
    <2>2. /\ token' \in [Requests -> Tokens] /\ token'[r] = "consumed"
          /\ \A q \in Requests \ {r} : token'[q] = token[q]
        BY <1>1, <1>6 DEF Shape, Tokens
    <2>3. /\ saved' \in [Requests -> 0 .. 2] /\ saved'[r] \in 0 .. 1
          /\ \A q \in Requests \ {r} : saved'[q] = saved[q]
        BY <1>1, <1>6, <2>1, CountIsOne DEF Shape
    <2> QED
        BY <1>1, <1>4, <2>1, <2>2, <2>3 DEF SaveInv
<1> QED
    BY <1>5, <1>6 DEF SubmitUnanswered

\* No listener survives a restart; a post under way may still save.
LEMMA RestartSaves ==
    ASSUME ConnectInv, Restart
    PROVE  /\ SaveInv' /\ hand' \in Hands
           /\ saved' \in [Requests -> 0 .. 2]
           /\ \A q \in Requests : saved[q] = 1 => saved'[q] = 1
<1>1. Shape /\ SaveInv /\ UNCHANGED token
    BY DEF ConnectInv, Restart
<1>2. hand' = [k \in Kinds |-> [r \in Requests |-> Idle]]
    BY DEF Restart
<1>3. Idle \in Cell /\ Idle.pc = "idle"
    BY DEF Idle, Cell, HandlerPcs, Outcomes
<1>4. hand' \in Hands
    BY <1>2, <1>3 DEF Hands
<1>5. \A q \in Requests : ~Saving(q)' /\ ~Told(q)'
    BY <1>2, <1>3 DEF Saving, Told, Kinds
<1>6. CASE UNCHANGED saved
    BY <1>1, <1>4, <1>5, <1>6 DEF SaveInv, Shape
<1>7. ASSUME NEW r \in Requests, At("callback", r, "save"), Count(r)
      PROVE  /\ SaveInv'
             /\ saved' \in [Requests -> 0 .. 2]
             /\ \A q \in Requests : saved[q] = 1 => saved'[q] = 1
    <2>1. saved[r] = 0 /\ token[r] = "consumed"
        BY <1>1, <1>7 DEF At, Saving, SaveInv
    <2>2. /\ saved' \in [Requests -> 0 .. 2] /\ saved'[r] = 1
          /\ \A q \in Requests \ {r} : saved'[q] = saved[q]
        BY <1>1, <1>7, <2>1, CountIsOne
    <2> QED
        BY <1>1, <1>5, <2>1, <2>2 DEF SaveInv
<1> QED
    BY <1>4, <1>6, <1>7 DEF Restart

-----------------------------------------------------------------------------
(* The panels.                                                             *)

\* The panels stay as they are: nothing their invariant needs may be undone.
LEMMA PanelKept ==
    ASSUME PanelInv, UNCHANGED panel,
           \A q \in Requests : saved[q] = 1 => saved'[q] = 1,
           \A q \in Requests : token[q] = "none" => token'[q] = "none"
    PROVE  PanelInv'
BY DEF PanelInv, Minting

\* A listener tells the panels its outcome.
LEMMA HeardTells ==
    ASSUME ConnectInv, UNCHANGED server, NEW r \in Requests, NEW outcome \in Outcomes,
           outcome = "ok" => saved[r] = 1, Heard(r, outcome)
    PROVE  PanelInv' /\ panel' \in [Panels -> Panel]
<1>1. Shape /\ SaveInv /\ PanelInv
    BY DEF ConnectInv
<1>2. \A p \in Panels :
          panel'[p] = IF Hears(p, r)
                      THEN [panel[p] EXCEPT !.pc = IF outcome = "ok" THEN "connected"
                                                   ELSE "failed"]
                      ELSE panel[p]
    BY DEF Heard
<1>3. \A p \in Panels : panel[p] \in Panel
    BY <1>1 DEF Shape
<1>4. \A p \in Panels :
          /\ panel'[p] \in Panel
          /\ panel'[p].req = panel[p].req
          /\ \/ panel'[p].pc = panel[p].pc
             \/ /\ panel[p].pc = "waiting" /\ panel'[p].pc \in {"connected", "failed"}
                /\ panel'[p].pc = "connected" => saved[panel[p].req] = 1
    BY <1>2, <1>3 DEF Hears, Panel, PanelPcs
<1>5. panel' \in [Panels -> Panel]
    BY <1>4 DEF Heard
<1>6. PanelInv'
    BY <1>1, <1>4 DEF PanelInv, Minting, server
<1> QED
    BY <1>5, <1>6

LEMMA NotifyTells ==
    ASSUME ConnectInv, NEW k \in Kinds, NEW r \in Requests, Notify(k, r)
    PROVE  PanelInv' /\ panel' \in [Panels -> Panel]
<1>1. Shape /\ SaveInv /\ UNCHANGED server /\ Heard(r, hand[k][r].outcome)
    BY DEF ConnectInv, Notify
<1>2. hand[k][r].outcome \in Outcomes
    BY <1>1 DEF Shape, Hands, Cell
<1>3. hand[k][r].outcome = "ok" => saved[r] = 1
    BY DEF ConnectInv, SaveInv, Told, Notify, At
<1> QED
    BY <1>1, <1>2, <1>3, HeardTells

LEMMA StorageFailureTells ==
    ASSUME ConnectInv, NEW k \in Kinds, NEW r \in Requests, StorageFails(k, r)
    PROVE  PanelInv' /\ panel' \in [Panels -> Panel]
<1>1. Shape /\ PanelInv /\ UNCHANGED server
    BY DEF ConnectInv, StorageFails
<1>2. CASE Heard(r, "failed")
    BY <1>1, <1>2, HeardTells DEF Outcomes
<1>3. CASE UNCHANGED panel
    BY <1>1, <1>3, PanelKept DEF server, Shape
<1> QED
    BY <1>2, <1>3 DEF StorageFails

\* What a panel does of its own: a listener starts, tokens come and go, none
\* is spent.
PanelStep(p) ==
    Mint(p) \/ MintFails(p) \/ PanelTimeout(p) \/ \E r \in Requests : Click(p, r)

LEMMA PanelIsPlain ==
    ASSUME ConnectInv, NEW p \in Panels, PanelStep(p)
    PROVE  Plain /\ TokensKept /\ UNCHANGED saved /\ token' \in [Requests -> Tokens]
<1>1. Shape /\ PanelInv
    BY DEF ConnectInv
<1>2. UNCHANGED saved
    BY DEF PanelStep, Mint, MintDelete, MintInsert, MintFails, PanelTimeout, Click, server
<1>3. Plain
    <2>1. CASE MintInsert(p)
        <3>1. panel[p].req \in Requests
            BY <1>1, <2>1 DEF PanelInv, MintInsert
        <3>2. Goto("start", panel[p].req, "create")
            BY <2>1 DEF MintInsert
        <3> QED
            BY <1>1, <3>1, <3>2, PlainGoto DEF Kinds, HandlerPcs
    <2>2. CASE ~MintInsert(p)
        <3>1. UNCHANGED hand
            BY <2>2 DEF PanelStep, Mint, MintDelete, MintFails, PanelTimeout, Click, extension
        <3> QED
            BY <1>1, <3>1, PlainStill
    <2> QED
        BY <2>1, <2>2
<1>4. CASE MintDelete(p)
    BY <1>1, <1>2, <1>3, <1>4 DEF MintDelete, Superseded, Shape, Tokens, TokensKept
<1>5. CASE MintInsert(p) \/ (panel[p].pc = "insert"
                             /\ token' = [token EXCEPT ![panel[p].req] = "live"])
    <2>1. panel[p].req \in Requests /\ token[panel[p].req] = "none"
        BY <1>1, <1>5 DEF PanelInv, Minting, MintInsert
    <2>2. token' = [token EXCEPT ![panel[p].req] = "live"]
        BY <1>5 DEF MintInsert
    <2> QED
        BY <1>1, <1>2, <1>3, <2>1, <2>2 DEF Shape, Tokens, TokensKept
<1>6. CASE UNCHANGED token
    BY <1>1, <1>2, <1>3, <1>6 DEF Shape, TokensKept
<1> QED
    BY <1>4, <1>5, <1>6 DEF PanelStep, Mint, MintFails, PanelTimeout, Click, server

LEMMA PanelStepKept ==
    ASSUME ConnectInv, NEW p \in Panels, PanelStep(p)
    PROVE  PanelInv' /\ panel' \in [Panels -> Panel]
<1>1. Shape /\ PanelInv /\ UNCHANGED saved
    BY PanelIsPlain DEF ConnectInv
<1>2. panel[p] \in Panel
    BY <1>1 DEF Shape
<1>3. ASSUME NEW r \in Requests, Click(p, r)
      PROVE  PanelInv' /\ panel' \in [Panels -> Panel]
    <2> DEFINE c == [pc |-> "delete", req |-> r]
    <2>1. c \in Panel /\ c.pc = "delete" /\ c.req = r
        BY DEF Panel, PanelPcs
    <2>2. panel' = [panel EXCEPT ![p] = c] /\ UNCHANGED token
        BY <1>3 DEF Click, server
    <2>3. token[r] = "none" /\ \A q \in Panels : panel[q].req # r
        BY <1>3 DEF Click, Unused
    <2> HIDE DEF c
    <2>4. /\ panel' \in [Panels -> Panel]
          /\ \A q \in Panels : panel'[q] = IF q = p THEN c ELSE panel[q]
        BY <1>1, <2>1, <2>2 DEF Shape
    <2> QED
        BY <1>1, <2>1, <2>2, <2>3, <2>4 DEF PanelInv, Minting
<1>4. ASSUME NEW label \in PanelPcs \ {"idle", "connected"},
             panel' = [panel EXCEPT ![p].pc = label], panel[p].pc # "idle",
             \/ UNCHANGED token /\ (label \in {"delete", "insert"} => Minting(p))
             \/ token' = Superseded /\ Minting(p)
             \/ /\ Minting(p) /\ label \notin {"delete", "insert"}
                /\ token' = [token EXCEPT ![panel[p].req] = "live"]
      PROVE  PanelInv' /\ panel' \in [Panels -> Panel]
    <2> DEFINE c == [panel[p] EXCEPT !.pc = label]
    <2>1. c \in Panel /\ c.pc = label /\ c.req = panel[p].req
        BY <1>2 DEF Panel
    <2>2. panel' = [panel EXCEPT ![p] = c]
        BY <1>4
    <2> HIDE DEF c
    <2>3. /\ panel' \in [Panels -> Panel]
          /\ \A q \in Panels : panel'[q] = IF q = p THEN c ELSE panel[q]
        BY <1>1, <2>1, <2>2 DEF Shape
    <2>4. panel[p].req \in Requests
        BY <1>1, <1>4 DEF PanelInv
    <2>5. \A q \in Panels : Minting(q)' => token'[panel[q].req] = "none"
        <3> SUFFICES ASSUME NEW q \in Panels, Minting(q)'
                     PROVE  token'[panel[q].req] = "none"
            OBVIOUS
        <3>1. Minting(q) /\ panel[q].pc # "idle"
            BY <1>4, <2>1, <2>3 DEF Minting
        <3>2. panel[q].req \in Requests /\ token[panel[q].req] = "none"
            BY <1>1, <3>1 DEF PanelInv
        <3>3. CASE UNCHANGED token
            BY <3>2, <3>3
        <3>4. CASE token' = Superseded
            BY <3>2, <3>4 DEF Superseded
        <3>5. CASE /\ label \notin {"delete", "insert"}
                   /\ token' = [token EXCEPT ![panel[p].req] = "live"]
            <4>1. q # p
                BY <2>1, <2>3, <3>5 DEF Minting
            <4>2. panel[q].req # panel[p].req
                BY <1>1, <1>4, <3>1, <4>1 DEF PanelInv
            <4> QED
                BY <1>1, <3>2, <3>5, <4>2 DEF Shape
        <3> QED
            BY <1>4, <3>3, <3>4, <3>5
    <2>6. \A q \in Panels : /\ panel'[q].req = panel[q].req
                            /\ panel'[q].pc # "idle" => panel[q].pc # "idle"
                            /\ panel'[q].pc = "connected" => panel[q].pc = "connected"
        BY <1>4, <2>1, <2>3
    <2>7. PanelInv'
        BY <1>1, <2>5, <2>6 DEF PanelInv
    <2> QED
        BY <2>3, <2>7
<1>5. CASE MintDelete(p)
    BY <1>4, <1>5 DEF MintDelete, Minting, PanelPcs
<1>6. CASE MintInsert(p)
    BY <1>4, <1>6 DEF MintInsert, Minting, PanelPcs
<1>7. CASE MintFails(p)
    BY <1>4, <1>7 DEF MintFails, Minting, PanelPcs
<1>8. CASE PanelTimeout(p)
    BY <1>4, <1>8 DEF PanelTimeout, PanelPcs, server
<1> QED
    BY <1>3, <1>5, <1>6, <1>7, <1>8 DEF PanelStep, Mint

-----------------------------------------------------------------------------
(* The theorems.                                                           *)

LEMMA JobsTyped ==
    ASSUME Shape, Next
    PROVE  jobs' \in SUBSET Requests
<1>1. \A k \in Kinds, r \in Requests : hand[k][r].snap \in SUBSET Requests
    BY SnapTyped
<1>2. "start" \in Kinds
    BY DEF Kinds
<1>3. ASSUME NEW r \in Requests, Write(r)
      PROVE  jobs' \in SUBSET Requests
    BY <1>1, <1>2, <1>3 DEF Write
<1>4. ASSUME NEW k \in Kinds, NEW r \in Requests, Drop(k, r)
      PROVE  jobs' \in SUBSET Requests
    BY <1>1, <1>4 DEF Drop, Remaining
<1>5. CASE UNCHANGED jobs
    BY <1>5 DEF Shape
<1> QED
    BY <1>3, <1>4, <1>5
    DEF Next, Mint, MintDelete, MintInsert, MintFails, PanelTimeout, Click, Work, World,
        Create, Read, Arm, Navigate, Capture, Submit, Save, Removed, Listener, Notify,
        CloseTab, Observe, UserCloses, Fire, SignIn, ExpireToken, SubmitUnanswered,
        Disarm, StorageFails, FireFails, Restart, extension

LEMMA ConnectInitially ==
    ASSUME Init
    PROVE  ConnectInv
<1>1. Idle \in Cell /\ Idle.pc = "idle"
    BY DEF Idle, Cell, HandlerPcs, Outcomes
<1>2. \A p \in Panels : panel[p].pc = "idle"
    BY DEF Init
<1>3. Shape
    BY <1>1 DEF Init, Shape, Tokens, Panel, PanelPcs, Hands
<1>4. SaveInv
    BY <1>1 DEF Init, SaveInv, Saving, Told, Kinds
<1>5. PanelInv
    BY <1>2 DEF PanelInv, Minting
<1> QED
    BY <1>3, <1>4, <1>5 DEF ConnectInv

LEMMA ConnectStep ==
    ASSUME ConnectInv, [Next]_vars
    PROVE  ConnectInv'
<1>1. Shape /\ SaveInv /\ PanelInv
    BY DEF ConnectInv
<1>2. CASE UNCHANGED vars
    BY <1>1, <1>2
    DEF vars, ConnectInv, Shape, SaveInv, PanelInv, Saving, Told, Minting
<1> SUFFICES ASSUME Next
             PROVE  ConnectInv'
    BY <1>2
<1>3. jobs' \in SUBSET Requests
    BY <1>1, JobsTyped
<1>4. ASSUME NEW r \in Requests, QuietWork(r)
      PROVE  ConnectInv'
    <2>1. Plain /\ UNCHANGED server
        BY <1>1, <1>4, QuietIsPlain
    <2>2. SaveInv' /\ hand' \in Hands
        BY <1>1, <2>1, SaveKept DEF TokensKept, server, Plain
    <2>3. PanelInv' /\ panel' \in [Panels -> Panel]
        <3>1. ASSUME NEW k \in Kinds, Notify(k, r)
              PROVE  PanelInv' /\ panel' \in [Panels -> Panel]
            BY <3>1, NotifyTells
        <3>2. ASSUME NEW k \in Kinds, StorageFails(k, r)
              PROVE  PanelInv' /\ panel' \in [Panels -> Panel]
            BY <3>2, StorageFailureTells
        <3>3. CASE UNCHANGED panel
            BY <1>1, <2>1, <3>3, PanelKept DEF server, Shape
        <3> QED
            BY <1>4, <3>1, <3>2, <3>3
            DEF QuietWork, Create, Read, Write, Arm, Navigate, Capture, Removed, Observe,
                UserCloses, Fire, FireFails, SignIn, Listener, Drop, Disarm, CloseTab
    <2> QED
        BY <1>1, <1>3, <2>1, <2>2, <2>3 DEF ConnectInv, Shape, server
<1>5. ASSUME NEW p \in Panels, PanelStep(p)
      PROVE  ConnectInv'
    <2>1. Plain /\ TokensKept /\ UNCHANGED saved /\ token' \in [Requests -> Tokens]
        BY <1>5, PanelIsPlain
    <2>2. SaveInv' /\ hand' \in Hands
        BY <1>1, <2>1, SaveKept DEF Plain
    <2>3. PanelInv' /\ panel' \in [Panels -> Panel]
        BY <1>5, PanelStepKept
    <2> QED
        BY <1>1, <1>3, <2>1, <2>2, <2>3 DEF ConnectInv, Shape
<1>6. ASSUME NEW r \in Requests, Submit(r)
      PROVE  ConnectInv'
    <2>1. SaveInv' /\ hand' \in Hands
        BY <1>6, SubmitSaves
    <2>2. UNCHANGED <<saved, panel>> /\ token' \in [Requests -> Tokens]
        BY <1>1, <1>6 DEF Submit, Shape, Tokens
    <2>3. \A q \in Requests : token[q] = "none" => token'[q] = "none"
        BY <1>1, <1>6 DEF Submit, Claimable, Shape
    <2>4. PanelInv'
        BY <1>1, <2>2, <2>3, PanelKept
    <2> QED
        BY <1>1, <1>3, <2>1, <2>2, <2>4 DEF ConnectInv, Shape
<1>7. ASSUME NEW r \in Requests, Save(r)
      PROVE  ConnectInv'
    <2>1. /\ SaveInv' /\ hand' \in Hands /\ saved' \in [Requests -> 0 .. 2]
          /\ \A q \in Requests : saved[q] = 1 => saved'[q] = 1
        BY <1>7, SaveCounts
    <2>2. UNCHANGED <<token, panel>>
        BY <1>7 DEF Save
    <2>3. PanelInv'
        BY <1>1, <2>1, <2>2, PanelKept
    <2> QED
        BY <1>1, <1>3, <2>1, <2>2, <2>3 DEF ConnectInv, Shape
<1>8. ASSUME NEW r \in Requests, SubmitUnanswered(r)
      PROVE  ConnectInv'
    <2>1. /\ SaveInv' /\ hand' \in Hands
          /\ token' \in [Requests -> Tokens] /\ saved' \in [Requests -> 0 .. 2]
          /\ \A q \in Requests : saved[q] = 1 => saved'[q] = 1
          /\ \A q \in Requests : token[q] = "none" => token'[q] = "none"
        BY <1>8, LostSubmit
    <2>2. UNCHANGED panel
        BY <1>8 DEF SubmitUnanswered
    <2>3. PanelInv'
        BY <1>1, <2>1, <2>2, PanelKept
    <2> QED
        BY <1>1, <1>3, <2>1, <2>2, <2>3 DEF ConnectInv, Shape
<1>9. CASE Restart
    <2>1. /\ SaveInv' /\ hand' \in Hands /\ saved' \in [Requests -> 0 .. 2]
          /\ \A q \in Requests : saved[q] = 1 => saved'[q] = 1
        BY <1>9, RestartSaves
    <2>2. UNCHANGED <<token, panel>>
        BY <1>9 DEF Restart
    <2>3. PanelInv'
        BY <1>1, <2>1, <2>2, PanelKept
    <2> QED
        BY <1>1, <1>3, <2>1, <2>2, <2>3 DEF ConnectInv, Shape
<1>10. ASSUME NEW r \in Requests, ExpireToken(r)
       PROVE  ConnectInv'
    <2>1. UNCHANGED <<saved, panel, hand>> /\ token' \in [Requests -> Tokens]
        BY <1>1, <1>10 DEF ExpireToken, extension, Shape, Tokens
    <2>2. TokensKept /\ \A q \in Requests : token[q] = "none" => token'[q] = "none"
        BY <1>1, <1>10 DEF ExpireToken, Shape, TokensKept
    <2>3. Plain
        BY <1>1, <2>1, PlainStill
    <2>4. SaveInv' /\ hand' \in Hands
        BY <1>1, <2>1, <2>2, <2>3, SaveKept DEF Plain
    <2>5. PanelInv'
        BY <1>1, <2>1, <2>2, PanelKept
    <2> QED
        BY <1>1, <1>3, <2>1, <2>4, <2>5 DEF ConnectInv, Shape
<1> QED
    BY <1>4, <1>5, <1>6, <1>7, <1>8, <1>9, <1>10
    DEF Next, Work, World, QuietWork, PanelStep

\* Tokens, sessions, listeners and panels stay in step through every action:
\* the inductive invariant the two theorems below rest on.
THEOREM ConnectInvariant == Spec => []ConnectInv
<1>1. Init => ConnectInv
    BY ConnectInitially
<1>2. ConnectInv /\ [Next]_vars => ConnectInv'
    BY ConnectStep
<1> QED
    BY <1>1, <1>2, PTL DEF Spec

\* However often the extension's worker is restarted, its posts are lost or
\* other panels mint, a capture token saves one session at most
\* (consumeCaptureToken() is one conditional update).
THEOREM SavesOnce == Spec => []TokenOnce
<1>1. ConnectInv => TokenOnce
    BY DEF ConnectInv, SaveInv, TokenOnce
<1> QED
    BY <1>1, ConnectInvariant, PTL

\* A panel says connected only of a request whose session is saved
\* (onExtensionMessage() takes the active request's result only).
THEOREM ConnectedMeansSaved == Spec => []ConnectedIsSaved
<1>1. ConnectInv => ConnectedIsSaved
    <2> SUFFICES ASSUME ConnectInv, NEW p \in Panels, panel[p].pc = "connected"
                 PROVE  saved[panel[p].req] > 0
        BY DEF ConnectedIsSaved
    <2>1. saved[panel[p].req] = 1
        BY DEF ConnectInv, PanelInv
    <2> QED
        BY <2>1
<1> QED
    BY <1>1, ConnectInvariant, PTL

-----------------------------------------------------------------------------
(* The types of what the sessions do not depend on.                        *)

Browser ==
    /\ alarm \in SUBSET Requests
    /\ busy \in SUBSET Requests
    /\ tab \in [Requests -> Tabs]
    /\ faults \in 0 .. MaxFaults

LEMMA BrowserTyped ==
    ASSUME MaxFaults \in Nat, Browser, [Next]_vars
    PROVE  Browser'
<1>1. CASE UNCHANGED vars
    BY <1>1 DEF vars, Browser
<1> SUFFICES ASSUME Next
             PROVE  Browser'
    BY <1>1
<1>2. Fault => faults' \in 0 .. MaxFaults
    <2>1. faults \in 0 .. MaxFaults
        BY DEF Browser
    <2>2. ASSUME Fault
          PROVE  faults < MaxFaults /\ faults' = faults + 1
        BY <2>2 DEF Fault
    <2> QED
        BY <2>1, <2>2
<1>3. ASSUME NEW p \in Panels, PanelStep(p)
      PROVE  Browser'
    <2>1. UNCHANGED <<alarm, busy, tab>> /\ (UNCHANGED faults \/ Fault)
        BY <1>3 DEF PanelStep, Mint, MintDelete, MintInsert, MintFails, PanelTimeout, Click,
                    extension
    <2> QED
        BY <1>2, <2>1 DEF Browser
<1>4. ASSUME NEW r \in Requests, Work(r) \/ World(r)
      PROVE  Browser'
    <2>1. UNCHANGED faults \/ Fault
        BY <1>4 DEF Work, World, Create, Read, Write, Arm, Navigate, Capture, Submit, Save,
                    Removed, Listener, Drop, Notify, CloseTab, Observe, UserCloses, Fire,
                    SignIn, ExpireToken, SubmitUnanswered,
                    Disarm, StorageFails, FireFails, extension
    <2>2. alarm' \in SUBSET Requests
        BY <1>4 DEF Browser, Work, World, Create, Read, Write, Arm, Navigate, Capture, Submit,
                    Save, Removed, Listener, Drop, Notify, CloseTab, Observe, UserCloses,
                    Fire, SignIn, ExpireToken, SubmitUnanswered,
                    Disarm, StorageFails, FireFails, extension
    <2>3. busy' \in SUBSET Requests
        BY <1>4 DEF Browser, Work, World, Create, Read, Write, Arm, Navigate, Capture, Submit,
                    Save, Removed, Listener, Drop, Notify, CloseTab, Observe, UserCloses,
                    Fire, SignIn, ExpireToken, SubmitUnanswered,
                    Disarm, StorageFails, FireFails, extension
    <2>4. \/ UNCHANGED tab
          \/ \E t \in Tabs : tab' = [tab EXCEPT ![r] = t]
        BY <1>4 DEF Tabs, Ends, Work, World, Create, Read, Write, Arm, Navigate, Capture,
                    Submit, Save, Removed, Listener, Drop, Notify, CloseTab, Observe,
                    UserCloses, Fire, SignIn, ExpireToken, SubmitUnanswered,
                    Disarm, StorageFails, FireFails, extension
    <2> QED
        BY <1>2, <2>1, <2>2, <2>3, <2>4 DEF Browser
<1>5. CASE Restart
    BY <1>2, <1>5 DEF Restart, Browser
<1> QED
    BY <1>3, <1>4, <1>5 DEF Next, PanelStep

\* The types of the server's rows, the panels, the stored jobs, the tabs and
\* the listeners, and the bound on faults.
THEOREM ConnectTypeCorrect ==
    ASSUME MaxFaults \in Nat
    PROVE  Spec => []TypeOK
<1>1. Init => Browser
    BY DEF Init, Browser, Tabs
<1>2. Browser /\ [Next]_vars => Browser'
    BY BrowserTyped
<1>3. ConnectInv /\ Browser => TypeOK
    BY DEF ConnectInv, Shape, Browser, TypeOK, Panel, Hands, Cell
<1> QED
    BY <1>1, <1>2, <1>3, ConnectInvariant, PTL DEF Spec

-----------------------------------------------------------------------------
(* One panel's requests follow one another.                                *)

\* A panel about to insert its token has deleted the others.
OneLive ==
    /\ \A p \in Panels : panel[p].pc = "insert" => \A r \in Requests : token[r] # "live"
    /\ \A q, r \in Requests : token[q] = "live" /\ token[r] = "live" => q = r

OnePanel == \A p, q \in Panels : p = q

\* Only a panel makes a token live or gets to the insert.
LEMMA OneLiveKept ==
    ASSUME OneLive,
           \A r \in Requests : token'[r] = "live" => token[r] = "live",
           \A p \in Panels : panel'[p].pc = "insert" => panel[p].pc = "insert"
    PROVE  OneLive'
BY DEF OneLive

LEMMA OneLiveStep ==
    ASSUME OnePanel, ConnectInv, OneLive, [Next]_vars
    PROVE  OneLive'
<1>1. Shape /\ PanelInv
    BY DEF ConnectInv
<1>2. CASE UNCHANGED vars
    BY <1>2 DEF vars, OneLive
<1>3. ASSUME NEW r \in Requests, Work(r) \/ World(r)
      PROVE  OneLive'
    <2>1. \A q \in Requests : token'[q] = "live" => token[q] = "live"
        <3>1. \/ UNCHANGED token
              \/ token' = [token EXCEPT ![r] = "consumed"]
              \/ token' = [token EXCEPT ![r] = "expired"]
            BY <1>3 DEF Work, World, Create, Read, Write, Arm, Navigate, Capture, Submit,
                        Save, Removed, Listener, Drop, Notify, CloseTab, Observe, UserCloses,
                        Fire, SignIn, ExpireToken, SubmitUnanswered, Disarm,
                        StorageFails, FireFails, server
        <3> QED
            BY <1>1, <3>1 DEF Shape
    <2>2. \A p \in Panels : panel'[p].pc = "insert" => panel[p].pc = "insert"
        <3>1. ASSUME NEW outcome, Heard(r, outcome)
              PROVE  \A p \in Panels : panel'[p].pc = "insert" => panel[p].pc = "insert"
            <4>1. \A p \in Panels : panel[p] \in Panel
                BY <1>1 DEF Shape
            <4>2. \A p \in Panels :
                      panel'[p] = IF Hears(p, r)
                                  THEN [panel[p] EXCEPT
                                           !.pc = IF outcome = "ok"
                                                  THEN "connected" ELSE "failed"]
                                  ELSE panel[p]
                BY <3>1 DEF Heard
            <4> QED
                BY <4>1, <4>2 DEF Panel
        <3>2. UNCHANGED panel \/ \E outcome : Heard(r, outcome)
            BY <1>3 DEF Work, World, Create, Read, Write, Arm, Navigate, Capture, Submit,
                        Save, Removed, Listener, Drop, Disarm, Notify, CloseTab, Observe,
                        UserCloses, Fire, FireFails, StorageFails, SignIn, ExpireToken,
                        SubmitUnanswered
        <3> QED
            BY <3>1, <3>2
    <2> QED
        BY <2>1, <2>2, OneLiveKept
<1>4. ASSUME NEW p \in Panels, PanelStep(p)
      PROVE  OneLive'
    <2>1. panel[p] \in Panel /\ \A q \in Panels : q = p
        BY <1>1 DEF Shape, OnePanel
    <2>2. CASE MintDelete(p)
        BY <1>1, <2>2 DEF MintDelete, Superseded, Shape, OneLive
    <2>3. CASE MintInsert(p) \/ MintFails(p)
        <3>1. panel[p].req \in Requests /\ panel'[p].pc # "insert"
            <4>1. panel[p].pc \in {"delete", "insert"}
                BY <2>3 DEF MintInsert, MintFails
            <4>2. \E label \in {"waiting", "failed"} : panel' = [panel EXCEPT ![p].pc = label]
                BY <2>3 DEF MintInsert, MintFails
            <4>3. panel[p].req \in Requests
                BY <1>1, <4>1 DEF PanelInv
            <4> QED
                BY <1>1, <2>1, <4>2, <4>3 DEF Shape, Panel
        <3>2. CASE UNCHANGED token
            BY <2>1, <3>1, <3>2 DEF OneLive
        <3>3. CASE /\ panel[p].pc = "insert"
                   /\ token' = [token EXCEPT ![panel[p].req] = "live"]
            BY <1>1, <2>1, <3>1, <3>3 DEF OneLive, Shape
        <3> QED
            BY <2>3, <3>2, <3>3 DEF MintInsert, MintFails
    <2>4. CASE PanelTimeout(p) \/ \E r \in Requests : Click(p, r)
        <3>1. UNCHANGED token
            BY <2>4 DEF PanelTimeout, Click, server
        <3>2. panel'[p].pc # "insert"
            <4>1. CASE PanelTimeout(p)
                BY <1>1, <2>1, <4>1 DEF PanelTimeout, Shape, Panel
            <4>2. ASSUME NEW r \in Requests, Click(p, r)
                  PROVE  panel'[p].pc # "insert"
                <5>1. panel' = [panel EXCEPT ![p] = [pc |-> "delete", req |-> r]]
                    BY <4>2 DEF Click
                <5>2. panel'[p] = [pc |-> "delete", req |-> r]
                    BY <1>1, <5>1 DEF Shape
                <5> QED
                    BY <5>2
            <4> QED
                BY <2>4, <4>1, <4>2
        <3> QED
            BY <2>1, <3>1, <3>2 DEF OneLive
    <2> QED
        BY <1>4, <2>2, <2>3, <2>4 DEF PanelStep, Mint
<1>5. CASE Restart
    BY <1>5, OneLiveKept DEF Restart
<1> QED
    BY <1>2, <1>3, <1>4, <1>5 DEF Next, PanelStep

\* However many requests one panel makes, and whenever they fail, expire or
\* are answered, one capture token is live at most (mintCaptureToken() deletes
\* what came before).
THEOREM OnePanelOneToken ==
    ASSUME OnePanel
    PROVE  Spec => []OneLiveToken
<1>1. Init => OneLive
    BY DEF Init, OneLive
<1>2. ConnectInv /\ OneLive /\ [Next]_vars => OneLive'
    BY OneLiveStep
<1>3. OneLive => OneLiveToken
    <2> SUFFICES ASSUME OneLive
                 PROVE  Cardinality({r \in Requests : token[r] = "live"}) <= 1
        BY DEF OneLiveToken
    <2> DEFINE S == {r \in Requests : token[r] = "live"}
    <2>1. CASE S = {}
        BY <2>1, FS_EmptySet
    <2>2. CASE S # {}
        <3>1. PICK r : r \in S
            BY <2>2
        <3>2. S = {r}
            BY <3>1 DEF OneLive
        <3> QED
            BY <3>2, FS_Singleton
    <2> QED
        BY <2>1, <2>2
<1> QED
    BY <1>1, <1>2, <1>3, ConnectInvariant, PTL DEF Spec

-----------------------------------------------------------------------------
(* One request's job: as long as its table holds it and no call failed,    *)
(* something is left that will remove it.                                  *)

\* Only the listener that starts the job has been at work for it.
Untouched(r) ==
    /\ tab[r] = "none" /\ r \notin jobs /\ r \notin alarm
    /\ \A k \in Kinds \ {"start"} : hand[k][r].pc = "idle"

Attended(r) ==
    /\ token[r] = "none" => Untouched(r) /\ hand["start"][r].pc = "idle"
    /\ hand["start"][r].pc = "create" => Untouched(r)
    /\ tab[r] # "closed" => hand["removed"][r].pc = "idle"
    /\ hand["callback"][r].pc # "idle" => r \in busy
    /\ r \in jobs => \/ r \in alarm \/ hand["start"][r].pc = "arm"
                     \/ \E k \in Kinds : hand[k][r].pc = "drop"
    /\ hand["start"][r].pc \in {"read", "write"} =>
          /\ r \notin jobs
          /\ \A k \in Kinds \ {"start"} : hand[k][r].pc \in {"idle", "find"}
    /\ \A k \in Kinds : hand[k][r].pc = "disarm" => r \notin jobs

AttendedInv == faults = 0 => \A r \in Requests : Attended(r)

OneRequest == \A q, r \in Requests : q = r

\* Where the listeners are after one of them moved.
PcIs(k, r, label) ==
    \A l \in Kinds : hand'[l][r].pc = IF l = k THEN label ELSE hand[l][r].pc

LEMMA PcOfCell ==
    ASSUME Shape, NEW k \in Kinds, NEW r \in Requests, NEW c \in Cell,
           hand' = [hand EXCEPT ![k][r] = c]
    PROVE  PcIs(k, r, c.pc)
<1>1. \A l \in Kinds, q \in Requests :
          hand'[l][q] = IF l = k /\ q = r THEN c ELSE hand[l][q]
    BY CellSet DEF Shape
<1> QED
    BY <1>1 DEF PcIs

LEMMA PcOfGoto ==
    ASSUME Shape, NEW k \in Kinds, NEW r \in Requests, NEW label \in HandlerPcs,
           Goto(k, r, label)
    PROVE  PcIs(k, r, label)
<1>1. \A l \in Kinds, q \in Requests :
          hand'[l][q].pc = IF l = k /\ q = r THEN label ELSE hand[l][q].pc
    BY PcSet DEF Shape, Goto
<1> QED
    BY <1>1 DEF PcIs

LEMMA PcOfEnd ==
    ASSUME Shape, NEW k \in Kinds, NEW r \in Requests, End(k, r)
    PROVE  PcIs(k, r, "idle")
<1>1. Idle \in Cell /\ Idle.pc = "idle"
    BY DEF Idle, Cell, HandlerPcs, Outcomes
<1> HIDE DEF Idle
<1> QED
    BY <1>1, PcOfCell DEF End

LEMMA PcOfFinish ==
    ASSUME Shape, NEW k \in Kinds, NEW r \in Requests, NEW snap \in SUBSET Requests,
           NEW outcome \in Outcomes, Finish(k, r, outcome, snap)
    PROVE  PcIs(k, r, "drop")
<1> DEFINE c == [pc |-> "drop", snap |-> snap, outcome |-> outcome]
<1>1. c \in Cell /\ c.pc = "drop"
    BY DEF Cell, HandlerPcs
<1>2. hand' = [hand EXCEPT ![k][r] = c]
    BY DEF Finish
<1> HIDE DEF c
<1> QED
    BY <1>1, <1>2, PcOfCell

LEMMA PcOfSnap ==
    ASSUME Shape, NEW k \in Kinds, NEW r \in Requests, NEW label \in HandlerPcs,
           NEW snap \in SUBSET Requests,
           hand' = [hand EXCEPT ![k][r].pc = label, ![k][r].snap = snap]
    PROVE  PcIs(k, r, label)
<1> DEFINE c == [hand[k][r] EXCEPT !.pc = label, !.snap = snap]
<1>1. hand[k][r] \in Cell
    BY DEF Shape, Hands
<1>2. c \in Cell /\ c.pc = label
    BY <1>1 DEF Cell
<1>3. hand' = [hand EXCEPT ![k][r] = c]
    OBVIOUS
<1> HIDE DEF c
<1> QED
    BY <1>2, <1>3, PcOfCell

LEMMA PcOfFailure ==
    ASSUME Shape, NEW k \in Kinds, NEW r \in Requests,
           hand' = [hand EXCEPT ![k][r].pc = "notify", ![k][r].outcome = "failed"]
    PROVE  PcIs(k, r, "notify")
<1> DEFINE c == [hand[k][r] EXCEPT !.pc = "notify", !.outcome = "failed"]
<1>1. hand[k][r] \in Cell
    BY DEF Shape, Hands
<1>2. c \in Cell /\ c.pc = "notify"
    BY <1>1 DEF Cell, HandlerPcs, Outcomes
<1>3. hand' = [hand EXCEPT ![k][r] = c]
    OBVIOUS
<1> HIDE DEF c
<1> QED
    BY <1>2, <1>3, PcOfCell

\* A tab that closes wakes its listener.
LEMMA PcOfClosed ==
    ASSUME NEW r \in Requests, NEW h \in Hands, hand' = Closed(h, r)
    PROVE  \A l \in Kinds :
              hand'[l][r].pc = IF l = "removed" /\ tab[r] # "closed" THEN "find"
                               ELSE h[l][r].pc
<1>1. "find" \in HandlerPcs /\ "removed" \in Kinds
    BY DEF HandlerPcs, Kinds
<1>2. CASE tab[r] = "closed"
    BY <1>2 DEF Closed
<1>3. CASE tab[r] # "closed"
    <2>1. hand' = Moved(h, "removed", r, "find")
        BY <1>3 DEF Closed
    <2>2. \A l \in Kinds, q \in Requests :
              hand'[l][q].pc = IF l = "removed" /\ q = r THEN "find" ELSE h[l][q].pc
        BY <1>1, <2>1, PcSet
    <2> QED
        BY <1>3, <2>2
<1> QED
    BY <1>2, <1>3

\* What the worker does with the job.
LEMMA WorkAttends ==
    ASSUME OneRequest, ConnectInv, Browser, NEW r \in Requests, Attended(r), Work(r)
    PROVE  Attended(r)'
<1>0. Shape /\ SaveInv
    BY DEF ConnectInv
<1>1. /\ hand \in Hands /\ jobs \in SUBSET Requests /\ tab[r] \in Tabs
      /\ \A k \in Kinds : hand[k][r].snap \in SUBSET Requests
      /\ \A k \in Kinds : hand[k][r] \in Cell
    BY <1>0, SnapTyped DEF Shape, Browser, Hands
<1>2. /\ Kinds = {"start", "callback", "removed", "alarm"}
      /\ {"create", "read", "write", "arm", "navigate", "find", "capture", "submit",
          "save", "drop", "disarm", "notify", "close", "idle"} \subseteq HandlerPcs
      /\ Outcomes = {"ok", "failed"}
    BY DEF Kinds, HandlerPcs, Outcomes
<1>3. CASE Create(r)
    <2>1. hand["start"][r].pc = "create" /\ UNCHANGED <<token, jobs, alarm, busy>>
        BY <1>3 DEF Create, At, server
    <2>2. \/ tab'[r] = "blank" /\ PcIs("start", r, "read")
          \/ tab'[r] = tab[r] /\ PcIs("start", r, "notify")
        <3>1. CASE Goto("start", r, "read") /\ tab' = [tab EXCEPT ![r] = "blank"]
            BY <1>0, <1>2, <3>1, PcOfGoto DEF Browser
        <3>2. CASE ~(Goto("start", r, "read") /\ tab' = [tab EXCEPT ![r] = "blank"])
            BY <1>0, <1>2, <1>3, <3>2, PcOfFailure DEF Create
        <3> QED
            BY <3>1, <3>2
    <2> QED
        BY <1>2, <2>1, <2>2 DEF Attended, Untouched, PcIs
<1>4. CASE Read(r)
    <2>1. PcIs("start", r, "write")
        <3>1. jobs \cup {r} \in SUBSET Requests
            BY <1>1
        <3> QED
            BY <1>0, <1>2, <1>4, <3>1, PcOfSnap DEF Read
    <2>2. hand["start"][r].pc = "read" /\ UNCHANGED <<token, jobs, alarm, busy, tab>>
        BY <1>4 DEF Read, At, server
    <2> QED
        BY <1>2, <2>1, <2>2 DEF Attended, Untouched, PcIs
<1>5. CASE Write(r)
    <2>1. PcIs("start", r, "arm")
        BY <1>0, <1>2, <1>5, PcOfGoto DEF Write
    <2>2. hand["start"][r].pc = "write" /\ UNCHANGED <<token, alarm, busy, tab>>
        BY <1>5 DEF Write, At, server
    <2> QED
        BY <1>2, <2>1, <2>2 DEF Attended, Untouched, PcIs
<1>6. CASE Arm(r)
    <2>1. PcIs("start", r, "navigate")
        BY <1>0, <1>2, <1>6, PcOfGoto DEF Arm
    <2>2. /\ hand["start"][r].pc = "arm" /\ UNCHANGED <<token, jobs, busy, tab>>
          /\ r \in alarm'
        BY <1>6 DEF Arm, At, server
    <2> QED
        BY <1>2, <2>1, <2>2 DEF Attended, Untouched, PcIs
<1>7. CASE Navigate(r)
    <2>1. PcIs("start", r, "idle") \/ PcIs("start", r, "drop")
        BY <1>0, <1>1, <1>2, <1>7, PcOfEnd, PcOfFinish DEF Navigate
    <2>2. /\ hand["start"][r].pc = "navigate" /\ UNCHANGED <<token, jobs, alarm, busy>>
          /\ tab'[r] = tab[r] \/ (tab[r] = "blank" /\ tab'[r] = "riot")
        BY <1>7 DEF Navigate, At, server, Browser
    <2> QED
        BY <1>2, <2>1, <2>2 DEF Attended, Untouched, PcIs
<1>8. CASE Capture(r) \/ Submit(r) \/ Save(r)
    <2>1. \E label \in {"submit", "save", "drop"} : PcIs("callback", r, label)
        <3>1. CASE Capture(r)
            BY <1>0, <1>1, <1>2, <3>1, PcOfGoto, PcOfFinish DEF Capture
        <3>2. CASE Submit(r)
            BY <1>0, <1>1, <1>2, <3>2, PcOfGoto, PcOfFinish DEF Submit
        <3>3. CASE Save(r)
            BY <1>0, <1>1, <1>2, <3>3, PcOfFinish DEF Save
        <3> QED
            BY <1>8, <3>1, <3>2, <3>3
    <2>2. /\ hand["callback"][r].pc \in {"capture", "submit", "save"}
          /\ UNCHANGED <<jobs, alarm, busy, tab>>
          /\ token'[r] = "none" => token[r] = "none"
        BY <1>0, <1>8 DEF Capture, Submit, Save, At, server, Shape
    <2> QED
        BY <1>2, <2>1, <2>2 DEF Attended, Untouched, PcIs
<1>9. CASE Removed(r)
    <2>1. PcIs("removed", r, "idle") \/ (PcIs("removed", r, "drop") /\ r \in jobs)
        BY <1>0, <1>1, <1>2, <1>9, PcOfEnd, PcOfFinish DEF Removed, Found
    <2>2. hand["removed"][r].pc = "find" /\ UNCHANGED <<token, jobs, alarm, busy, tab>>
        BY <1>9 DEF Removed, At, server
    <2> QED
        BY <1>2, <2>1, <2>2 DEF Attended, Untouched, PcIs
<1>10. ASSUME NEW k \in Kinds, Drop(k, r)
       PROVE  Attended(r)'
    <2>1. PcIs(k, r, "disarm")
        <3>1. {} \in SUBSET Requests
            OBVIOUS
        <3> QED
            BY <1>0, <1>2, <1>10, <3>1, PcOfSnap DEF Drop
    <2>2. hand[k][r].pc = "drop" /\ UNCHANGED <<token, alarm, busy, tab>>
        BY <1>10 DEF Drop, At, server
    <2>3. r \notin jobs'
        BY <1>10 DEF Drop, Remaining
    <2> QED
        BY <1>2, <2>1, <2>2, <2>3 DEF Attended, Untouched, PcIs
<1>11. ASSUME NEW k \in Kinds, Notify(k, r)
       PROVE  Attended(r)'
    <2>1. PcIs(k, r, "idle") \/ PcIs(k, r, "close")
        BY <1>0, <1>2, <1>11, PcOfEnd, PcOfGoto DEF Notify
    <2>2. hand[k][r].pc = "notify" /\ UNCHANGED <<token, jobs, alarm, busy, tab>>
        BY <1>11 DEF Notify, At, server
    <2> QED
        BY <1>2, <2>1, <2>2 DEF Attended, Untouched, PcIs
<1>12. ASSUME NEW k \in Kinds, CloseTab(k, r)
       PROVE  Attended(r)'
    <2> DEFINE h == [hand EXCEPT ![k][r] = Idle]
    <2>1. /\ h \in Hands
          /\ \A l \in Kinds : h[l][r].pc = IF l = k THEN "idle" ELSE hand[l][r].pc
        <3>1. Idle \in Cell /\ Idle.pc = "idle"
            BY DEF Idle, Cell, HandlerPcs, Outcomes
        <3> HIDE DEF Idle
        <3> QED
            BY <1>1, <3>1, CellSet
    <2>2. hand' = Closed(h, r)
        BY <1>12 DEF CloseTab
    <2> HIDE DEF h
    <2>3. \A l \in Kinds :
              hand'[l][r].pc = IF l = "removed" /\ tab[r] # "closed" THEN "find"
                               ELSE IF l = k THEN "idle" ELSE hand[l][r].pc
        BY <2>1, <2>2, PcOfClosed
    <2>4. /\ hand[k][r].pc = "close" /\ UNCHANGED <<token, jobs, alarm>>
          /\ tab'[r] = "closed"
          /\ r \in busy /\ k # "callback" => r \in busy'
        BY <1>12 DEF CloseTab, At, server, Browser
    <2> QED
        BY <1>2, <2>3, <2>4 DEF Attended, Untouched
<1>13. ASSUME NEW k \in Kinds, Disarm(k, r)
       PROVE  Attended(r)'
    <2>1. PcIs(k, r, "notify")
        BY <1>0, <1>2, <1>13, PcOfGoto DEF Disarm
    <2>2. hand[k][r].pc = "disarm" /\ UNCHANGED <<token, jobs, busy, tab>>
        BY <1>13 DEF Disarm, At, server
    <2>3. r \notin jobs /\ r \notin alarm'
        BY <1>13, <2>2 DEF Disarm, Attended
    <2> QED
        BY <1>2, <2>1, <2>2, <2>3 DEF Attended, Untouched, PcIs
<1> QED
    BY <1>3, <1>4, <1>5, <1>6, <1>7, <1>8, <1>9, <1>10, <1>11, <1>12, <1>13
    DEF Work, Listener

\* What the world does to it, while no call is lost.
LEMMA WorldAttends ==
    ASSUME ConnectInv, Browser, NEW r \in Requests, Attended(r),
           World(r), ~Fault
    PROVE  Attended(r)'
<1>0. Shape /\ SaveInv
    BY DEF ConnectInv
<1>1. /\ hand \in Hands /\ jobs \in SUBSET Requests /\ tab[r] \in Tabs
      /\ \A k \in Kinds : hand[k][r].snap \in SUBSET Requests
    BY <1>0, SnapTyped DEF Shape, Browser
<1>2. /\ Kinds = {"start", "callback", "removed", "alarm"}
      /\ {"capture", "drop", "idle"} \subseteq HandlerPcs
      /\ Outcomes = {"ok", "failed"}
    BY DEF Kinds, HandlerPcs, Outcomes
<1>3. CASE Observe(r)
    <2>1. PcIs("callback", r, "drop") \/ PcIs("callback", r, "capture")
        BY <1>0, <1>1, <1>2, <1>3, PcOfFinish, PcOfSnap DEF Observe
    <2>2. /\ tab[r] # "none" /\ r \notin busy /\ r \in busy' /\ r \in jobs
          /\ UNCHANGED <<token, jobs, alarm, tab>>
        BY <1>3 DEF Observe, server
    <2> QED
        BY <1>2, <2>1, <2>2 DEF Attended, Untouched, PcIs
<1>4. CASE UserCloses(r)
    <2>1. \A l \in Kinds :
              hand'[l][r].pc = IF l = "removed" /\ tab[r] # "closed" THEN "find"
                               ELSE hand[l][r].pc
        BY <1>1, <1>4, PcOfClosed DEF UserCloses
    <2>2. tab[r] \notin {"none", "closed"} /\ tab'[r] = "closed"
        BY <1>4 DEF UserCloses, Browser
    <2>3. UNCHANGED <<token, jobs, alarm, busy>>
        BY <1>4 DEF UserCloses, server
    <2> QED
        BY <1>2, <2>1, <2>2, <2>3 DEF Attended, Untouched
<1>5. CASE Fire(r)
    <2>1. PcIs("alarm", r, IF r \in jobs THEN "drop" ELSE "idle")
        BY <1>0, <1>1, <1>2, <1>5, PcOfFinish, PcOfEnd DEF Fire, Found
    <2>2. r \in alarm /\ hand["alarm"][r].pc = "idle"
        BY <1>5 DEF Fire, At
    <2>3. UNCHANGED <<token, jobs, busy, tab>>
        BY <1>5 DEF Fire, server
    <2> QED
        BY <1>2, <2>1, <2>2, <2>3 DEF Attended, Untouched, PcIs
<1>6. CASE SignIn(r) \/ ExpireToken(r)
    <2>1. /\ UNCHANGED <<jobs, alarm, busy, hand>>
          /\ token'[r] = "none" => token[r] = "none"
        BY <1>0, <1>6 DEF SignIn, ExpireToken, server, extension, Shape
    <2>2. tab'[r] = tab[r] \/ (tab[r] = "riot" /\ tab'[r] # "closed")
        BY <1>6 DEF SignIn, ExpireToken, extension, Browser, Ends
    <2> QED
        BY <1>2, <2>1, <2>2 DEF Attended, Untouched
<1> QED
    BY <1>3, <1>4, <1>5, <1>6 DEF World, SubmitUnanswered, FireFails, StorageFails

\* A panel mints for a request nothing has been done for.
LEMMA PanelAttends ==
    ASSUME OneRequest, ConnectInv, NEW r \in Requests, Attended(r),
           NEW p \in Panels, PanelStep(p), ~MintFails(p)
    PROVE  Attended(r)'
<1>0. Shape /\ PanelInv
    BY DEF ConnectInv
<1>1. /\ Kinds = {"start", "callback", "removed", "alarm"}
      /\ "create" \in HandlerPcs
    BY DEF Kinds, HandlerPcs
<1>2. CASE MintInsert(p)
    <2>1. panel[p].req = r /\ token[r] = "none"
        BY <1>0, <1>2 DEF OneRequest, MintInsert, PanelInv, Minting
    <2>2. PcIs("start", r, "create")
        BY <1>0, <1>1, <1>2, <2>1, PcOfGoto DEF MintInsert
    <2>3. token'[r] = "live" /\ UNCHANGED <<jobs, alarm, busy, tab>>
        BY <1>0, <1>2, <2>1 DEF MintInsert, Shape
    <2> QED
        BY <1>1, <2>1, <2>2, <2>3 DEF Attended, Untouched, PcIs
<1>3. CASE ~MintInsert(p)
    <2>1. UNCHANGED extension
        BY <1>3 DEF PanelStep, Mint, MintDelete, PanelTimeout, Click
    <2>2. token'[r] = "none" => token[r] = "none"
        BY <1>0, <1>3 DEF PanelStep, Mint, MintDelete, PanelTimeout, Click, Superseded,
                          server, Shape
    <2> QED
        BY <1>1, <2>1, <2>2 DEF Attended, Untouched, extension
<1> QED
    BY <1>2, <1>3

LEMMA AttendedStep ==
    ASSUME OneRequest, ConnectInv, Browser, AttendedInv, [Next]_vars
    PROVE  AttendedInv'
<1> SUFFICES ASSUME faults' = 0, NEW r \in Requests
             PROVE  Attended(r)'
    BY DEF AttendedInv
<1>1. faults \in Nat
    BY DEF Browser
<1>2. ~Fault /\ UNCHANGED faults
    <2>1. ~Fault
        BY <1>1 DEF Fault
    <2>2. UNCHANGED faults
        BY <2>1 DEF Next, vars, Mint, MintDelete, MintInsert, MintFails, PanelTimeout, Click,
                    Work, World, Create, Read, Write, Arm, Navigate, Capture, Submit, Save,
                    Removed, Listener, Drop, Notify, CloseTab, Observe, UserCloses, Fire,
                    SignIn, ExpireToken, SubmitUnanswered, Disarm, StorageFails, FireFails,
                    Restart
    <2> QED
        BY <2>1, <2>2
<1>3. Attended(r)
    BY <1>2 DEF AttendedInv
<1>4. CASE UNCHANGED vars
    BY <1>3, <1>4 DEF vars, Attended, Untouched
<1>5. ASSUME NEW q \in Requests, Work(q) \/ World(q)
      PROVE  Attended(r)'
    <2>1. q = r /\ ~Fault
        BY <1>2 DEF OneRequest
    <2> QED
        BY <1>3, <1>5, <2>1, WorkAttends, WorldAttends
<1>6. ASSUME NEW p \in Panels, PanelStep(p)
      PROVE  Attended(r)'
    <2>1. ~MintFails(p)
        BY <1>2 DEF MintFails
    <2> QED
        BY <1>3, <1>6, <2>1, PanelAttends
<1>7. ~Restart
    BY <1>2 DEF Restart
<1> QED
    BY <1>4, <1>5, <1>6, <1>7 DEF Next, PanelStep

\* As long as no call fails and the worker is not stopped, whatever the user
\* does with the tab and whenever the alarm fires, the stored job of a single
\* request has its tab, its alarm or a listener at work (finishJob() of the
\* four listeners).
THEOREM OneRequestIsAttended ==
    ASSUME OneRequest, MaxFaults \in Nat
    PROVE  Spec => []TransientStateRemoved
<1>1. Init => Browser /\ AttendedInv
    <2>1. Idle.pc = "idle"
        BY DEF Idle
    <2> QED
        BY <2>1 DEF Init, Browser, Tabs, AttendedInv, Attended, Untouched, Kinds
<1>2. Browser /\ [Next]_vars => Browser'
    BY BrowserTyped
<1>3. ConnectInv /\ Browser /\ AttendedInv /\ [Next]_vars => AttendedInv'
    BY AttendedStep
<1>4. ConnectInv /\ AttendedInv => TransientStateRemoved
    <2> SUFFICES ASSUME AttendedInv, faults = 0, NEW r \in jobs, r \in Requests
                 PROVE  r \in alarm \/ \E k \in Kinds : hand[k][r].pc # "idle"
        BY DEF ConnectInv, Shape, TransientStateRemoved, At
    <2>1. Attended(r) /\ "start" \in Kinds
        BY DEF AttendedInv, Kinds
    <2> QED
        BY <2>1 DEF Attended
<1> QED
    BY <1>1, <1>2, <1>3, <1>4, ConnectInvariant, PTL DEF Spec
=============================================================================
