----------------------- MODULE CredentialConnectProofs -----------------------
(***************************************************************************)
(* What holds of connecting a Riot account from the web for every set of   *)
(* overlapping requests, however often calls fail and requests are cut     *)
(* off: a session is saved where the first screen aimed it, a connection   *)
(* keeps the Riot account it is bound to, and, while calls answer, a       *)
(* request says "connected" exactly when it saved.                         *)
(***************************************************************************)
EXTENDS CredentialConnect, TLAPS

\* The types the proofs rest on.
Shape ==
    /\ pending \in Challenge \cup {Null}
    /\ rows \in [{Main} \cup Calls -> Row \cup {Null}]
    /\ req \in [Calls -> Request]
    /\ wrote \in [Calls -> {Main, Null} \cup Calls]
    /\ spent \in SUBSET Calls
    /\ faults \in Nat

-----------------------------------------------------------------------------
(* What a request's record becomes.                                        *)

LEMMA GotoSets ==
    ASSUME NEW p \in Calls, NEW label, req \in [Calls -> Request], Goto(p, label),
           label \in {"idle", "crashed"} \cup Calling \cup Answers
    PROVE  /\ req' \in [Calls -> Request]
           /\ \A q \in Calls :
                 /\ req'[q].pc = IF q = p THEN label ELSE req[q].pc
                 /\ req'[q].account = req[q].account
                 /\ req'[q].target = req[q].target
                 /\ req'[q].root = req[q].root
                 /\ req'[q].jar = req[q].jar
                 /\ req'[q].puuid = req[q].puuid
<1> DEFINE c == [req[p] EXCEPT !.pc = label]
<1>1. req[p] \in Request
    OBVIOUS
<1>2. /\ c \in Request /\ c.pc = label
      /\ c.account = req[p].account /\ c.target = req[p].target
      /\ c.root = req[p].root /\ c.jar = req[p].jar /\ c.puuid = req[p].puuid
    BY <1>1 DEF Request
<1>3. req' = [req EXCEPT ![p] = c]
    BY DEF Goto
<1> HIDE DEF c
<1> QED
    BY <1>2, <1>3

\* The labels a step moves a request to.
LEMMA Labels ==
    /\ {"idle", "load", "drop", "code", "abandon", "resolve", "save", "clear",
        "fetch", "open", "password", "purge", "store", "connected", "prompted",
        "failed", "wrongCode", "expired", "crashed"}
          \subseteq {"idle", "crashed"} \cup Calling \cup Answers
    /\ Classified \subseteq Calling
    /\ \A l \in {"drop", "abandon", "clear"} : Cleared(l) \in {"expired", "failed", "fetch"}
    /\ Cleared("drop") = "expired" /\ Cleared("abandon") = "failed"
    /\ Cleared("clear") = "fetch"
BY DEF Calling, Answers, Classified, Cleared

\* SubmitCredentials and SubmitJar: a request that starts a chain.
Chooses(p, a, t, label) ==
    req' = [req EXCEPT ![p].pc = label, ![p].account = a,
                       ![p].target = t, ![p].root = p]

LEMMA Begins ==
    ASSUME NEW p \in Calls, NEW a \in Accounts, NEW t \in Targets, NEW label,
           req \in [Calls -> Request], label \in {"open", "resolve"},
           Chooses(p, a, t, label)
    PROVE  /\ req' \in [Calls -> Request]
           /\ req'[p].pc = label /\ req'[p].root = p
           /\ req'[p].account = a /\ req'[p].target = t
           /\ \A q \in Calls : q # p => req'[q] = req[q]
<1> DEFINE c == [req[p] EXCEPT !.pc = label, !.account = a, !.target = t, !.root = p]
<1>1. req[p] \in Request
    OBVIOUS
<1>2. c \in Request /\ c.pc = label /\ c.root = p /\ c.account = a /\ c.target = t
    BY <1>1, Labels DEF Request
<1>3. req' = [req EXCEPT ![p] = c]
    BY DEF Chooses
<1> HIDE DEF c
<1>4. req' \in [Calls -> Request]
    BY <1>2, <1>3
<1>5. req'[p] = c
    BY <1>3
<1>6. \A q \in Calls : q # p => req'[q] = req[q]
    BY <1>3
<1> QED
    BY <1>2, <1>4, <1>5, <1>6

\* Load: a code request takes over what the stored challenge remembers.
TakesOver(p) ==
    /\ req[p].pc = "load" /\ pending # Null
    /\ req' = [req EXCEPT ![p].pc = "code", ![p].jar = pending.id,
                          ![p].root = pending.root,
                          ![p].account = pending.account,
                          ![p].target = pending.target]

LEMMA Takes ==
    ASSUME NEW p \in Calls, Shape, TakesOver(p)
    PROVE  /\ req' \in [Calls -> Request]
           /\ req'[p].pc = "code" /\ req'[p].root = pending.root
           /\ req'[p].account = pending.account /\ req'[p].target = pending.target
           /\ req'[p].jar \in Calls
           /\ \A q \in Calls : q # p => req'[q] = req[q]
<1> DEFINE c == [req[p] EXCEPT !.pc = "code", !.jar = pending.id, !.root = pending.root,
                               !.account = pending.account, !.target = pending.target]
<1>1. req[p] \in Request
    BY DEF Shape
<1>2. pending \in Challenge
    BY DEF Shape, TakesOver
<1>3. /\ pending.id \in Calls /\ pending.root \in Calls /\ pending.account \in Accounts
      /\ pending.target \in Targets
    BY <1>2 DEF Challenge, Calls
<1>4. c \in Request /\ c.pc = "code" /\ c.root = pending.root
      /\ c.account = pending.account /\ c.target = pending.target
      /\ c.jar \in Calls
    BY <1>1, <1>3, Labels DEF Request
<1>5. req' = [req EXCEPT ![p] = c]
    BY DEF TakesOver
<1> HIDE DEF c
<1> QED
    BY <1>4, <1>5 DEF Shape

-----------------------------------------------------------------------------
(* The three things a request can do: start a chain, take over a stored    *)
(* challenge, or walk on with what it already holds.                       *)

\* Where a request holds what was chosen on the first screen.
Rooted == {"open", "password", "purge", "store", "code", "abandon", "resolve",
           "save", "clear", "fetch", "connected", "prompted", "wrongCode"}

\* Where a request answers, or may yet store, a challenge.
Chained == {"open", "password", "purge", "store", "code"}

\* Where a request may be once it has saved.
Later == {"clear", "fetch", "connected", "failed", "crashed"}

\* Where a request that has saved is while calls answer.
Held == {"clear", "fetch", "connected"}

Starts(p) ==
    /\ req[p].pc = "idle"
    /\ \E a \in Accounts, t \in Targets, label \in {"open", "resolve"} :
        /\ label = "open" => p \in Logins
        /\ Chooses(p, a, t, label)

Keeps == UNCHANGED <<rows, wrote>>
Writes(p, label) ==
    /\ req[p].pc = "save" /\ label \in {"clear", "fetch", "failed"}
    /\ Savable(p) /\ Write(p)

\* A request's place changes, and what it was asked does not.
Carries(p, label) ==
    /\ req' \in [Calls -> Request]
    /\ \A q \in Calls :
          /\ req'[q].pc = IF q = p THEN label ELSE req[q].pc
          /\ req'[q].account = req[q].account
          /\ req'[q].target = req[q].target
          /\ req'[q].root = req[q].root
          /\ req'[q].jar = req[q].jar

Walks(p, label) ==
    /\ Carries(p, label)
    /\ label \in Rooted \cup {"load", "drop", "expired", "failed", "crashed"}
    /\ label = "load" => req[p].pc = "idle"
    /\ label \in Rooted => req[p].pc \in Rooted
    /\ label \in Chained => req[p].pc \in Chained
    /\ label # "code"
    /\ req[p].pc \in Later => label \in Later
    /\ \/ pending' \in {pending, Null}
       \/ req[p].pc = "store" /\ pending' = ChallengeOf(p)
    /\ \/ /\ Keeps
          /\ faults' = 0 => (label \in Held <=> req[p].pc \in Held)
       \/ /\ Writes(p, label)
          /\ faults' = 0 => label \in Held
    /\ \/ spent' = spent
       \/ req[p].pc = "code" /\ spent' = spent \cup {req[p].jar}
    /\ faults' = faults \/ (faults' = faults + 1 /\ faults < MaxFaults)

LEMMA Ways ==
    ASSUME Shape, NEW p \in Calls, Step(p)
    PROVE  \/ Starts(p) /\ UNCHANGED <<pending, rows, spent, wrote, faults>>
           \/ TakesOver(p) /\ UNCHANGED <<pending, rows, spent, wrote, faults>>
           \/ \E label : Walks(p, label)
<1>0. faults \in Nat /\ (faults' = faults + 1 => faults' # 0)
    BY DEF Shape
<1>c. ASSUME NEW label \in Rooted \cup {"load", "drop", "expired", "failed", "crashed"},
             Goto(p, label)
      PROVE  Carries(p, label)
    <2>1. label \in {"idle", "crashed"} \cup Calling \cup Answers
        BY <1>c DEF Rooted, Calling, Answers
    <2> QED
        BY <1>c, <2>1, GotoSets DEF Shape, Carries
<1>1. CASE SubmitCredentials(p)
    BY <1>1 DEF SubmitCredentials, Starts, Chooses
<1>2. CASE Open(p)
    <2>1. CASE Goto(p, "failed")
        <3>1. Walks(p, "failed")
            BY <1>2, <2>1, <1>c DEF Open, Walks, Rooted, Chained, Later, Held, Keeps
        <3> QED
            BY <3>1
    <2>2. CASE Goto(p, "password")
        <3>1. Walks(p, "password")
            BY <1>2, <2>2, <1>c DEF Open, Walks, Rooted, Chained, Later, Held, Keeps
        <3> QED
            BY <3>1
    <2> QED
        BY <1>2, <2>1, <2>2 DEF Open, Reply
<1>3. CASE Password(p)
    <2>1. PICK label \in Classified \cup {"failed"} : Goto(p, label)
        BY <1>3 DEF Password, Reply
    <2>2. Walks(p, label)
        BY <1>3, <2>1, <1>c DEF Password, Classified, Walks, Rooted, Chained, Later, Held, Keeps
    <2> QED
        BY <2>2
<1>4. CASE EnterCode(p)
    <2>1. Walks(p, "load")
        BY <1>4, <1>c DEF EnterCode, Walks, Rooted, Chained, Later, Held, Keeps
    <2> QED
        BY <2>1
<1>5. CASE Load(p)
    <2>1. CASE Goto(p, "expired")
        <3>1. Walks(p, "expired")
            BY <1>5, <2>1, <1>c DEF Load, Walks, Rooted, Chained, Later, Held, Keeps
        <3> QED
            BY <3>1
    <2>2. CASE Goto(p, "drop")
        <3>1. Walks(p, "drop")
            BY <1>5, <2>2, <1>c DEF Load, Walks, Rooted, Chained, Later, Held, Keeps
        <3> QED
            BY <3>1
    <2> QED
        BY <1>5, <2>1, <2>2 DEF Load, TakesOver
<1>6. CASE Code(p)
    <2>1. PICK label \in {"wrongCode", "abandon"} \cup Classified : Goto(p, label)
        BY <1>6 DEF Code
    <2>2. Walks(p, label)
        BY <1>6, <2>1, <1>c DEF Code, Classified, Walks, Rooted, Chained, Later, Held, Keeps
    <2> QED
        BY <2>2
<1>7. CASE SubmitJar(p)
    <2>1. CASE Goto(p, "failed")
        <3>1. Walks(p, "failed")
            BY <1>7, <2>1, <1>c DEF SubmitJar, Walks, Rooted, Chained, Later, Held, Keeps
        <3> QED
            BY <3>1
    <2>2. CASE ~Goto(p, "failed")
        BY <1>7, <2>2 DEF SubmitJar, Unreadable, Starts, Chooses
    <2> QED
        BY <2>1, <2>2
<1>8. CASE Purge(p)
    <2>1. Walks(p, "store")
        BY <1>8, <1>c DEF Purge, Walks, Rooted, Chained, Later, Held, Keeps
    <2> QED
        BY <2>1
<1>9. CASE Store(p)
    <2>1. Walks(p, "prompted")
        BY <1>9, <1>c DEF Store, Walks, Rooted, Chained, Later, Held, Keeps
    <2> QED
        BY <2>1
<1>10. CASE Clear(p)
    <2>1. PICK label : label = Cleared(req[p].pc)
        OBVIOUS
    <2>2. Goto(p, label)
        BY <1>10, <2>1 DEF Clear
    <2>3. /\ req[p].pc = "drop" => label = "expired"
          /\ req[p].pc = "abandon" => label = "failed"
          /\ req[p].pc = "clear" => label = "fetch"
        BY <2>1, Labels
    <2>4. Walks(p, label)
        BY <1>10, <2>2, <2>3, <1>c DEF Clear, Walks, Rooted, Chained, Later, Held, Keeps
    <2> QED
        BY <2>4
<1>11. CASE Resolve(p)
    <2>1. PICK a \in Identified(p) \cup {Null} :
              req' = [req EXCEPT ![p].pc = "save", ![p].puuid = a]
        BY <1>11 DEF Resolve
    <2>2. a \in Accounts \cup {Null}
        BY DEF Identified, Shape, Request
    <2> DEFINE c == [req[p] EXCEPT !.pc = "save", !.puuid = a]
    <2>3. req[p] \in Request
        BY DEF Shape
    <2>4. /\ c \in Request /\ c.pc = "save" /\ c.account = req[p].account
          /\ c.target = req[p].target /\ c.root = req[p].root /\ c.jar = req[p].jar
        BY <2>2, <2>3, Labels DEF Request
    <2>5. req' = [req EXCEPT ![p] = c]
        BY <2>1
    <2> HIDE DEF c
    <2>6. Carries(p, "save")
        BY <2>4, <2>5 DEF Carries, Shape
    <2>7. Walks(p, "save")
        BY <1>11, <2>6 DEF Resolve, Walks, Rooted, Chained, Later, Held, Keeps
    <2> QED
        BY <2>7
<1>12. CASE Save(p)
    <2>1. CASE Goto(p, "failed") /\ Keeps
        <3>1. Walks(p, "failed")
            BY <1>12, <2>1, <1>c DEF Save, Walks, Rooted, Chained, Later, Held
        <3> QED
            BY <3>1
    <2>2. CASE /\ Savable(p) /\ Write(p)
               /\ Goto(p, IF p \in Jars THEN "fetch" ELSE "clear")
        <3>1. PICK label \in {"fetch", "clear"} : Goto(p, label)
            BY <2>2
        <3>2. Walks(p, label)
            BY <1>12, <2>2, <3>1, <1>c DEF Save, Walks, Writes, Rooted, Chained, Later, Held
        <3> QED
            BY <3>2
    <2> QED
        BY <1>12, <2>1, <2>2 DEF Save, Keeps
<1>13. CASE Fetch(p)
    <2>1. Walks(p, "connected")
        BY <1>13, <1>c DEF Fetch, Walks, Rooted, Chained, Later, Held, Keeps
    <2> QED
        BY <2>1
<1>14. CASE CallFails(p)
    <2>1. faults' = faults + 1 /\ faults' # 0 /\ faults < MaxFaults
        BY <1>0, <1>14 DEF CallFails, Fault
    <2>2. Walks(p, "failed")
        BY <1>14, <2>1, <1>c DEF CallFails, Walks, Writes, Rooted, Chained, Later, Held, Keeps
    <2> QED
        BY <2>2
<1>15. CASE Crash(p)
    <2>1. Walks(p, "crashed")
        BY <1>0, <1>15, <1>c DEF Crash, Fault, Walks, Rooted, Chained, Later, Held, Keeps
    <2> QED
        BY <2>1
<1> QED
    BY <1>1, <1>2, <1>3, <1>4, <1>5, <1>6, <1>7, <1>8, <1>9, <1>10, <1>11, <1>12,
       <1>13, <1>14, <1>15 DEF Step

-----------------------------------------------------------------------------
(* Type correctness.                                                       *)

\* What a request's place says of the record it holds.
HoldsTypes(p) ==
    /\ req[p].pc \in Rooted => req[p].account \in Accounts
    /\ req[p].pc \in Chained => req[p].root \in Logins
    /\ req[p].pc = "code" => req[p].jar \in Calls

ShapeInv == Shape /\ \A p \in Calls : HoldsTypes(p)

LEMMA ShapeInitially == Init => ShapeInv
<1> SUFFICES ASSUME Init
             PROVE  ShapeInv
    OBVIOUS
<1>1. \A p \in Calls : req[p].pc = "idle"
    BY DEF Init
<1>2. req \in [Calls -> Request]
    <2>1. [pc |-> "idle", account |-> Null, target |-> Null,
           root |-> Null, jar |-> Null, puuid |-> Null] \in Request
        BY DEF Request, Targets
    <2> QED
        BY <2>1 DEF Init
<1>3. rows \in [{Main} \cup Calls -> Row \cup {Null}]
    BY DEF Init
<1> QED
    BY <1>1, <1>2, <1>3 DEF Init, ShapeInv, Shape, HoldsTypes, Rooted, Chained

LEMMA ShapeStep ==
    ASSUME ShapeInv, NEW p \in Calls, Step(p)
    PROVE  ShapeInv'
<1>0. Shape
    BY DEF ShapeInv
<1>1. CASE Starts(p) /\ UNCHANGED <<pending, rows, spent, wrote, faults>>
    <2>1. PICK a \in Accounts, t \in Targets, label \in {"open", "resolve"} :
              /\ label = "open" => p \in Logins
              /\ Chooses(p, a, t, label)
        BY <1>1 DEF Starts
    <2>2. /\ req' \in [Calls -> Request]
          /\ req'[p].pc = label /\ req'[p].root = p /\ req'[p].account = a
          /\ \A q \in Calls : q # p => req'[q] = req[q]
        <3>1. req \in [Calls -> Request]
            BY <1>0 DEF Shape
        <3> QED
            BY <2>1, <3>1, Begins
    <2>3. HoldsTypes(p)'
        BY <2>1, <2>2 DEF HoldsTypes, Chained
    <2>4. \A q \in Calls : q # p => HoldsTypes(q)'
        BY <2>2 DEF HoldsTypes, ShapeInv
    <2> QED
        BY <1>0, <1>1, <2>2, <2>3, <2>4 DEF ShapeInv, Shape
<1>2. CASE TakesOver(p) /\ UNCHANGED <<pending, rows, spent, wrote, faults>>
    <2>1. /\ req' \in [Calls -> Request]
          /\ req'[p].pc = "code" /\ req'[p].root = pending.root
          /\ req'[p].account = pending.account /\ req'[p].jar \in Calls
          /\ \A q \in Calls : q # p => req'[q] = req[q]
        BY <1>0, <1>2, Takes
    <2>2. pending.root \in Logins /\ pending.account \in Accounts
        BY <1>0, <1>2 DEF TakesOver, Shape, Challenge
    <2>3. HoldsTypes(p)'
        BY <2>1, <2>2 DEF HoldsTypes
    <2>4. \A q \in Calls : q # p => HoldsTypes(q)'
        BY <2>1 DEF HoldsTypes, ShapeInv
    <2> QED
        BY <1>0, <1>2, <2>1, <2>3, <2>4 DEF ShapeInv, Shape
<1>3. ASSUME NEW label, Walks(p, label)
      PROVE  ShapeInv'
    <2>1. req[p] \in Request /\ HoldsTypes(p)
        BY <1>0 DEF Shape, ShapeInv
    <2>2. req' \in [Calls -> Request] /\ faults' \in Nat
        BY <1>0, <1>3 DEF Walks, Carries, Shape
    <2>3. pending' \in Challenge \cup {Null}
        <3>1. CASE req[p].pc = "store"
            <4>1. req[p].account \in Accounts /\ req[p].root \in Logins
                BY <2>1, <3>1 DEF HoldsTypes, Rooted, Chained
            <4>2. req[p].target \in Targets
                BY <2>1 DEF Request
            <4>3. ChallengeOf(p) \in Challenge
                BY <4>1, <4>2 DEF ChallengeOf, Challenge
            <4> QED
                BY <1>0, <1>3, <4>3 DEF Walks, Shape
        <3> QED
            BY <1>0, <1>3, <3>1 DEF Walks, Shape
    <2>4. spent' \in SUBSET Calls
        BY <1>0, <1>3, <2>1 DEF Walks, Shape, HoldsTypes
    <2>5. ASSUME Writes(p, label)
          PROVE  /\ rows' \in [{Main} \cup Calls -> Row \cup {Null}]
                 /\ wrote' \in [Calls -> {Main, Null} \cup Calls]
        <3>1. RowId(p) \in {Main} \cup Calls
            BY DEF RowId
        <3>2. req[p].account \in Accounts
            BY <2>1, <2>5 DEF HoldsTypes, Rooted, Writes
        <3>3. req[p].puuid \in Accounts \cup {Null}
            BY <2>1 DEF Request
        <3>4. rows[RowId(p)] \in Row \cup {Null}
            BY <1>0, <3>1 DEF Shape
        <3>5. rows[RowId(p)] # Null => rows[RowId(p)].puuid \in Accounts \cup {Null}
            BY <3>4 DEF Row
        <3>6. Saved(p) \in Row
            BY <3>2, <3>3, <3>5 DEF Saved, Row
        <3> QED
            BY <1>0, <2>5, <3>1, <3>6 DEF Writes, Write, Shape
    <2>6. /\ rows' \in [{Main} \cup Calls -> Row \cup {Null}]
          /\ wrote' \in [Calls -> {Main, Null} \cup Calls]
        BY <1>0, <1>3, <2>5 DEF Walks, Keeps, Shape
    <2>7. HoldsTypes(p)'
        BY <1>3, <2>1 DEF Walks, Carries, HoldsTypes
    <2>8. \A q \in Calls : q # p => HoldsTypes(q)'
        BY <1>3 DEF Walks, Carries, HoldsTypes, ShapeInv
    <2> QED
        BY <2>2, <2>3, <2>4, <2>6, <2>7, <2>8 DEF ShapeInv, Shape
<1> QED
    BY <1>0, <1>1, <1>2, <1>3, Ways

LEMMA ShapeNext == ShapeInv /\ [Next]_vars => ShapeInv'
<1> SUFFICES ASSUME ShapeInv, [Next]_vars
             PROVE  ShapeInv'
    OBVIOUS
<1>1. CASE \E p \in Calls : Step(p)
    BY <1>1, ShapeStep
<1>2. CASE \E k \in DOMAIN rows : Disconnect(k)
    <2>1. rows' \in [{Main} \cup Calls -> Row \cup {Null}]
        BY <1>2 DEF Disconnect, ShapeInv, Shape
    <2> QED
        BY <1>2, <2>1 DEF Disconnect, ShapeInv, Shape, HoldsTypes
<1>3. CASE Expire
    <2>1. pending' \in Challenge
        BY <1>3 DEF Expire, ShapeInv, Shape, Challenge
    <2> QED
        BY <1>3, <2>1 DEF Expire, ShapeInv, Shape, HoldsTypes
<1>4. CASE UNCHANGED vars
    BY <1>4 DEF vars, ShapeInv, Shape, HoldsTypes
<1> QED
    BY <1>1, <1>2, <1>3, <1>4 DEF Next

THEOREM ShapeInvariant == Spec => []ShapeInv
BY ShapeInitially, ShapeNext, PTL DEF Spec

-----------------------------------------------------------------------------
(* A session is saved where the first screen aimed it.                     *)

\* What is held was chosen by the request that opened the chain, and that
\* request chooses no more.
Bound(root, account, target) ==
    /\ root \in Calls /\ req[root].pc \notin {"idle", "load"}
    /\ req[root].account = account /\ req[root].target = target

BoundRequest(p) == Bound(req[p].root, req[p].account, req[p].target)

\* What has been saved was saved once, and by a request that is past choosing.
SavedBy(p) == wrote[p] # Null => req[p].pc \in Later /\ wrote[p] = RowId(p)

ChainInv ==
    /\ pending # Null => Bound(pending.root, pending.account, pending.target)
    /\ \A p \in Calls : /\ req[p].pc \in Rooted => BoundRequest(p)
                        /\ wrote[p] # Null => BoundRequest(p)
                        /\ SavedBy(p)

\* Who chose before a step has chosen the same after it.
Stable ==
    \A r \in Calls :
        req[r].pc \notin {"idle", "load"} =>
            /\ req'[r].pc \notin {"idle", "load"}
            /\ req'[r].account = req[r].account
            /\ req'[r].target = req[r].target
            /\ req'[r].root = req[r].root

LEMMA ChainInitially == Init => ChainInv
BY DEF Init, ChainInv, Rooted, SavedBy

\* A request that chooses or takes over leaves the others as they are.
LEMMA ChainOthers ==
    ASSUME ChainInv, NEW p \in Calls, Stable,
           \A q \in Calls : q # p => req'[q] = req[q],
           UNCHANGED <<pending, wrote>>,
           req[p].pc \in {"idle", "load"},
           req'[p].pc \in Rooted, BoundRequest(p)'
    PROVE  ChainInv'
<1>1. (pending # Null => Bound(pending.root, pending.account, pending.target))'
    BY DEF ChainInv, Bound, Stable
<1>2. wrote[p] = Null
    BY DEF ChainInv, SavedBy, Later
<1>3. ASSUME NEW q \in Calls, q # p
      PROVE  /\ req'[q].pc \in Rooted => BoundRequest(q)'
             /\ wrote'[q] # Null => BoundRequest(q)'
             /\ SavedBy(q)'
    <2>1. req'[q] = req[q] /\ wrote'[q] = wrote[q]
        BY <1>3
    <2>2. BoundRequest(q) => BoundRequest(q)'
        BY <2>1 DEF BoundRequest, Bound, Stable
    <2> QED
        BY <2>1, <2>2 DEF ChainInv, SavedBy, RowId
<1> QED
    BY <1>1, <1>2, <1>3 DEF ChainInv, SavedBy

LEMMA ChainStep ==
    ASSUME ShapeInv, ChainInv, NEW p \in Calls, Step(p)
    PROVE  ChainInv'
<1>0. Shape /\ (wrote[p] # Null => req[p].pc \in Later)
    BY DEF ShapeInv, ChainInv, SavedBy
<1>1. CASE Starts(p) /\ UNCHANGED <<pending, rows, spent, wrote, faults>>
    <2>1. PICK a \in Accounts, t \in Targets, label \in {"open", "resolve"} :
              Chooses(p, a, t, label)
        BY <1>1 DEF Starts
    <2>2. /\ req' \in [Calls -> Request]
          /\ req'[p].pc = label /\ req'[p].root = p
          /\ \A q \in Calls : q # p => req'[q] = req[q]
        <3>1. req \in [Calls -> Request]
            BY <1>0 DEF Shape
        <3> QED
            BY <2>1, <3>1, Begins
    <2>3. req[p].pc = "idle"
        BY <1>1 DEF Starts
    <2>4. Stable
        BY <2>2, <2>3 DEF Stable
    <2>5. BoundRequest(p)' /\ req'[p].pc \in Rooted
        BY <2>2 DEF BoundRequest, Bound, Rooted
    <2> QED
        BY <1>1, <2>2, <2>3, <2>4, <2>5, ChainOthers
<1>2. CASE TakesOver(p) /\ UNCHANGED <<pending, rows, spent, wrote, faults>>
    <2>1. /\ req' \in [Calls -> Request]
          /\ req'[p].pc = "code" /\ req'[p].root = pending.root
          /\ req'[p].account = pending.account /\ req'[p].target = pending.target
          /\ \A q \in Calls : q # p => req'[q] = req[q]
        BY <1>0, <1>2, Takes
    <2>2. req[p].pc = "load" /\ pending # Null
        BY <1>2 DEF TakesOver
    <2>3. Stable
        BY <2>1, <2>2 DEF Stable
    <2>4. Bound(pending.root, pending.account, pending.target)
        BY <2>2 DEF ChainInv
    <2>5. BoundRequest(p)' /\ req'[p].pc \in Rooted
        BY <2>1, <2>3, <2>4 DEF BoundRequest, Bound, Stable, Rooted
    <2> QED
        BY <1>2, <2>1, <2>2, <2>3, <2>5, ChainOthers
<1>3. ASSUME NEW label, Walks(p, label)
      PROVE  ChainInv'
    <2>1. Carries(p, label)
        BY <1>3 DEF Walks
    <2>2. label \notin {"idle"} /\ (label = "load" => req[p].pc = "idle")
        BY <1>3 DEF Walks, Rooted
    <2>3. Stable
        BY <2>1, <2>2 DEF Carries, Stable
    <2>4. \A q \in Calls : BoundRequest(q) => BoundRequest(q)'
        BY <2>1, <2>3 DEF BoundRequest, Bound, Carries, Stable
    <2>5. \A q \in Calls : RowId(q)' = RowId(q)
        BY <2>1 DEF Carries, RowId
    <2>6. (pending # Null => Bound(pending.root, pending.account, pending.target))'
        <3>1. CASE req[p].pc = "store" /\ pending' = ChallengeOf(p)
            <4>1. BoundRequest(p)'
                BY <2>4, <3>1 DEF ChainInv, Rooted
            <4>2. /\ pending'.root = req'[p].root /\ pending'.account = req'[p].account
                  /\ pending'.target = req'[p].target
                BY <2>1, <3>1 DEF ChallengeOf, Carries
            <4> QED
                BY <4>1, <4>2 DEF BoundRequest, Bound
        <3>2. CASE pending' \in {pending, Null}
            BY <2>3, <3>2 DEF ChainInv, Bound, Stable
        <3> QED
            BY <1>3, <3>1, <3>2 DEF Walks
    <2>7. ASSUME NEW q \in Calls
          PROVE  /\ req'[q].pc \in Rooted => BoundRequest(q)'
                 /\ wrote'[q] # Null => BoundRequest(q)'
                 /\ SavedBy(q)'
        <3>1. req'[q].pc \in Rooted => req[q].pc \in Rooted
            BY <1>3, <2>1 DEF Walks, Carries
        <3>2. req[q].pc \in Later => req'[q].pc \in Later
            BY <1>3, <2>1 DEF Walks, Carries
        <3>3. CASE wrote'[q] = wrote[q]
            BY <2>4, <2>5, <3>1, <3>2, <3>3 DEF ChainInv, SavedBy
        <3>4. CASE wrote'[q] # wrote[q]
            <4>1. Writes(p, label)
                BY <1>3, <3>4 DEF Walks, Keeps
            <4>2. q = p /\ wrote'[q] = RowId(p)
                BY <1>0, <3>4, <4>1 DEF Writes, Write, Shape
            <4>3. req[p].pc = "save" /\ label \in Later
                BY <4>1 DEF Writes, Later
            <4>4. BoundRequest(q)'
                BY <2>4, <4>2, <4>3 DEF ChainInv, Rooted
            <4>5. req'[q].pc \in Later
                BY <2>1, <4>2, <4>3 DEF Carries
            <4> QED
                BY <2>5, <4>2, <4>4, <4>5 DEF SavedBy
        <3> QED
            BY <3>3, <3>4
    <2> QED
        BY <2>6, <2>7 DEF ChainInv
<1> QED
    BY <1>0, <1>1, <1>2, <1>3, Ways

LEMMA ChainNext == ShapeInv /\ ChainInv /\ [Next]_vars => ChainInv'
<1> SUFFICES ASSUME ShapeInv, ChainInv, [Next]_vars
             PROVE  ChainInv'
    OBVIOUS
<1>1. CASE \E p \in Calls : Step(p)
    BY <1>1, ChainStep
<1>2. CASE UNCHANGED <<req, wrote>> /\ pending' = pending
    BY <1>2 DEF ChainInv, BoundRequest, Bound, SavedBy, RowId
<1>3. CASE Expire
    <2>1. pending \in Challenge
        BY <1>3 DEF Expire, ShapeInv, Shape
    <2>2. /\ pending'.root = pending.root /\ pending'.account = pending.account
          /\ pending'.target = pending.target
        BY <1>3, <2>1 DEF Expire, Challenge
    <2> QED
        BY <1>3, <2>2 DEF Expire, ChainInv, BoundRequest, Bound, SavedBy, RowId
<1> QED
    BY <1>1, <1>2, <1>3 DEF Next, Disconnect, vars

\* Through any number of challenges, with other requests in between, a session
\* is saved where the request that opened the chain aimed it, and it is that
\* request's login (connection-service.ts:175, "Carry region
\* and label forward").
THEOREM SavesWhereChosen == Spec => []SavedWhereChosen
<1>1. ChainInv => SavedWhereChosen
    BY DEF ChainInv, SavedBy, BoundRequest, Bound, RowId, SavedWhereChosen
<1> QED
    BY <1>1, ChainInitially, ChainNext, ShapeInvariant, PTL DEF Spec

-----------------------------------------------------------------------------
(* Answers, the identity of a connection, and the types.                   *)

\* While calls answer, the requests that have saved are those on their way to
\* "connected".
AnswerInv == faults = 0 => \A p \in Calls : wrote[p] # Null <=> req[p].pc \in Held

LEMMA AnswerStep ==
    ASSUME Null \notin Calls \cup {Main}, ShapeInv, ChainInv, AnswerInv,
           NEW p \in Calls, Step(p)
    PROVE  AnswerInv'
<1>0. Shape
    BY DEF ShapeInv
<1>1. CASE Starts(p) /\ UNCHANGED <<pending, rows, spent, wrote, faults>>
    <2>1. PICK a \in Accounts, t \in Targets, label \in {"open", "resolve"} :
              Chooses(p, a, t, label)
        BY <1>1 DEF Starts
    <2>2. /\ req'[p].pc = label
          /\ \A q \in Calls : q # p => req'[q] = req[q]
        <3>1. req \in [Calls -> Request]
            BY <1>0 DEF Shape
        <3> QED
            BY <2>1, <3>1, Begins
    <2>3. req[p].pc = "idle" /\ label \notin Held
        BY <1>1 DEF Starts, Held
    <2> QED
        BY <1>1, <2>2, <2>3 DEF AnswerInv, Held
<1>2. CASE TakesOver(p) /\ UNCHANGED <<pending, rows, spent, wrote, faults>>
    <2>1. /\ req'[p].pc = "code"
          /\ \A q \in Calls : q # p => req'[q] = req[q]
        BY <1>0, <1>2, Takes
    <2>2. req[p].pc = "load"
        BY <1>2 DEF TakesOver
    <2> QED
        BY <1>2, <2>1, <2>2 DEF AnswerInv, Held
<1>3. ASSUME NEW label, Walks(p, label), faults' = 0
      PROVE  \A q \in Calls : wrote'[q] # Null <=> req'[q].pc \in Held
    <2>1. faults = 0
        BY <1>0, <1>3 DEF Walks, Shape
    <2>2. \A q \in Calls : req'[q].pc = IF q = p THEN label ELSE req[q].pc
        BY <1>3 DEF Walks, Carries
    <2>3. CASE Keeps /\ (label \in Held <=> req[p].pc \in Held)
        BY <2>1, <2>2, <2>3 DEF Keeps, AnswerInv
    <2>4. CASE Writes(p, label) /\ label \in Held
        <3>1. RowId(p) # Null
            BY DEF RowId
        <3>2. \A q \in Calls : wrote'[q] = IF q = p THEN RowId(p) ELSE wrote[q]
            BY <1>0, <2>4 DEF Writes, Write, Shape
        <3> QED
            BY <2>1, <2>2, <2>4, <3>1, <3>2 DEF AnswerInv
    <2> QED
        BY <1>3, <2>3, <2>4 DEF Walks
<1> QED
    BY <1>0, <1>1, <1>2, <1>3, Ways DEF AnswerInv

LEMMA AnswerNext ==
    ASSUME Null \notin Calls \cup {Main}
    PROVE  ShapeInv /\ ChainInv /\ AnswerInv /\ [Next]_vars => AnswerInv'
<1> SUFFICES ASSUME ShapeInv, ChainInv, AnswerInv, [Next]_vars
             PROVE  AnswerInv'
    OBVIOUS
<1>1. CASE \E p \in Calls : Step(p)
    BY <1>1, AnswerStep
<1>2. CASE UNCHANGED <<req, wrote, faults>>
    BY <1>2 DEF AnswerInv
<1> QED
    BY <1>1, <1>2 DEF Next, Disconnect, Expire, vars

\* While calls answer, a request says "connected" exactly when it saved: what
\* follows the save does not turn it into a failure.
THEOREM AnswersAreTrue ==
    ASSUME Null \notin Calls \cup {Main}
    PROVE  Spec => []AnswerIsTruth
<1>1. Init => AnswerInv
    BY DEF Init, AnswerInv, Held
<1>2. ShapeInv /\ ChainInv /\ AnswerInv /\ [Next]_vars => AnswerInv'
    BY AnswerNext
<1>3. AnswerInv => AnswerIsTruth
    BY DEF AnswerInv, AnswerIsTruth, Answers, Held
<1> QED
    BY <1>1, <1>2, <1>3, ChainInitially, ChainNext, ShapeInvariant, PTL DEF Spec

\* The row a request would insert is there only once that request has saved.
OwnRowInv == \A p \in Calls : rows[p] # Null => req[p].pc \in Later

\* A step on one request changes at most the row that request saves to.
LEMMA RowsStep ==
    ASSUME ShapeInv, NEW p \in Calls, Step(p)
    PROVE  \/ UNCHANGED rows
           \/ \E label \in Later :
                 /\ Writes(p, label)
                 /\ req'[p].pc = label
<1>0. Shape
    BY DEF ShapeInv
<1>1. ASSUME NEW label, Walks(p, label)
      PROVE  UNCHANGED rows \/ (Writes(p, label) /\ req'[p].pc = label /\ label \in Later)
    BY <1>1 DEF Walks, Carries, Keeps, Writes, Later
<1> QED
    BY <1>0, <1>1, Ways

\* A request that has saved, or that has ended, stays so.
LEMMA LaterStays ==
    ASSUME ShapeInv, NEW p \in Calls, Step(p)
    PROVE  \A q \in Calls : req[q].pc \in Later => req'[q].pc \in Later
<1>0. Shape
    BY DEF ShapeInv
<1>1. CASE Starts(p)
    <2>1. PICK a \in Accounts, t \in Targets, label \in {"open", "resolve"} :
              Chooses(p, a, t, label)
        BY <1>1 DEF Starts
    <2>2. \A q \in Calls : q # p => req'[q] = req[q]
        <3>1. req \in [Calls -> Request]
            BY <1>0 DEF Shape
        <3> QED
            BY <2>1, <3>1, Begins
    <2> QED
        BY <1>1, <2>2 DEF Starts, Later
<1>2. CASE TakesOver(p)
    <2>1. \A q \in Calls : q # p => req'[q] = req[q]
        BY <1>0, <1>2, Takes
    <2> QED
        BY <1>2, <2>1 DEF TakesOver, Later
<1>3. ASSUME NEW label, Walks(p, label)
      PROVE  \A q \in Calls : req[q].pc \in Later => req'[q].pc \in Later
    BY <1>3 DEF Walks, Carries
<1> QED
    BY <1>0, <1>1, <1>2, <1>3, Ways

LEMMA OwnRowNext ==
    ASSUME Main \notin Calls
    PROVE  ShapeInv /\ OwnRowInv /\ [Next]_vars => OwnRowInv'
<1> SUFFICES ASSUME ShapeInv, OwnRowInv, [Next]_vars
             PROVE  OwnRowInv'
    OBVIOUS
<1>0. Shape
    BY DEF ShapeInv
<1>1. ASSUME NEW p \in Calls, Step(p)
      PROVE  OwnRowInv'
    <2>1. CASE UNCHANGED rows
        BY <1>1, <2>1, LaterStays DEF OwnRowInv
    <2>2. ASSUME NEW label \in Later, Writes(p, label), req'[p].pc = label
          PROVE  OwnRowInv'
        <3>1. \A q \in Calls : q # p => rows'[q] = rows[q]
            BY <1>0, <2>2 DEF Writes, Write, RowId, Shape
        <3> QED
            BY <1>1, <2>2, <3>1, LaterStays DEF OwnRowInv
    <2> QED
        BY <1>1, <2>1, <2>2, RowsStep
<1>2. CASE \E k \in DOMAIN rows : Disconnect(k)
    BY <1>0, <1>2 DEF Disconnect, OwnRowInv, Shape
<1>3. CASE UNCHANGED <<rows, req>>
    BY <1>3 DEF OwnRowInv
<1> QED
    BY <1>1, <1>2, <1>3 DEF Next, Expire, vars

\* What a save writes over a row that has an identity has the same identity.
LEMMA SavedKeeps ==
    ASSUME Shape, OwnRowInv, NEW p \in Calls, NEW label, Writes(p, label),
           rows[RowId(p)] # Null, rows[RowId(p)].puuid # Null
    PROVE  Saved(p).puuid = rows[RowId(p)].puuid
<1>1. req[p].pc \notin Later
    BY DEF Writes, Later
<1>2. rows[p] = Null
    BY <1>1 DEF OwnRowInv
<1>3. req[p].target = Main /\ RowId(p) = Main
    BY <1>2 DEF RowId
<1>4. SameAccount(p)
    BY <1>3 DEF Writes, Savable
<1> QED
    BY <1>3, <1>4 DEF SameAccount, Saved

LEMMA IdentityStep ==
    ASSUME ShapeInv, OwnRowInv, [Next]_vars
    PROVE  KeepsIdentity
<1> SUFFICES ASSUME NEW k \in DOMAIN rows, rows[k] # Null, rows[k].puuid # Null,
                    rows'[k] # Null
             PROVE  rows'[k].puuid = rows[k].puuid
    BY DEF KeepsIdentity
<1>0. Shape
    BY DEF ShapeInv
<1>1. ASSUME NEW p \in Calls, Step(p)
      PROVE  rows'[k].puuid = rows[k].puuid
    <2>1. ASSUME NEW label \in Later, Writes(p, label)
          PROVE  rows'[k].puuid = rows[k].puuid
        <3>1. rows'[k] = IF k = RowId(p) THEN Saved(p) ELSE rows[k]
            BY <1>0, <2>1 DEF Writes, Write, Shape
        <3> QED
            BY <1>0, <2>1, <3>1, SavedKeeps
    <2> QED
        BY <1>1, <2>1, RowsStep
<1>2. ASSUME NEW l \in DOMAIN rows, Disconnect(l)
      PROVE  rows'[k].puuid = rows[k].puuid
    BY <1>0, <1>2 DEF Disconnect, Shape
<1>3. CASE UNCHANGED rows
    BY <1>3
<1> QED
    BY <1>1, <1>2, <1>3 DEF Next, Expire, vars

\* A connection never changes the Riot account it is bound to, whichever
\* requests race to save to it, however often they fail or are cut off.
THEOREM KeepsItsIdentity ==
    ASSUME Main \notin Calls
    PROVE  Spec => IdentityImmutable
<1>1. Init => OwnRowInv
    BY DEF Init, OwnRowInv
<1>2. ShapeInv /\ OwnRowInv /\ [Next]_vars => OwnRowInv'
    BY OwnRowNext
<1>3. ShapeInv /\ OwnRowInv /\ [Next]_vars => [KeepsIdentity]_vars
    BY IdentityStep
<1> QED
    BY <1>1, <1>2, <1>3, ShapeInvariant, PTL DEF Spec, IdentityImmutable

\* The types of the pending challenge, the connections and the requests, and
\* the bound on faults.
THEOREM CredentialTypeCorrect ==
    ASSUME MaxFaults \in Nat
    PROVE  Spec => []TypeOK
<1> DEFINE Few == faults \in 0 .. MaxFaults
<1>1. Init => Few
    BY DEF Init
<1>2. ShapeInv /\ Few /\ [Next]_vars => Few'
    <2> SUFFICES ASSUME ShapeInv, Few, [Next]_vars
                 PROVE  Few'
        OBVIOUS
    <2>0. Shape
        BY DEF ShapeInv
    <2>1. ASSUME NEW p \in Calls, Step(p)
          PROVE  faults' = faults \/ (faults' = faults + 1 /\ faults < MaxFaults)
        <3>1. ASSUME NEW label, Walks(p, label)
              PROVE  faults' = faults \/ (faults' = faults + 1 /\ faults < MaxFaults)
            BY <3>1 DEF Walks
        <3> QED
            BY <2>0, <2>1, <3>1, Ways
    <2>2. CASE \E p \in Calls : Step(p)
        BY <2>1, <2>2
    <2>3. CASE faults' = faults
        BY <2>3
    <2> QED
        BY <2>2, <2>3 DEF Next, Disconnect, Expire, vars
<1>3. ShapeInv /\ Few => TypeOK
    BY DEF ShapeInv, Shape, TypeOK
<1> QED
    BY <1>1, <1>2, <1>3, ShapeInvariant, PTL DEF Spec
=============================================================================
