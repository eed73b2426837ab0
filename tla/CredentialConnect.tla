------------------------- MODULE CredentialConnect -------------------------
(***************************************************************************)
(* Connecting a Riot account from the web: a username and password, the    *)
(* code of a multifactor challenge, or an exported cookie jar.  The        *)
(* requests of one user overlap (two tabs, a double click).  They share    *)
(* the one row of riot_pending_auth that carries a challenge from the      *)
(* credential request to the code request, and the riot_connections rows.  *)
(***************************************************************************)
EXTENDS Naturals

CONSTANTS Logins,       \* connectRiotCredentials requests
          Codes,        \* submitRiotMfaCode requests
          Jars,         \* connectRiotSession requests
          Accounts,     \* Riot accounts the user can sign in to
          Main,         \* the connection a reconnect is aimed at
          Null,
          MaxFaults     \* bound: failed calls, lost answers and crashes

VARIABLES pending,      \* the user's riot_pending_auth row, or Null
          rows,         \* riot_connections; a row is named for who inserted it
          req,          \* what each request holds
          spent,        \* challenges whose login Riot has completed
          wrote,        \* history: the row each request saved, or Null
          faults

vars == <<pending, rows, req, spent, wrote, faults>>

Calls == Logins \cup Codes \cup Jars
Targets == {Main, Null}                 \* Null: a new connection

\* A challenge is named for the request that stored it and remembers, as a
\* history, the credential request its chain started from.
Challenge == [id : Calls, root : Logins, account : Accounts,
              target : Targets, live : BOOLEAN]

Row == [puuid : Accounts \cup {Null}, session : Accounts]

Answers == {"connected", "prompted", "failed", "wrongCode", "expired"}
Calling == {"open", "password", "purge", "store", "load", "drop", "code",
            "abandon", "resolve", "save", "clear", "fetch"}
Request == [pc : {"idle", "crashed"} \cup Calling \cup Answers,
            account : Accounts \cup {Null}, target : Targets,
            root : Calls \cup {Null}, jar : Calls \cup {Null},
            puuid : Accounts \cup {Null}]

Init ==
    /\ pending = Null
    /\ \E main \in {Null} \cup {r \in Row : r.puuid \in {Null, r.session}} :
           rows = [k \in {Main} \cup Calls |-> IF k = Main THEN main ELSE Null]
    /\ req = [p \in Calls |-> [pc |-> "idle", account |-> Null, target |-> Null,
                                  root |-> Null, jar |-> Null, puuid |-> Null]]
    /\ spent = {}
    /\ wrote = [p \in Calls |-> Null]
    /\ faults = 0

Goto(p, label) == req' = [req EXCEPT ![p].pc = label]
Fault == faults < MaxFaults /\ faults' = faults + 1

-----------------------------------------------------------------------------
(* The credential request.                                                 *)

\* Consent and the shape of the form are checked before anything is called.
SubmitCredentials(p) ==
    /\ p \in Logins /\ req[p].pc = "idle"
    /\ \E a \in Accounts, t \in Targets :
           req' = [req EXCEPT ![p].pc = "open", ![p].account = a,
                              ![p].target = t, ![p].root = p]
    /\ UNCHANGED <<pending, rows, spent, wrote, faults>>

\* send(): a network error, a status that is not 200 or a body that is not JSON
\* ends the request; anything else is read.
Reply(p, next) == Goto(p, "failed") \/ Goto(p, next)

Open(p) ==
    /\ req[p].pc = "open"
    /\ Reply(p, "password")
    /\ UNCHANGED <<pending, rows, spent, wrote, faults>>

\* classify(): an error first of all, else a session or a challenge.
Classified == {"resolve", "purge"}

Password(p) ==
    /\ req[p].pc = "password"
    /\ \E next \in Classified : Reply(p, next)
    /\ UNCHANGED <<pending, rows, spent, wrote, faults>>

-----------------------------------------------------------------------------
(* Storing a challenge: purge what has expired, then upsert by user id.    *)

Expired == pending # Null /\ ~pending.live

Purge(p) ==
    /\ req[p].pc = "purge"
    /\ pending' = IF Expired THEN Null ELSE pending
    /\ Goto(p, "store")
    /\ UNCHANGED <<rows, spent, wrote, faults>>

\* Mutant: the second round of a challenge forgets the connection it is for.
ChallengeNoTarget(p) == [id |-> p, root |-> req[p].root, account |-> req[p].account,
                         target |-> IF p \in Codes THEN Null ELSE req[p].target,
                         live |-> TRUE]

ChallengeOf(p) == [id |-> p, root |-> req[p].root, account |-> req[p].account,
                   target |-> req[p].target, live |-> TRUE]

Store(p) ==
    /\ req[p].pc = "store"
    /\ pending' = ChallengeOf(p)
    /\ Goto(p, "prompted")
    /\ UNCHANGED <<rows, spent, wrote, faults>>

-----------------------------------------------------------------------------
(* The code request.                                                       *)

EnterCode(p) ==
    /\ p \in Codes /\ req[p].pc = "idle"
    /\ Goto(p, "load")
    /\ UNCHANGED <<pending, rows, spent, wrote, faults>>

Load(p) ==
    /\ req[p].pc = "load"
    /\ \/ pending = Null /\ Goto(p, "expired")
       \/ Expired /\ Goto(p, "drop")
       \/ /\ pending # Null /\ pending.live
          /\ req' = [req EXCEPT ![p].pc = "code", ![p].jar = pending.id,
                                ![p].root = pending.root,
                                ![p].account = pending.account,
                                ![p].target = pending.target]
    /\ UNCHANGED <<pending, rows, spent, wrote, faults>>

\* clear() deletes by user id, whichever challenge the row holds by then.
Cleared(pc) == CASE pc = "drop" -> "expired"
                 [] pc = "abandon" -> "failed"
                 [] pc = "clear" -> "fetch"

Clear(p) ==
    /\ req[p].pc \in {"drop", "abandon", "clear"}
    /\ pending' = Null
    /\ Goto(p, Cleared(req[p].pc))
    /\ UNCHANGED <<rows, spent, wrote, faults>>

\* Riot completes the login of a challenge once; a used one is an error.
Code(p) ==
    /\ req[p].pc = "code"
    /\ \/ Goto(p, "wrongCode") /\ UNCHANGED spent
       \/ Goto(p, "abandon") /\ UNCHANGED spent
       \/ /\ req[p].jar \notin spent
          /\ \E next \in Classified :
                 /\ Goto(p, next)
                 /\ spent' = IF next = "resolve" THEN spent \cup {req[p].jar} ELSE spent
    /\ UNCHANGED <<pending, rows, wrote, faults>>

-----------------------------------------------------------------------------
(* The exported jar, and what the three have in common.                    *)

\* Only the shape of an export is checked: whose it is, Riot will say.
Unreadable(p) == Goto(p, "failed")

SubmitJar(p) ==
    /\ p \in Jars /\ req[p].pc = "idle"
    /\ \/ Unreadable(p)
       \/ \E a \in Accounts, t \in Targets :
              req' = [req EXCEPT ![p].pc = "resolve", ![p].account = a,
                                 ![p].target = t, ![p].root = p]
    /\ UNCHANGED <<pending, rows, spent, wrote, faults>>

\* resolveIdentity(): reauth and /userinfo name the account, or their failure
\* is swallowed and the session is kept without an identity.
Identified(p) == {req[p].account}

Resolve(p) ==
    /\ req[p].pc = "resolve"
    /\ \E puuid \in Identified(p) \cup {Null} :
           req' = [req EXCEPT ![p].pc = "save", ![p].puuid = puuid]
    /\ UNCHANGED <<pending, rows, spent, wrote, faults>>

\* Mutant: a reconnect updates the row whatever account it holds.
SameAccountUnchecked(p) == rows[Main] # Null

\* The filter on a reconnect's update: "or(puuid.is.null,puuid.eq...)".
SameAccount(p) ==
    /\ rows[Main] # Null
    /\ req[p].puuid # Null => rows[Main].puuid \in {Null, req[p].puuid}

RowId(p) == IF req[p].target = Main THEN Main ELSE p

\* riot_connections_puuid_key.
Unique(p) == \A k \in DOMAIN rows \ {RowId(p)} :
                 rows[k] # Null /\ req[p].puuid # Null => rows[k].puuid # req[p].puuid

Savable(p) == (req[p].target = Main => SameAccount(p)) /\ Unique(p)

\* A PUUID that is not known is left out of the statement.
Saved(p) == [puuid |-> IF req[p].puuid = Null /\ rows[RowId(p)] # Null
                       THEN rows[RowId(p)].puuid ELSE req[p].puuid,
             session |-> req[p].account]

Write(p) == /\ rows' = [rows EXCEPT ![RowId(p)] = Saved(p)]
            /\ wrote' = [wrote EXCEPT ![p] = RowId(p)]

\* A label another connection has is refused like any other conflict.
Save(p) ==
    /\ req[p].pc = "save"
    /\ \/ /\ Savable(p) /\ Write(p)
          /\ Goto(p, IF p \in Jars THEN "fetch" ELSE "clear")
       \/ Goto(p, "failed") /\ UNCHANGED <<rows, wrote>>
    /\ UNCHANGED <<pending, spent, faults>>

\* Mutant: an unreachable worker fails the connect.
FetchThrows(p) ==
    /\ req[p].pc = "fetch"
    /\ Goto(p, "connected") \/ Goto(p, "failed")
    /\ UNCHANGED <<pending, rows, spent, wrote, faults>>

\* fetchStorefrontAfterConnect() swallows whatever the first fetch throws.
Fetch(p) ==
    /\ req[p].pc = "fetch"
    /\ Goto(p, "connected")
    /\ UNCHANGED <<pending, rows, spent, wrote, faults>>

-----------------------------------------------------------------------------
(* The environment.                                                        *)

\* The ten minutes of PENDING_AUTH_TTL_MS pass.
Expire ==
    /\ pending # Null /\ pending.live
    /\ pending' = [pending EXCEPT !.live = FALSE]
    /\ UNCHANGED <<rows, req, spent, wrote, faults>>

Disconnect(k) ==
    /\ rows[k] # Null
    /\ rows' = [rows EXCEPT ![k] = Null]
    /\ UNCHANGED <<pending, req, spent, wrote, faults>>

\* A database call fails, before or after it took effect.
CallFails(p) ==
    /\ req[p].pc \in {"store", "load", "drop", "abandon", "save", "clear"}
    /\ Fault
    /\ Goto(p, "failed")
    /\ \/ UNCHANGED <<pending, rows, wrote>>
       \/ /\ req[p].pc = "store" /\ pending' = ChallengeOf(p)
          /\ UNCHANGED <<rows, wrote>>
       \/ /\ req[p].pc \in {"drop", "abandon", "clear"} /\ pending' = Null
          /\ UNCHANGED <<rows, wrote>>
       \/ /\ req[p].pc = "save" /\ Savable(p) /\ Write(p)
          /\ UNCHANGED pending
    /\ UNCHANGED spent

Crash(p) ==
    /\ req[p].pc \in Calling /\ Fault
    /\ Goto(p, "crashed")
    /\ UNCHANGED <<pending, rows, spent, wrote>>

Step(p) == \/ SubmitCredentials(p) \/ Open(p) \/ Password(p)
           \/ EnterCode(p) \/ Load(p) \/ Code(p)
           \/ SubmitJar(p) \/ Purge(p) \/ Store(p) \/ Clear(p)
           \/ Resolve(p) \/ Save(p) \/ Fetch(p)
           \/ CallFails(p) \/ Crash(p)

Next == \/ \E p \in Calls : Step(p)
        \/ \E k \in DOMAIN rows : Disconnect(k)
        \/ Expire

Spec == Init /\ [][Next]_vars

-----------------------------------------------------------------------------
(* Properties.                                                             *)

TypeOK ==
    /\ pending \in Challenge \cup {Null}
    /\ rows \in [{Main} \cup Calls -> Row \cup {Null}]
    /\ req \in [Calls -> Request]
    /\ spent \in SUBSET Calls
    /\ wrote \in [Calls -> {Main, Null} \cup Calls]
    /\ faults \in 0 .. MaxFaults

\* "Carry region and label forward so the code step saves what was chosen on
\* the first screen": through any number of challenges, with other requests in
\* between, a session is saved where the request that opened the chain aimed
\* it, and it is that request's login.
SavedWhereChosen ==
    \A p \in Calls :
        wrote[p] # Null =>
            LET chosen == req[req[p].root]
            IN  /\ wrote[p] = IF chosen.target = Main THEN Main ELSE p
                /\ req[p].account = chosen.account

\* A connection never changes the Riot account it is bound to, whichever
\* requests race to save to it.
KeepsIdentity ==
    \A k \in DOMAIN rows :
        rows[k] # Null /\ rows[k].puuid # Null /\ rows'[k] # Null
            => rows'[k].puuid = rows[k].puuid
IdentityImmutable == [][KeepsIdentity]_vars

\* While calls answer, a request says "connected" exactly when it saved: what
\* follows the save must not turn it into a failure.
AnswerIsTruth ==
    faults = 0 =>
        \A p \in Calls : req[p].pc \in Answers =>
            (req[p].pc = "connected" <=> wrote[p] # Null)

\* "Reconnect may hydrate a legacy null identity, but it may not silently
\* replace an existing row with a different Riot account": the session of a row
\* with an identity is a session of that account.
ReconnectKeepsAccount ==
    \A k \in DOMAIN rows :
        rows[k] # Null /\ rows[k].puuid # Null => rows[k].session = rows[k].puuid

\* The pending cookie "is deleted the moment it is spent": a stored challenge
\* whose login is complete has a request on its way to delete it.
SpentIsDeleted ==
    pending # Null /\ pending.id \in spent =>
        \E p \in Codes : /\ req[p].pc \in {"resolve", "save", "clear", "crashed"}
                         /\ req[p].jar = pending.id

\* "A wrong code leaves the challenge open ...; anything else invalidates it":
\* what a failed code invalidates is the challenge it answered.
InvalidatesItsOwn ==
    [][\A p \in Codes :
           req[p].pc = "abandon" /\ req'[p].pc = "failed" /\ pending # Null
               => pending.id = req[p].jar]_vars
=============================================================================
