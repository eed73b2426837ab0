--------------------------- MODULE DesktopCapture ---------------------------
(***************************************************************************)
(* The legacy Electron capture client.  A capture opens Riot's sign-in in  *)
(* a window of the one shared "persist:riot" partition and settles on      *)
(* whichever comes first: the redirect (two events report it), a refusal,  *)
(* the window closed, five minutes.  A capture is started by the program   *)
(* itself or a deep link (and then ends the program), by a page through    *)
(* the loopback server, or by the shell over IPC.                          *)
(***************************************************************************)
EXTENDS FiniteSets, Naturals

CONSTANTS Captures,     \* captures that are asked for
          MaxFaults     \* bound: partitions that could not be cleared

VARIABLES mode,         \* how the program was started
          running,
          signedIn,     \* the partition holds a Riot session
          cap,
          faults

vars == <<mode, running, signedIn, cap, faults>>

Modes == {"capture", "serve", "shell"}
Origins == {"launch", "loopback", "ipc"}
Reasons == {"cancelled", "denied", "timeout", "noCookies"}
Results == Reasons \cup {"jar", "none"}
Pcs == {"idle", "login", "clear", "keep", "resolved", "post", "ended", "stopped"}

\* reads: redirect events whose cookie read is pending.  settles and proof are
\* histories: how often the promise was settled, what the jar was read from.
Capture == [pc : Pcs, from : Origins, page : {"riot", "completed", "denied"},
            reads : 0 .. 2, token : BOOLEAN, result : Results,
            settles : 0 .. 2, proof : BOOLEAN, window : BOOLEAN]

Init ==
    /\ mode \in Modes
    /\ running = TRUE
    /\ signedIn = FALSE
    /\ cap = [c \in Captures |->
                 [pc |-> "idle", from |-> "launch", page |-> "riot", reads |-> 0,
                  token |-> FALSE, result |-> "none", settles |-> 0,
                  proof |-> FALSE, window |-> FALSE]]
    /\ faults = 0

At(c, label) == cap[c].pc = label
Goto(c, label) == cap' = [cap EXCEPT ![c].pc = label]

-----------------------------------------------------------------------------

\* Mutant: the registration run captures too.
StartsRegistered == {"launch", "register"}

Starts == CASE mode = "shell" -> {"ipc"}
            [] mode = "serve" -> {"loopback", "launch"}
            [] OTHER -> {"launch"}

\* A later launch is a deep link handed to the running instance: it is only
\* heard when it carries a token.
Ask(c) ==
    /\ running /\ At(c, "idle")
    /\ \E from \in Starts, token \in BOOLEAN :
           /\ from = "loopback" => token
           /\ from = "launch" /\ (mode = "serve" \/ \E k \in Captures : ~At(k, "idle"))
                  => token
           /\ cap' = [cap EXCEPT ![c].pc = "login", ![c].from = from,
                                 ![c].token = token, ![c].window = TRUE]
    /\ UNCHANGED <<mode, running, signedIn, faults>>

\* The user signs in, or gives up, in the window.
SignIn(c) ==
    /\ cap[c].window /\ cap[c].page = "riot"
    /\ \/ signedIn' = TRUE /\ cap' = [cap EXCEPT ![c].page = "completed"]
       \/ cap' = [cap EXCEPT ![c].page = "denied"] /\ UNCHANGED signedIn
    /\ UNCHANGED <<mode, running, faults>>

\* Mutant: the promise is settled by everyone who reaches finish().
FinishAlways(row, result, next) ==
    [row EXCEPT !.pc = next, !.result = result,
                !.settles = IF @ < 2 THEN @ + 1 ELSE @]

\* finish(): the first to settle wins.
Finish(row, result, next) ==
    IF row.pc # "login" THEN row
    ELSE [row EXCEPT !.pc = next, !.result = result,
                     !.settles = IF @ < 2 THEN @ + 1 ELSE @]

\* onNavigate(), from will-redirect and from did-navigate.
Navigate(c) ==
    /\ At(c, "login")
    /\ \/ /\ cap[c].page = "completed" /\ cap[c].reads < 2
          /\ cap' = [cap EXCEPT ![c].reads = @ + 1]
       \/ /\ cap[c].page = "denied"
          /\ cap' = [cap EXCEPT ![c] = Finish(@, "denied", "clear")]
    /\ UNCHANGED <<mode, running, signedIn, faults>>

\* Mutant: reaching the redirect is taken for a session.
SessionProofAssumed == TRUE

\* Cookie names that a page sets only after a sign-in.
SessionProof == signedIn

\* The jar may still be refused: unreadable, or too large when trimmed.
ReadCookies(c) ==
    /\ cap[c].reads > 0
    /\ LET row == [cap[c] EXCEPT !.reads = @ - 1] IN
       \/ /\ SessionProof
          /\ cap' = [cap EXCEPT ![c] = Finish([row EXCEPT !.proof = signedIn], "jar", "clear")]
       \/ cap' = [cap EXCEPT ![c] = Finish(row, "noCookies", "clear")]
    /\ UNCHANGED <<mode, running, signedIn, faults>>

CloseWindow(c) ==
    /\ cap[c].window
    /\ cap' = [cap EXCEPT ![c] = [Finish(@, "cancelled", "keep") EXCEPT !.window = FALSE]]
    /\ UNCHANGED <<mode, running, signedIn, faults>>

\* Mutant: no timer.
TimeoutNever(c) == FALSE

Timeout(c) ==
    /\ At(c, "login")
    /\ cap' = [cap EXCEPT ![c] = Finish(@, "timeout", "clear")]
    /\ UNCHANGED <<mode, running, signedIn, faults>>

\* cleanup(): clear the partition unless the user closed the window; a failed
\* clear is swallowed.  The window is destroyed afterwards.
Clear(c) ==
    /\ At(c, "clear")
    /\ Goto(c, "keep")
    /\ \/ signedIn' = FALSE /\ UNCHANGED faults
       \/ faults < MaxFaults /\ faults' = faults + 1 /\ UNCHANGED signedIn
    /\ UNCHANGED <<mode, running>>

Resolve(c) ==
    /\ At(c, "keep")
    /\ cap' = [cap EXCEPT ![c].pc = "resolved", ![c].window = FALSE]
    /\ UNCHANGED <<mode, running, signedIn, faults>>

\* The jar goes home with the token, to the clipboard without one, and back to
\* the page when the shell asked for it.
Continue(c) ==
    /\ At(c, "resolved")
    /\ Goto(c, IF cap[c].result = "jar" /\ cap[c].token /\ cap[c].from # "ipc"
               THEN "post" ELSE "ended")
    /\ UNCHANGED <<mode, running, signedIn, faults>>

\* postCapture(): whatever the app answers is shown, or returned to the page.
Post(c) ==
    /\ At(c, "post")
    /\ Goto(c, "ended")
    /\ UNCHANGED <<mode, running, signedIn, faults>>

\* runCapture(...).finally(shutdown): every window is destroyed, and the
\* program quits with whatever the other captures were doing.
Shutdown(c) ==
    /\ running
    /\ At(c, "ended") /\ cap[c].from = "launch"
    /\ running' = FALSE
    /\ cap' = [k \in Captures |->
                  [cap[k] EXCEPT !.window = FALSE, !.reads = 0,
                                 !.pc = IF @ \in {"idle", "ended"} THEN @ ELSE "stopped"]]
    /\ UNCHANGED <<mode, signedIn, faults>>

Settle(c) == Timeout(c) \/ Clear(c) \/ Resolve(c) \/ Continue(c) \/ Post(c)

Proceed(c) == ReadCookies(c) \/ Settle(c) \/ Shutdown(c)

Next == \E c \in Captures : Ask(c) \/ SignIn(c) \/ Navigate(c) \/ CloseWindow(c)
                              \/ Proceed(c)

Spec == Init /\ [][Next]_vars

\* Timers fire and pending calls return; the user owes nothing.
FairSpec == Spec /\ \A c \in Captures : WF_vars(Settle(c))

-----------------------------------------------------------------------------
(* Properties.                                                             *)

TypeOK ==
    /\ mode \in Modes
    /\ running \in BOOLEAN /\ signedIn \in BOOLEAN
    /\ cap \in [Captures -> Capture]
    /\ faults \in 0 .. MaxFaults

\* A capture has one outcome, however many of its two redirect events, its
\* timer and its window's close reach finish().
OneOutcome == \A c \in Captures : cap[c].settles <= 1

\* "do not hand back a jar known to be useless": a posted jar was read from a
\* partition with a session, also when another capture clears it meanwhile.
PostedIsSignedIn == \A c \in Captures : At(c, "post") => cap[c].proof

\* Every capture comes to an end by itself, the user doing nothing.
CaptureEnds == \A c \in Captures : At(c, "login") ~> cap[c].pc \in {"ended", "stopped"}

\* "Route it into the instance already capturing rather than opening a
\* competing Riot login window."
OneLoginWindow ==
    mode = "capture" => Cardinality({c \in Captures : cap[c].window}) <= 1

\* "Serve mode stays resident so the web app can reach it."
ServeStaysResident == mode = "serve" => running

\* "so the Riot login does not linger in the desktop app": between captures
\* the partition holds no session.
LoginDoesNotLinger ==
    faults = 0 /\ (\A c \in Captures : cap[c].pc \in {"idle", "ended"} /\ cap[c].reads = 0)
        => ~signedIn
=============================================================================
