------------------------------- MODULE MCFlows -------------------------------
(* Small instances, for one run of TLC, of the ways an account is connected *)
(* and of the mail that is sent.  A behaviour belongs to one of them, its   *)
(* flow; the others stay idle, so the states of the flows add up and do not *)
(* multiply.                                                                *)
EXTENDS CloudConnect, TLC

CONSTANTS q1, q2, q3, create, Flows,
          sole, login, otherLogin, code, otherCode, export, alpha, beta, Main, Null,
          window, first, second, None, one, two, phone, laptop, again,
          cron, manual, vandal, phantom, main, alt,
          Captures, CaptureFaults,  \* the desktop app's
          Callbacks, NoticeFaults   \* the sign-in's

\* The calls of a sign-in are neither the account's row nor the absence of one.
ASSUME FlowsAssumption ==
    /\ {Null, Main} \cap {sole, login, otherLogin, code, otherCode, export} = {}
    /\ Null # Main
    /\ MaxFaults \in Nat /\ CaptureFaults \in Nat /\ NoticeFaults \in Nat

VARIABLES flow,
          pending, rows, req, spent, wrote,
          token, saved, panel, jobs, alarm, tab, hand, busy,
          mode, running, signedIn, cap,
          notice, callback, admitted, noticeMails,
          notifications, alive, watched, step, check, offers, sent, planned, todo,
          current, report, emailsSent, mails, delivered

cloud == <<row, browser, launch, expired, pc, seen, claims>>
credential == <<pending, rows, req, spent, wrote>>
extension == <<token, saved, panel, jobs, alarm, tab, hand, busy>>
desktop == <<mode, running, signedIn, cap>>
owner == <<notice, callback, admitted, noticeMails>>
delivery == <<notifications, alive, watched, step, check, offers, sent, planned,
              todo, current, report, emailsSent, mails, delivered>>
all == <<flow, vars, credential, extension, desktop, owner, delivery>>

\* The components come with their theorems where a module states them: what
\* FlowsProofs proves of a flow is what holds of its component.
\*
\* One login and two codes beside a pasted export, with a fault; and two logins
\* beside a code.
Challenge == INSTANCE CredentialConnectProofs
    WITH Logins <- {sole}, Codes <- {code, otherCode}, Jars <- {export},
         Accounts <- {alpha, beta}, MaxFaults <- 1
TwoLogins == INSTANCE CredentialConnectProofs
    WITH Logins <- {login, otherLogin}, Codes <- {code}, Jars <- {},
         Accounts <- {alpha, beta}, MaxFaults <- 0
\* One request with faults, and two requests of one panel without faults and
\* without a token's expiry.
Request == INSTANCE ExtensionConnectProofs
    WITH Panels <- {window}, Requests <- {first}, MaxFaults <- 2
Retry == INSTANCE ExtensionConnectProofs
    WITH Panels <- {window}, Requests <- {first, second}, MaxFaults <- 0
Desktop == INSTANCE DesktopCapture
    WITH MaxFaults <- CaptureFaults
Owner == INSTANCE OwnerNotice
    WITH MaxFaults <- NoticeFaults, row <- notice, pc <- callback,
         signedIn <- admitted, mails <- noticeMails
\* Two runs over the two skins of one account's shop; and over one skin that
\* two accounts of the user are offered.
OneShop == INSTANCE NotificationDeliveryProofs
    WITH Runs <- {cron, manual}, Checks <- {main}, Skins <- {vandal, phantom},
         MaxFaults <- MaxFaults, rows <- notifications, pc <- step
TwoShops == INSTANCE NotificationDeliveryProofs
    WITH Runs <- {cron, manual}, Checks <- {main, alt}, Skins <- {vandal},
         MaxFaults <- MaxFaults, rows <- notifications, pc <- step

NoCredential == /\ pending = Null /\ rows = Null /\ req = Null
                /\ spent = Null /\ wrote = Null
NoExtension == /\ token = Null /\ saved = Null /\ panel = Null /\ jobs = Null
               /\ alarm = Null /\ tab = Null /\ hand = Null /\ busy = Null
NoDesktop == mode = Null /\ running = Null /\ signedIn = Null /\ cap = Null
NoOwner == /\ notice = "none" /\ callback = [b \in Callbacks |-> "idle"]
           /\ admitted = {} /\ noticeMails = 0
NoDelivery == /\ notifications = [c \in {main, alt} |-> [s \in {vandal} |-> "none"]]
              /\ alive = {main, alt} /\ watched = Null /\ offers = Null
              /\ step = [r \in {cron, manual} |-> "idle"]
              /\ check = [r \in {cron, manual} |-> main] /\ sent = Null
              /\ planned = Null /\ todo = [r \in {cron, manual} |-> {}]
              /\ current = Null /\ report = Null /\ emailsSent = Null
              /\ mails = [c \in {main, alt} |-> [s \in {vandal} |-> 0]]
              /\ delivered = Null

FlowsInit ==
    /\ flow \in Flows
    /\ Init
    /\ CASE flow = "challenge" -> Challenge!Init
         [] flow = "twoLogins" -> TwoLogins!Init
         [] OTHER -> NoCredential
    /\ CASE flow = "request" -> Request!Init
         [] flow = "retry" -> Retry!Init
         [] OTHER -> NoExtension
    /\ IF flow = "desktop" THEN Desktop!Init ELSE NoDesktop
    /\ IF flow = "owner" THEN Owner!Init ELSE NoOwner
    /\ CASE flow = "oneShop" -> OneShop!Init
         [] flow = "twoShops" -> TwoShops!Init
         [] OTHER -> NoDelivery

InCloud(A) ==
    /\ flow = "cloud" /\ A
    /\ UNCHANGED <<flow, credential, extension, desktop, owner, delivery>>
InCredential(f, A) ==
    /\ flow = f /\ A
    /\ UNCHANGED <<flow, cloud, extension, desktop, owner, delivery>>
InExtension(f, A) ==
    /\ flow = f /\ A
    /\ UNCHANGED <<flow, cloud, credential, desktop, owner, delivery>>
InDesktop(A) ==
    /\ flow = "desktop" /\ A
    /\ UNCHANGED <<flow, cloud, credential, extension, owner, delivery>>
InOwner(A) ==
    /\ flow = "owner" /\ A
    /\ UNCHANGED <<flow, cloud, credential, extension, desktop, delivery>>
InDelivery(f, A) ==
    /\ flow = f /\ A
    /\ UNCHANGED <<flow, cloud, credential, extension, desktop, owner>>

\* Bounds of the retry: no token expires, and three listeners at most are at
\* work at a time.
FewListeners ==
    /\ \A r \in {first, second} : token[r] # "expired"
    /\ Cardinality({x \in Retry!Kinds \X {first, second} : hand[x[1]][x[2]].pc # "idle"}) <= 3

FlowsNext ==
    \/ InCloud(Next)
    \/ InCredential("challenge", Challenge!Next) \/ InCredential("twoLogins", TwoLogins!Next)
    \/ InExtension("request", Request!Next)
    \/ InExtension("retry", Retry!Next /\ FewListeners')
    \/ InDesktop(Desktop!Next)
    \/ InOwner(Owner!Next)
    \/ InDelivery("oneShop", OneShop!Next) \/ InDelivery("twoShops", TwoShops!Next)

FlowsSpec == FlowsInit /\ [][FlowsNext]_all

\* The components' fairness, each in its own flow.
FairFlowsSpec ==
    /\ FlowsSpec
    /\ WF_vars(flow = "cloud" /\ Create)
    /\ \A r \in Requests : WF_vars(flow = "cloud" /\ Step(r))
    /\ WF_vars(flow = "cloud" /\ (BrowserUp \/ LaunchFails))
    /\ WF_vars(flow = "cloud" /\ Sweep)
    /\ WF_vars(flow = "cloud" /\ TimePasses)
    /\ WF_extension(flow = "request" /\ Request!Mint(window))
    /\ WF_extension(flow = "request" /\ Request!PanelTimeout(window))
    /\ \A c \in Captures : WF_desktop(flow = "desktop" /\ Desktop!Settle(c))
    /\ \A b \in Callbacks : WF_owner(flow = "owner" /\ Owner!Proceed(b))
    /\ \A r \in {cron, manual} :
          WF_delivery(flow = "twoShops"
                        /\ (TwoShops!Planning(r) \/ TwoShops!Delivering(r)))

-----------------------------------------------------------------------------
(* The components' properties, each in the flow it belongs to.             *)

\* The type invariants of the components, each in its own flow.
FlowTypeOK ==
    /\ flow = "cloud" => TypeOK
    /\ flow = "challenge" => Challenge!TypeOK
    /\ flow = "twoLogins" => TwoLogins!TypeOK
    /\ flow = "request" => Request!TypeOK
    /\ flow = "retry" => Retry!TypeOK
    /\ flow = "desktop" => Desktop!TypeOK
    /\ flow = "owner" => Owner!TypeOK
    /\ flow = "oneShop" => OneShop!TypeOK
    /\ flow = "twoShops" => TwoShops!TypeOK

\* The label, region and connection chosen on the first screen are what the
\* code step saves, whatever other requests of the user do in between.
\* And while calls answer, a request says "connected" exactly when it saved.
SignInIsTruthful ==
    /\ flow = "challenge" => Challenge!SavedWhereChosen /\ Challenge!AnswerIsTruth
    /\ flow = "twoLogins" => TwoLogins!SavedWhereChosen /\ TwoLogins!AnswerIsTruth

\* A connection never changes the Riot account it is bound to.
IdentityImmutable ==
    [][(flow \in {"challenge", "twoLogins"} => Challenge!KeepsIdentity)]_all

\* A capture token of the extension saves one session at most, a stored job
\* has its tab, its alarm or a listener at work, requests that follow one
\* another leave one live token, and the panel says connected only of the
\* request it is on, once that is saved.
ExtensionIsHonest ==
    /\ flow = "request" => Request!TokenOnce /\ Request!TransientStateRemoved
    /\ flow = "retry" => Retry!OneLiveToken /\ Retry!ConnectedIsSaved

\* A desktop capture has one outcome, whatever races to settle it, and a jar is
\* posted only when its partition held a Riot session.
CaptureIsHonest == flow = "desktop" => Desktop!OneOutcome /\ Desktop!PostedIsSignedIn

\* Runs that overlap, crash or lose answers mail a skin of a shop once at most.
AtMostOneMail == flow = "oneShop" => OneShop!AtMostOneMail

\* Without faults no reservation is left without a run that delivers it, and a
\* run that reports success leaves no email of its plan unclaimed.
DeliveryCovers == flow = "oneShop" => OneShop!NoSilentLoss /\ OneShop!SuccessCoversPlan

\* The notifications, and the owner's outbox, implement SingleDelivery.
MailIsSingleDelivery == TwoShops!ImplementsSingleDelivery
NoticeIsSingleDelivery == Owner!ImplementsSingleDelivery

\* A planned email is mailed, deleted with its account or lost to a fault (the
\* runs are alike), and a sign-in leaves the owner's notice emailed unless a
\* call fails (so are the callbacks).
MailsSettle ==
    /\ vandal \in todo[cron] ~>
          \/ notifications[check[cron]][vandal] = "emailed"
          \/ check[cron] \notin alive
          \/ faults > 0
    /\ phone \in admitted ~> notice \in {"none", "emailed"} \/ faults > 0

\* The extension's panel never waits for ever, and a desktop capture comes to
\* an end by itself; the captures are alike.
PanelWaits == flow = "request" /\ Request!Pending(window)
CaptureOpen == flow = "desktop" /\ cap[one].pc \notin {"ended", "stopped"}
CapturesEnd == /\ PanelWaits ~> ~PanelWaits
               /\ CaptureOpen /\ cap[one].pc = "login" ~> ~CaptureOpen

-----------------------------------------------------------------------------
(* Symmetry: the members of every pair are interchangeable, and the pairs  *)
(* are swapped in two groups.                                              *)

Pairs == q1 :> q2 @@ q2 :> q1 @@ code :> otherCode @@ otherCode :> code
         @@ first :> second @@ second :> first @@ one :> two @@ two :> one
         @@ phone :> laptop @@ laptop :> phone @@ cron :> manual @@ manual :> cron
Others == alpha :> beta @@ beta :> alpha @@ login :> otherLogin @@ otherLogin :> login
          @@ vandal :> phantom @@ phantom :> vandal
Symmetry == {[v \in DOMAIN Pairs \cup DOMAIN Others |->
                 IF v \in DOMAIN Pairs THEN IF swap[1] THEN Pairs[v] ELSE v
                 ELSE IF swap[2] THEN Others[v] ELSE v] : swap \in BOOLEAN \X BOOLEAN}
=============================================================================
