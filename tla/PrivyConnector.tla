--------------------------- MODULE PrivyConnector ---------------------------
(***************************************************************************)
(* The wagmi connector for Privy's embedded wallet: attempts to connect,   *)
(* by the user or by wagmi's restore, that supersede each other; a sign-   *)
(* out that Privy may confirm late or never and that is owed until then;   *)
(* the watcher that ends the session or replaces its wallet when Privy     *)
(* changes; chain switches; and what wagmi makes of all that.              *)
(*                                                                         *)
(* A provider stands for the user it signs for.  Every step that begins a  *)
(* task has the conjunct Quiet: settled promises go on first.  A wait with *)
(* a timer may run out at any time.                                        *)
(***************************************************************************)
EXTENDS Integers

CONSTANTS
  Users, Chains, None,
  Wanted,       \* chains that a connect or a switch asks for
  Logout,       \* disconnectBehavior is 'logout', not 'detach'
  MaxAttempts,  \* bound: calls of connect that start an attempt
  MaxLogins,    \* bound: sign-ins to Privy
  MaxWallets,   \* bound: wallet objects that Privy lists
  MaxSwitches,  \* bound: chain switches
  MaxReloads    \* bound: page reloads

ASSUME PrivyAssumption ==
  /\ None \notin Users \union Chains /\ Wanted \subseteq Chains /\ Logout \in BOOLEAN
  /\ {MaxAttempts, MaxLogins, MaxWallets, MaxSwitches, MaxReloads} \subseteq Nat

Attempts == 1..MaxAttempts
Switches == 1..MaxSwitches

VARIABLES
  privy,      \* the snapshot: ready, login (0: signed out), user, loaded, wallet, dialog,
              \* and the users that have an embedded account
  conn,       \* session (its wallet), attached provider, chainId, watched, replacing
  flag,       \* stored: Privy is connected
  owed,       \* stored: a sign-out that Privy has not confirmed
  signing,    \* stage of signOut: none, ready, logout, gone
  attempt,    \* the current attempt, 0: none
  try,        \* of each attempt: stage, kind, asked (chain), loggedIn, began, to
  switching,  \* the flag of switchChain
  sw,         \* of each switch: stage, target, owner
  wagmi,      \* connections, current, status
  logins, wallets, reloads,
  barrier,    \* history: sign-ins up to this one were signed out by the user
  dismissed   \* history: disconnected, and no connect by the user since

outs == <<owed, signing, barrier>>
bounds == <<logins, wallets, reloads>>
vars == <<privy, conn, flag, outs, attempt, try, switching, sw, wagmi,
          bounds, dismissed>>

NoWallet == [user |-> None, id |-> 0]
NoReplacement == [wallet |-> NoWallet, chainId |-> None]
Detached ==
  [session |-> NoWallet, attached |-> None, chainId |-> None, watched |-> FALSE,
   replacing |-> NoReplacement]
Loading ==
  [ready |-> FALSE, login |-> 0, user |-> None, loaded |-> FALSE, wallet |-> NoWallet,
   dialog |-> FALSE, accounts |-> {}]
Unused ==
  [stage |-> "unused", kind |-> "user", asked |-> None, loggedIn |-> FALSE, began |-> None,
   to |-> NoWallet]
Past == [Unused EXCEPT !.stage = "over"]
NoSwitch == [stage |-> "unused", target |-> None, owner |-> 0]
OldSwitch == [NoSwitch EXCEPT !.stage = "over"]
Joined == MaxAttempts + 1  \* owner of a switch that a connect to the live session asks for

Init ==
  /\ privy = Loading
  /\ conn = Detached
  /\ flag = FALSE /\ owed = FALSE /\ signing = "none"
  /\ attempt = 0 /\ try = [a \in Attempts |-> Unused]
  /\ switching = FALSE /\ sw = [s \in Switches |-> NoSwitch]
  /\ wagmi = [connections |-> {}, current |-> None, status |-> "disconnected"]
  /\ logins = 0 /\ wallets = 0 /\ reloads = 0
  /\ barrier = 0 /\ dismissed = FALSE

Authenticated == privy.ready /\ privy.login # 0
Stage(a) == try[a].stage
Restore(a) == try[a].kind = "restore"
Mine(a) == attempt = a

\* The stages that go on by themselves.
Runnable(a) ==
  \/ Stage(a) = "ready" /\ privy.ready
  \/ Stage(a) = "signsOut" /\ signing = "none"
  \/ Stage(a) = "asksIn" /\ Authenticated /\ ~privy.dialog
  \/ Stage(a) = "logsIn" /\ ~privy.dialog
  \/ Stage(a) = "user" /\ Authenticated /\ privy.loaded
  \/ Stage(a) = "wallet" /\ (privy.wallet # NoWallet \/ (privy.ready /\ privy.login = 0))
  \/ Stage(a) \in {"commits", "unswitched"}

Quiet ==
  /\ ~(signing = "ready" /\ privy.ready) /\ ~(signing = "gone" /\ ~Authenticated)
  /\ \A a \in Attempts : ~Runnable(a)
  /\ \A s \in Switches : sw[s].stage \notin {"lists", "gives"}

-----------------------------------------------------------------------------
(* sessionWallet, and what onRuntimeChange makes of it.                     *)

Listed(p) == p.loaded /\ ~(p.user \in p.accounts /\ p.wallet = NoWallet)

\* Fail closed: never follow a different address.
Ends(p, u) == p.ready /\ (p.login = 0 \/ (Listed(p) /\ p.wallet.user # u))

Replaces(p, c) ==
  /\ p.ready /\ p.login # 0 /\ Listed(p) /\ p.wallet # c.session
  /\ c.replacing # [wallet |-> p.wallet, chainId |-> c.chainId]

\* Slip: the last connection stays current.
StaysCurrent(x) == [wagmi EXCEPT !.connections = wagmi.connections \ {x}]

\* wagmi drops a connection; another one becomes current.
Without(x) ==
  LET left == wagmi.connections \ {x}
  IN [connections |-> left,
      current |-> IF left = {} THEN None ELSE CHOOSE y \in left : TRUE,
      status |-> IF left = {} THEN "disconnected" ELSE wagmi.status]

\* onRuntimeChange for a snapshot p, on the connection c.
Seen(p, c, busy) ==
  LET ends == c.watched /\ ~busy /\ Ends(p, c.session.user) IN
  /\ flag' = (flag /\ ~ends)
  /\ wagmi' = IF ends THEN Without("privy") ELSE wagmi
  /\ conn' = IF ends THEN Detached
             ELSE IF c.watched /\ ~busy /\ Replaces(p, c)
                  THEN [c EXCEPT !.replacing = [wallet |-> p.wallet, chainId |-> c.chainId]]
                  ELSE c

\* The replacement's provider is there, or could not be had; mid-switch it is dropped.
ReplacementEnds ==
  /\ Quiet /\ conn.replacing # NoReplacement
  /\ conn' \in {[conn EXCEPT !.replacing = NoReplacement]} \union
       (IF switching THEN {}
        ELSE {[conn EXCEPT !.session = conn.replacing.wallet, !.replacing = NoReplacement,
                           !.attached = conn.replacing.wallet.user]})
  /\ UNCHANGED <<privy, flag, outs, attempt, try, switching, sw, wagmi,
                 bounds, dismissed>>

-----------------------------------------------------------------------------
(* Privy, as the bridge publishes it.                                       *)

Publish(p) ==
  /\ privy' = p /\ Seen(p, conn, switching)
  /\ UNCHANGED <<outs, attempt, try, switching, sw, reloads, dismissed>>

Loads ==
  /\ \/ ~privy.ready /\ Publish([privy EXCEPT !.ready = TRUE])
     \/ Authenticated /\ ~privy.loaded /\ Publish([privy EXCEPT !.loaded = TRUE])
     \/ privy.wallet # NoWallet /\ Publish([privy EXCEPT !.wallet = NoWallet])
     \/ privy.dialog /\ Publish([privy EXCEPT !.dialog = FALSE])
  /\ UNCHANGED <<logins, wallets>>

\* A wallet is created for the user, in Privy's dialog or by createWallet.
AccountAppears ==
  /\ Authenticated /\ privy.loaded /\ privy.user \notin privy.accounts
  /\ Publish([privy EXCEPT !.accounts = privy.accounts \union {privy.user}])
  /\ UNCHANGED <<logins, wallets>>

\* The user's wallet is listed, or listed anew.
ListsWallet ==
  /\ Authenticated /\ privy.loaded /\ privy.user \in privy.accounts /\ wallets < MaxWallets
  /\ wallets' = wallets + 1
  /\ Publish([privy EXCEPT !.wallet = [user |-> privy.user, id |-> wallets + 1]])
  /\ UNCHANGED logins

\* A sign-in, in Privy's dialog or, of another user, in another tab.
SignsIn ==
  /\ (privy.ready /\ privy.dialog) \/ Authenticated
  /\ logins < MaxLogins /\ logins' = logins + 1
  /\ \E u \in Users :
       Publish([privy EXCEPT !.login = logins + 1, !.user = u, !.loaded = FALSE, !.wallet = NoWallet])
  /\ UNCHANGED wallets

\* The session expires, or a logout is served, late or not.
SignsOff ==
  /\ privy.login # 0
  /\ Publish([privy EXCEPT !.login = 0, !.user = None, !.loaded = FALSE, !.wallet = NoWallet])
  /\ UNCHANGED <<logins, wallets>>

Privy == Quiet /\ (Loads \/ AccountAppears \/ ListsWallet \/ SignsIn \/ SignsOff)

-----------------------------------------------------------------------------
(* What connect and disconnect are built from.                              *)

\* signOut, joined when it runs already.
SignOut == signing' = IF signing = "none" THEN "ready" ELSE signing

\* Every sign-in so far must not be used again.
SignOutUser == owed' = TRUE /\ barrier' = logins /\ SignOut

\* Slip: a wait does not know the signal.
RunOn(tries) == tries

\* An abort rejects every wait but these two, after which the attempt looks itself.
Aborted(tries) ==
  [a \in Attempts |->
     IF tries[a].stage \in {"unused", "signsOut", "switches", "commits", "unswitched"}
     THEN tries[a] ELSE Past]

\* wagmi after a connect that failed.
Resting == IF wagmi.connections = {} THEN "disconnected" ELSE "connected"

To(a, s) == try' = [try EXCEPT ![a] = IF s = "over" THEN Past ELSE [@ EXCEPT !.stage = s]]

\* No flag was written, so a later disconnect would find nothing to sign out of.
MustSignOut(a) == Logout /\ ~Restore(a) /\ (try[a].loggedIn \/ Authenticated)

\* The `catch` and `finally` of connect: only the current attempt may tear down.
Fail(a) ==
  /\ To(a, "over")
  /\ wagmi' = [wagmi EXCEPT !.status = Resting]
  /\ \/ /\ Mine(a) /\ attempt' = 0
        /\ conn' = [Detached EXCEPT !.chainId = conn.chainId]
        /\ IF MustSignOut(a) THEN SignOutUser ELSE UNCHANGED outs
     \/ ~Mine(a) /\ UNCHANGED <<attempt, conn, outs>>
  /\ UNCHANGED <<privy, switching, sw, bounds, dismissed>>

Fails(a) == Fail(a) /\ UNCHANGED flag
FailsForGood(a) == Fail(a) /\ flag' = FALSE

Goes(a, s) ==
  /\ To(a, s)
  /\ UNCHANGED <<privy, conn, flag, outs, attempt, switching, sw, wagmi, bounds,
                 dismissed>>

Live == conn.session # NoWallet /\ conn.attached # None

\* switchChain up to its wait.
SwitchTo(target, owner) ==
  \E s \in Switches :
    /\ sw[s] = NoSwitch /\ \A o \in Switches : sw[o] = NoSwitch => s <= o
    /\ sw' = [sw EXCEPT ![s] = [stage |-> "asks", target |-> target, owner |-> owner]]
    /\ switching' = TRUE

Connected(w) == wagmi.connections \union {w}

\* wagmi lists the wallet of a connect that succeeded: as the current one, but not
\* when a reconnect has found another first.
Lists(restore) ==
  wagmi' \in {[connections |-> Connected("privy"), current |-> "privy", status |-> "connected"]}
             \union IF restore /\ wagmi.current # None
                    THEN {[wagmi EXCEPT !.connections = Connected("privy"), !.status = "connected"]}
                    ELSE {}

-----------------------------------------------------------------------------
(* connect, up to its first wait.                                           *)

\* Already attached: the live session is reported, on the chain asked for.
Joins(restore, asked) ==
  /\ Live
  /\ IF asked \notin {None, conn.chainId}
     THEN /\ SwitchTo(asked, Joined)
          /\ wagmi' = [wagmi EXCEPT !.status = "busy"]
     ELSE Lists(restore) /\ UNCHANGED <<switching, sw>>
  /\ UNCHANGED <<attempt, try>>

\* A background restore stands down.
MayStart(restore) == ~(restore /\ attempt # 0 /\ ~Restore(attempt))

Starts(restore, asked) ==
  /\ ~Live /\ MayStart(restore)
  /\ \E a \in Attempts :
       /\ Stage(a) = "unused" /\ \A o \in Attempts : Stage(o) = "unused" => a <= o
       /\ attempt' = a
       /\ try' = [Aborted(try) EXCEPT ![a] =
                    [Unused EXCEPT !.stage = "ready", !.asked = asked, !.began = wagmi.current,
                                   !.kind = IF restore THEN "restore" ELSE "user"]]
  /\ wagmi' = [wagmi EXCEPT !.status = "busy"]
  /\ UNCHANGED <<switching, sw>>

\* wagmi restores an authorized wallet, and refuses to connect the current one again.
Connect ==
  /\ Quiet
  /\ \/ /\ flag /\ (Joins(TRUE, None) \/ Starts(TRUE, None))
        /\ UNCHANGED dismissed
     \/ /\ wagmi.current # "privy"
        /\ \E c \in Wanted \union {None} : Joins(FALSE, c) \/ Starts(FALSE, c)
        /\ dismissed' = FALSE
  /\ UNCHANGED <<privy, conn, flag, outs, bounds>>

-----------------------------------------------------------------------------
(* connect, from wait to wait.                                              *)

\* Whether Privy's answer counts: a restore does not ask the user to sign in.
Trust(a) ==
  \/ Authenticated /\ Goes(a, "user")
  \/ ~Authenticated /\ Restore(a) /\ FailsForGood(a)
  \/ ~Authenticated /\ ~Restore(a) /\ Goes(a, "asksIn")

Ready(a) ==
  /\ Stage(a) = "ready" /\ privy.ready
  /\ \/ ~owed /\ Trust(a)
     \/ owed /\ Restore(a) /\ Fails(a)
     \/ /\ owed /\ ~Restore(a)
        /\ To(a, "signsOut") /\ SignOut
        /\ UNCHANGED <<privy, conn, flag, owed, barrier, attempt, switching, sw, wagmi,
                       bounds, dismissed>>

SignedOut(a) ==
  /\ Stage(a) = "signsOut" /\ signing = "none"
  /\ IF Mine(a) /\ ~owed THEN Trust(a) ELSE Fails(a)

\* Privy shows its dialog.
Opens(a) ==
  /\ Quiet /\ Stage(a) = "asksIn"
  /\ To(a, "logsIn") /\ privy' = [privy EXCEPT !.dialog = TRUE]
  /\ UNCHANGED <<conn, flag, outs, attempt, switching, sw, wagmi, bounds, dismissed>>

\* The dialog has closed; until then only Privy's callbacks end the sign-in.
LoggedIn(a) ==
  /\ Stage(a) \in {"asksIn", "logsIn"} /\ (privy.dialog => Quiet)
  /\ \/ /\ Authenticated
        /\ try' = [try EXCEPT ![a] = [@ EXCEPT !.stage = "user", !.loggedIn = TRUE]]
        /\ UNCHANGED <<privy, conn, flag, outs, attempt, switching, sw, wagmi, bounds,
                       dismissed>>
     \/ ~Authenticated /\ Stage(a) = "logsIn" /\ Fails(a)

User(a) ==
  /\ Stage(a) = "user" /\ Authenticated /\ privy.loaded
  /\ \/ privy.user \in privy.accounts /\ Goes(a, "wallet")
     \/ privy.user \notin privy.accounts /\ Restore(a) /\ FailsForGood(a)
     \/ privy.user \notin privy.accounts /\ ~Restore(a) /\ Goes(a, "creates")

Created(a) == Quiet /\ Stage(a) = "creates" /\ Goes(a, "wallet")

Wallet(a) ==
  /\ Stage(a) = "wallet"
  /\ \/ /\ privy.wallet # NoWallet
        /\ try' = [try EXCEPT ![a] = [@ EXCEPT !.stage = "prepares", !.to = privy.wallet]]
        /\ UNCHANGED <<privy, conn, flag, outs, attempt, switching, sw, wagmi, bounds,
                       dismissed>>
     \/ privy.wallet = NoWallet /\ privy.ready /\ privy.login = 0 /\ Fails(a)

\* The provider is attached, on whatever chain Privy last recorded.
Prepared(a) ==
  /\ Quiet /\ Stage(a) = "prepares"
  /\ \E c \in Chains :
       /\ conn' = [conn EXCEPT !.session = try[a].to, !.attached = try[a].to.user, !.chainId = c]
       /\ IF try[a].asked \notin {None, c}
          THEN To(a, "switches") /\ SwitchTo(try[a].asked, a)
          ELSE To(a, "commits") /\ UNCHANGED <<switching, sw>>
  /\ UNCHANGED <<privy, flag, outs, attempt, wagmi, bounds, dismissed>>

\* Another wallet has connected meanwhile.
Outrun(a) ==
  /\ wagmi.status = "connected" /\ wagmi.current \notin {None, "privy"}
  /\ Restore(a) \/ wagmi.current # try[a].began

\* `watch()` only sees later changes.
EndedMeanwhile == Ends(privy, conn.session.user)

Commit(a) ==
  /\ Stage(a) = "commits"
  /\ \/ (~Mine(a) \/ Outrun(a)) /\ Fails(a)
     \/ Mine(a) /\ ~Outrun(a) /\ EndedMeanwhile /\ FailsForGood(a)
     \/ /\ Mine(a) /\ ~Outrun(a) /\ ~EndedMeanwhile
        /\ flag' = TRUE /\ conn' = [conn EXCEPT !.watched = TRUE]
        /\ Lists(Restore(a))
        /\ attempt' = 0 /\ To(a, "over")
        /\ UNCHANGED <<privy, outs, switching, sw, bounds, dismissed>>

Unswitched(a) == Stage(a) = "unswitched" /\ Fails(a)

\* Its timer runs out, or Privy fails; the creation of a wallet is only waited for.
TimesOut(a) ==
  /\ Quiet
  /\ Stage(a) \in {"ready", "asksIn", "user", "wallet", "prepares"}
  /\ Stage(a) = "asksIn" => ~privy.dialog
  /\ Fails(a)

Settles(a) ==
  \/ Ready(a) \/ SignedOut(a) \/ LoggedIn(a) \/ User(a) \/ Created(a) \/ Wallet(a)
  \/ Prepared(a) \/ Commit(a) \/ Unswitched(a)

-----------------------------------------------------------------------------
(* signOut and disconnect.                                                  *)

\* Slip: the sign-out is believed as soon as the request has been served.
Believed == TRUE

Confirmed == ~Authenticated

SignOutStep ==
  /\ \/ signing = "ready" /\ privy.ready /\ signing' = "logout" /\ UNCHANGED owed
     \/ Quiet /\ signing = "logout" /\ signing' = "gone" /\ UNCHANGED owed
     \/ signing = "gone" /\ Confirmed /\ signing' = "none" /\ owed' = FALSE
     \/ Quiet /\ signing # "none" /\ signing' = "none" /\ UNCHANGED owed \* still owed
  /\ UNCHANGED <<privy, conn, flag, barrier, attempt, try, switching, sw, wagmi, bounds,
                 dismissed>>

\* EvmActions.disconnect: wagmi's connection, and the source wagmi may not list yet.
Disconnect ==
  /\ Quiet
  /\ "privy" \in wagmi.connections \/ attempt # 0 \/ conn.session # NoWallet \/ flag
  /\ attempt' = 0 /\ conn' = Detached /\ flag' = FALSE
  /\ try' = Aborted(try)
  /\ IF Logout THEN SignOutUser ELSE UNCHANGED outs
  /\ wagmi' = IF "privy" \in wagmi.connections THEN Without("privy")
              ELSE [wagmi EXCEPT !.status = Resting]
  /\ dismissed' = TRUE
  /\ UNCHANGED <<privy, switching, sw, bounds>>

-----------------------------------------------------------------------------
(* switchChain, other wallets and reloads.                                  *)

Switch ==
  /\ Quiet /\ Live
  /\ \E c \in Wanted : SwitchTo(c, 0)
  /\ UNCHANGED <<privy, conn, flag, outs, attempt, try, wagmi, bounds, dismissed>>

\* Slip: what happened during the switch is not looked at.
LooksAway(c) == Seen(privy, c, TRUE)

LooksAgain(c) == Seen(privy, c, FALSE)

\* The wallet is on the chain, or it refused; a late switch is not told apart.
Switched(s, done) ==
  /\ Quiet /\ sw[s].stage = "asks"
  /\ switching' = FALSE
  /\ LooksAgain(IF done THEN [conn EXCEPT !.chainId = sw[s].target] ELSE conn)
  /\ sw' = [sw EXCEPT ![s] = IF @.owner # Joined THEN OldSwitch
                             ELSE [@ EXCEPT !.stage = IF done THEN "lists" ELSE "gives"]]
  /\ IF sw[s].owner \in Attempts /\ Stage(sw[s].owner) = "switches"
     THEN To(sw[s].owner, IF done THEN "commits" ELSE "unswitched")
     ELSE UNCHANGED try
  /\ UNCHANGED <<privy, outs, attempt, bounds, dismissed>>

\* The connect that found a live session, after its switch.
Reports(s) ==
  /\ sw[s].stage \in {"lists", "gives"}
  /\ sw' = [sw EXCEPT ![s] = OldSwitch]
  /\ IF sw[s].stage = "lists" /\ conn.session # NoWallet THEN Lists(FALSE)
     ELSE wagmi' = [wagmi EXCEPT !.status = Resting]
  /\ UNCHANGED <<privy, conn, flag, outs, attempt, try, switching, bounds, dismissed>>

\* Another wallet connects or drops out.
Others ==
  /\ Quiet
  /\ \/ wagmi' = [connections |-> Connected("other"), current |-> "other", status |-> "connected"]
     \/ "other" \in wagmi.connections /\ wagmi' = Without("other")
  /\ UNCHANGED <<privy, conn, flag, outs, attempt, try, switching, sw, bounds, dismissed>>

\* Privy keeps its login, and the flags are stored.
Reload ==
  /\ Quiet /\ reloads < MaxReloads /\ reloads' = reloads + 1
  /\ privy' = [Loading EXCEPT !.login = privy.login, !.user = privy.user,
                              !.accounts = privy.accounts]
  /\ conn' = Detached /\ signing' = "none" /\ attempt' = 0 /\ switching' = FALSE
  /\ try' = [a \in Attempts |-> IF try[a] = Unused THEN Unused ELSE Past]
  /\ sw' = [s \in Switches |-> IF sw[s] = NoSwitch THEN NoSwitch ELSE OldSwitch]
  /\ wagmi' = [connections |-> {}, current |-> None, status |-> "disconnected"]
  /\ UNCHANGED <<flag, owed, logins, wallets, barrier, dismissed>>

Outside == Privy \/ Connect \/ Disconnect \/ Switch \/ Others \/ Reload

Attempt(a) == Settles(a) \/ Opens(a) \/ TimesOut(a)

Next ==
  \/ Outside \/ SignOutStep \/ ReplacementEnds
  \/ \E a \in Attempts : Attempt(a)
  \/ \E s \in Switches : (\E done \in BOOLEAN : Switched(s, done)) \/ Reports(s)

Spec == Init /\ [][Next]_vars

-----------------------------------------------------------------------------
Wallets == [user : Users, id : 1..MaxWallets] \union {NoWallet}
Snapshots ==
  [ready : BOOLEAN, login : 0..MaxLogins, user : Users \union {None}, loaded : BOOLEAN,
   wallet : Wallets, dialog : BOOLEAN, accounts : SUBSET Users]
Connections ==
  [session : Wallets, attached : Users \union {None}, chainId : Chains \union {None},
   watched : BOOLEAN, replacing : [wallet : Wallets, chainId : Chains \union {None}]]
Tries ==
  [stage : {"unused", "ready", "signsOut", "asksIn", "logsIn", "user", "creates", "wallet",
            "prepares", "switches", "commits", "unswitched", "over"},
   kind : {"user", "restore"}, asked : Chains \union {None}, loggedIn : BOOLEAN,
   began : {"privy", "other", None}, to : Wallets]
SwitchTypes ==
  [stage : {"unused", "asks", "lists", "gives", "over"}, target : Chains \union {None},
   owner : 0..Joined]
WagmiStates ==
  [connections : SUBSET {"privy", "other"}, current : {"privy", "other", None},
   status : {"disconnected", "busy", "connected"}]

\* Types; wagmi's current connection is one that it lists.
TypeOK ==
  /\ privy \in Snapshots /\ conn \in Connections
  /\ flag \in BOOLEAN /\ owed \in BOOLEAN
  /\ signing \in {"none", "ready", "logout", "gone"}
  /\ attempt \in 0..MaxAttempts /\ try \in [Attempts -> Tries]
  /\ switching \in BOOLEAN /\ sw \in [Switches -> SwitchTypes]
  /\ wagmi \in WagmiStates /\ wagmi.current \in wagmi.connections \union {None}
  /\ logins \in 0..MaxLogins /\ wallets \in 0..MaxWallets /\ reloads \in 0..MaxReloads
  /\ barrier \in 0..MaxLogins /\ dismissed \in BOOLEAN

\* Account changes are not followed: a request reaches the wallet of the session's own user
\* or nobody, and a session that Privy has ended, or given to somebody else, is gone unless
\* a switch is still out (sessionWallet, onRuntimeChange, switchChain).
AccountNotFollowed ==
  /\ conn.attached = conn.session.user
  /\ conn.watched => conn.session # NoWallet /\ (switching \/ ~Ends(privy, conn.attached))

\* A disconnect is final until the user connects again: no attempt, replacement, switch,
\* restore or reload brings the session or the listing back (disconnect, sdkDisconnect).
NothingRevives ==
  dismissed => conn.session = NoWallet /\ ~flag /\ "privy" \notin wagmi.connections

\* After a disconnect that signs out, no session is made of a sign-in that it was to end,
\* however often the sign-out fails, the page reloads or the user tries again (signOutOwed).
SignedOutStays ==
  [][Logout /\ ~conn.watched /\ conn'.watched => privy.login > barrier]_vars
=============================================================================
