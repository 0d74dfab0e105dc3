------------------------ MODULE PrivyConnectorProofs ------------------------
(***************************************************************************)
(* Proofs of the safety properties of PrivyConnector for every number of   *)
(* users, chains, attempts, sign-ins, wallets, switches and reloads.  The  *)
(* inductive invariant adds who owns the connection (Owned): before it     *)
(* attaches, the current attempt finds no session, and afterwards its      *)
(* session is unwatched; that a replacement is for the session's user; and *)
(* that Privy is signed in anew unless a sign-out is owed (Settled).       *)
(***************************************************************************)
EXTENDS PrivyConnector, TLAPS

\* Stages in which an abort ends the attempt, and those after the provider is attached.
Before == {"ready", "asksIn", "logsIn", "user", "creates", "wallet", "prepares"}
After == {"switches", "commits", "unswitched"}
Trusting == (Before \ {"ready"}) \union After

Owned ==
  \A a \in Attempts :
    /\ Stage(a) \in Before => Mine(a)
    /\ Stage(a) \in Trusting \union {"signsOut"} => privy.ready
    /\ Stage(a) = "prepares" => try[a].to # NoWallet
    /\ Mine(a) =>
         /\ Stage(a) \in Trusting \union {"ready", "signsOut"}
         /\ Stage(a) \in Before \union {"signsOut"} => conn.session = NoWallet
         /\ Stage(a) \in After => conn.session # NoWallet /\ ~conn.watched
         /\ Stage(a) \in Trusting => ~owed

Replacing ==
  conn.replacing # NoReplacement =>
    conn.watched /\ conn.replacing.wallet # NoWallet
    /\ conn.replacing.wallet.user = conn.session.user

Settled ==
  /\ barrier <= logins /\ privy.login <= logins
  /\ owed \/ privy.login = 0 \/ privy.login > barrier
  /\ signing \in {"logout", "gone"} => privy.ready
  /\ privy.login # 0 => privy.user # None

Final == NothingRevives /\ (dismissed => attempt = 0)

IInv == TypeOK /\ AccountNotFollowed /\ Owned /\ Replacing /\ Settled /\ Final

-----------------------------------------------------------------------------
(* What the operations are built from.                                      *)

LEMMA Bounds ==
  /\ MaxAttempts \in Nat /\ MaxLogins \in Nat /\ MaxWallets \in Nat
  /\ MaxSwitches \in Nat /\ MaxReloads \in Nat
BY PrivyAssumption

LEMMA Constants ==
  /\ NoWallet \in Wallets /\ NoReplacement \in [wallet : Wallets, chainId : Chains \union {None}]
  /\ Detached \in Connections /\ Unused \in Tries /\ Past \in Tries /\ Past.stage = "over"
  /\ \A w \in Wallets : w # NoWallet => w.user \in Users
  /\ NoSwitch \in SwitchTypes /\ OldSwitch \in SwitchTypes
  /\ Joined \in Nat /\ Attempts \subseteq 0..Joined
<1>1. NoWallet \in Wallets /\ NoReplacement \in [wallet : Wallets, chainId : Chains \union {None}]
  BY DEF NoWallet, Wallets, NoReplacement
<1>2. Detached \in Connections
  BY <1>1 DEF Detached, Connections
<1>3. Unused \in Tries /\ Past \in Tries /\ Past.stage = "over"
  BY <1>1 DEF Unused, Past, Tries
<1>4. \A w \in Wallets : w # NoWallet => w.user \in Users
  BY DEF Wallets
<1>5. Joined \in Nat /\ Attempts \subseteq 0..Joined
  BY Bounds DEF Joined, Attempts
<1>6. NoSwitch \in SwitchTypes /\ OldSwitch \in SwitchTypes
  BY <1>5 DEF NoSwitch, OldSwitch, SwitchTypes
<1>7. QED
  BY <1>1, <1>2, <1>3, <1>4, <1>5, <1>6

LEMMA ToStage ==
  ASSUME try \in [Attempts -> Tries], NEW a \in Attempts,
         NEW s \in {"signsOut", "asksIn", "logsIn", "user", "creates", "wallet", "switches",
                    "commits", "unswitched", "over"},
         To(a, s)
  PROVE  /\ try' \in [Attempts -> Tries] /\ try'[a].stage = s
         /\ \A b \in Attempts \ {a} : try'[b] = try[b]
<1>1. CASE s = "over"
  BY <1>1, Constants DEF To
<1>2. CASE s # "over"
  BY <1>2 DEF To, Tries
<1>3. QED
  BY <1>1, <1>2

LEMMA AbortedTries ==
  ASSUME try \in [Attempts -> Tries]
  PROVE  /\ Aborted(try) \in [Attempts -> Tries]
         /\ \A a \in Attempts :
              \/ Aborted(try)[a] = try[a]
                 /\ Stage(a) \in {"unused", "signsOut", "switches", "commits", "unswitched"}
              \/ Aborted(try)[a].stage = "over"
BY Constants DEF Aborted, Stage

LEMMA SwitchToType ==
  ASSUME sw \in [Switches -> SwitchTypes], NEW t \in Chains, NEW o \in 0..Joined, SwitchTo(t, o)
  PROVE  sw' \in [Switches -> SwitchTypes] /\ switching' = TRUE
BY DEF SwitchTo, SwitchTypes

LEMMA ListsType ==
  ASSUME wagmi \in WagmiStates, wagmi.current \in wagmi.connections \union {None},
         NEW r \in BOOLEAN, Lists(r)
  PROVE  wagmi' \in WagmiStates /\ wagmi'.current \in wagmi'.connections \union {None}
<1> DEFINE all == wagmi.connections \union {"privy"}
<1>0. all \in SUBSET {"privy", "other"} /\ wagmi.connections \subseteq all /\ "privy" \in all
  BY DEF WagmiStates
<1>1. CASE wagmi' = [connections |-> all, current |-> "privy", status |-> "connected"]
  BY <1>0, <1>1 DEF WagmiStates
<1>2. CASE wagmi' = [wagmi EXCEPT !.connections = all, !.status = "connected"]
  BY <1>0, <1>2 DEF WagmiStates
<1>3. QED
  BY <1>1, <1>2 DEF Lists, Connected

LEMMA WithoutType ==
  ASSUME wagmi \in WagmiStates, NEW x \in {"privy", "other"}
  PROVE  /\ Without(x) \in WagmiStates
         /\ Without(x).connections = wagmi.connections \ {x}
         /\ Without(x).current \in Without(x).connections \union {None}
BY DEF Without, WagmiStates

LEMMA SeenStep ==
  ASSUME NEW p \in Snapshots, NEW c \in Connections, NEW busy \in BOOLEAN, Seen(p, c, busy),
         wagmi \in WagmiStates, wagmi.current \in wagmi.connections \union {None}, flag \in BOOLEAN,
         c.attached = c.session.user,
         c.watched => c.session # NoWallet,
         c.replacing # NoReplacement =>
           c.watched /\ c.replacing.wallet # NoWallet /\ c.replacing.wallet.user = c.session.user
  PROVE  /\ conn' \in Connections /\ conn'.attached = conn'.session.user
         /\ conn'.watched => conn'.session # NoWallet /\ (busy \/ ~Ends(p, conn'.attached))
         /\ ~c.watched => conn' = c
         /\ conn'.watched => c.watched
         /\ Replacing'
         /\ conn'.session = NoWallet \/ conn'.session = c.session
         /\ flag' \in BOOLEAN /\ (flag' => flag)
         /\ wagmi' \in WagmiStates /\ wagmi'.current \in wagmi'.connections \union {None}
         /\ wagmi'.connections \subseteq wagmi.connections
<1> DEFINE ends == c.watched /\ ~busy /\ Ends(p, c.session.user)
<1>1. CASE ends
  <2>1. conn' = Detached /\ flag' = FALSE /\ wagmi' = Without("privy")
    BY <1>1 DEF Seen
  <2>2. QED
    BY <1>1, <2>1, Constants, WithoutType DEF Detached, Replacing, Ends, NoWallet
<1>2. CASE ~ends /\ c.watched /\ ~busy /\ Replaces(p, c)
  <2>1. /\ conn' = [c EXCEPT !.replacing = [wallet |-> p.wallet, chainId |-> c.chainId]]
        /\ flag' = flag /\ wagmi' = wagmi
    BY <1>2 DEF Seen
  <2>2. p.wallet \in Wallets /\ p.wallet.user = c.session.user
    BY <1>2 DEF Replaces, Ends, Snapshots
  <2>3. p.wallet # NoWallet
    BY <1>2, <2>2, Constants, PrivyAssumption DEF NoWallet, Connections
  <2>4. QED
    BY <1>2, <2>1, <2>2, <2>3 DEF Connections, Replacing
<1>3. CASE ~ends /\ ~(c.watched /\ ~busy /\ Replaces(p, c))
  <2>1. conn' = c /\ flag' = flag /\ wagmi' = wagmi
    BY <1>3 DEF Seen
  <2>2. QED
    BY <1>3, <2>1 DEF Replacing
<1>4. QED
  BY <1>1, <1>2, <1>3

-----------------------------------------------------------------------------
(* The invariant is inductive: the steps that share a shape.                *)

LEMMA Initially == Init => IInv
<1> SUFFICES ASSUME Init PROVE IInv
  OBVIOUS
<1> USE DEF Init
<1>1. privy \in Snapshots
  BY Bounds, Constants DEF Loading, Snapshots
<1>2. wagmi \in WagmiStates /\ wagmi.current \in wagmi.connections \union {None}
  BY DEF WagmiStates
<1>3. TypeOK
  <2>1. try \in [Attempts -> Tries] /\ sw \in [Switches -> SwitchTypes]
    BY Constants
  <2>2. conn \in Connections /\ flag \in BOOLEAN /\ owed \in BOOLEAN /\ switching \in BOOLEAN
        /\ dismissed \in BOOLEAN
    BY Constants
  <2>3. QED
    BY Bounds, <1>1, <1>2, <2>1, <2>2 DEF TypeOK
<1>4. AccountNotFollowed
  BY DEF AccountNotFollowed, Detached, NoWallet
<1>5. Owned /\ Replacing
  BY DEF Owned, Replacing, Stage, Unused, Mine, Attempts, Before, After, Trusting, Detached
<1>6. Settled
  BY DEF Settled, Loading
<1>7. Final
  BY DEF Final, NothingRevives
<1>8. QED
  BY <1>3, <1>4, <1>5, <1>6, <1>7 DEF IInv

\* Privy publishes a snapshot; a new sign-in has a new number.
LEMMA PublishStep ==
  ASSUME IInv, NEW p \in Snapshots, Publish(p), privy.ready => p.ready,
         logins' \in 0..MaxLogins, logins <= logins', p.login <= logins',
         p.login \in {0, privy.login} \/ p.login > logins, p.login # 0 => p.user # None,
         wallets' \in 0..MaxWallets
  PROVE  IInv'
<1> USE DEF IInv
<1>1. /\ privy' = p /\ Seen(p, conn, switching)
      /\ UNCHANGED <<owed, signing, barrier, attempt, try, switching, sw, reloads, dismissed>>
  BY DEF Publish, outs
<1>2. /\ conn' \in Connections /\ conn'.attached = conn'.session.user
      /\ conn'.watched => conn'.session # NoWallet /\ (switching \/ ~Ends(p, conn'.attached))
      /\ ~conn.watched => conn' = conn
      /\ Replacing'
      /\ conn'.session = NoWallet \/ conn'.session = conn.session
      /\ flag' \in BOOLEAN /\ (flag' => flag)
      /\ wagmi' \in WagmiStates /\ wagmi'.current \in wagmi'.connections \union {None}
      /\ wagmi'.connections \subseteq wagmi.connections
  BY <1>1, SeenStep DEF TypeOK, AccountNotFollowed, Replacing
<1>3. TypeOK'
  BY <1>1, <1>2 DEF TypeOK
<1>4. AccountNotFollowed'
  BY <1>1, <1>2 DEF AccountNotFollowed, Ends, Listed
<1>5. Owned'
  BY <1>1, <1>2 DEF Owned, Stage, Mine, AccountNotFollowed, Before, After, Trusting
<1>6. Settled'
  <2>1. /\ logins \in Int /\ logins' \in Int /\ barrier \in Int /\ privy.login \in Int
        /\ p.login \in Int
    BY Bounds DEF TypeOK, Snapshots
  <2>2. QED
    BY <1>1, <2>1 DEF Settled
<1>7. Final'
  BY <1>1, <1>2 DEF Final, NothingRevives
<1>8. QED
  BY <1>2, <1>3, <1>4, <1>5, <1>6, <1>7

LEMMA RestingType ==
  ASSUME wagmi \in WagmiStates, wagmi.current \in wagmi.connections \union {None},
         NEW s \in {Resting, "busy"}
  PROVE  /\ [wagmi EXCEPT !.status = s] \in WagmiStates
         /\ [wagmi EXCEPT !.status = s].current = wagmi.current
         /\ [wagmi EXCEPT !.status = s].connections = wagmi.connections
BY DEF WagmiStates, Resting

\* A connect fails: the current one leaves nothing behind, another one nothing at all.
LEMMA FailStep ==
  ASSUME IInv, NEW a \in Attempts, Fail(a), flag' \in BOOLEAN, flag' => flag
  PROVE  IInv'
<1> USE DEF IInv
<1>1. /\ try' \in [Attempts -> Tries] /\ try'[a].stage = "over"
      /\ \A b \in Attempts \ {a} : try'[b] = try[b]
  BY ToStage DEF Fail, TypeOK
<1>2. /\ wagmi' \in WagmiStates /\ wagmi'.current \in wagmi'.connections \union {None}
      /\ wagmi'.connections = wagmi.connections
  BY RestingType DEF Fail, TypeOK
<1>3. UNCHANGED <<privy, switching, sw, logins, wallets, reloads, dismissed>>
  BY DEF Fail, bounds
<1>4. 0 \notin Attempts
  BY DEF Attempts
<1>5. CASE Mine(a)
  <2>1. /\ attempt' = 0 /\ conn' = [Detached EXCEPT !.chainId = conn.chainId]
        /\ \/ owed' = TRUE /\ barrier' = logins /\ signing' = IF signing = "none" THEN "ready" ELSE signing
           \/ UNCHANGED <<owed, barrier, signing>>
    BY <1>4, <1>5 DEF Fail, SignOutUser, SignOut, outs
  <2>2. /\ conn' \in Connections /\ conn'.session = NoWallet /\ ~conn'.watched
        /\ conn'.attached = None /\ conn'.replacing = NoReplacement
    BY <2>1, Constants DEF Detached, Connections, TypeOK
  <2>3. TypeOK'
    <3>1. attempt' \in 0..MaxAttempts /\ barrier' \in 0..MaxLogins
          /\ signing' \in {"none", "ready", "logout", "gone"}
      BY <2>1, Bounds DEF TypeOK
    <3>2. owed' \in BOOLEAN
      BY <2>1 DEF TypeOK
    <3>3. QED
      BY <1>1, <1>2, <1>3, <2>2, <3>1, <3>2 DEF TypeOK
  <2>4. AccountNotFollowed' /\ Replacing'
    BY <2>2 DEF AccountNotFollowed, Replacing, NoWallet
  <2>5. Owned'
    BY <1>1, <1>3, <1>4, <1>5, <2>1 DEF Owned, Stage, Mine, Before, After, Trusting
  <2>6. Settled'
    BY <1>3, <2>1 DEF Settled, TypeOK
  <2>7. Final'
    BY <1>2, <1>3, <2>1, <2>2 DEF Final, NothingRevives
  <2>8. QED
    BY <2>3, <2>4, <2>5, <2>6, <2>7
<1>6. CASE ~Mine(a)
  <2>1. UNCHANGED <<attempt, conn, owed, signing, barrier>>
    BY <1>6 DEF Fail, outs
  <2>2. TypeOK'
    BY <1>1, <1>2, <1>3, <2>1 DEF TypeOK
  <2>3. AccountNotFollowed' /\ Replacing' /\ Settled' /\ Final'
    <3>1. AccountNotFollowed' /\ Replacing'
      BY <1>3, <2>1 DEF AccountNotFollowed, Ends, Listed, Replacing
    <3>2. Settled'
      BY <1>3, <2>1 DEF Settled
    <3>3. Final'
      BY <1>2, <1>3, <2>1 DEF Final, NothingRevives
    <3>4. QED
      BY <3>1, <3>2, <3>3
  <2>4. Owned'
    BY <1>1, <1>3, <1>6, <2>1 DEF Owned, Stage, Mine, Before, After, Trusting
  <2>5. QED
    BY <2>2, <2>3, <2>4
<1>7. QED
  BY <1>5, <1>6

LEMMA FailsSteps == ASSUME IInv, NEW a \in Attempts, Fails(a) \/ FailsForGood(a) PROVE IInv'
<1>1. CASE Fails(a)
  BY <1>1, FailStep DEF Fails, IInv, TypeOK
<1>2. CASE FailsForGood(a)
  BY <1>2, FailStep DEF FailsForGood
<1>3. QED
  BY <1>1, <1>2

\* The current attempt goes on, before it attaches a provider.
LEMMA AdvanceStep ==
  ASSUME IInv, NEW a \in Attempts, Mine(a), privy.ready,
         Stage(a) \in Before \union {"signsOut"},
         try' \in [Attempts -> Tries], \A b \in Attempts \ {a} : try'[b] = try[b],
         try'[a].stage \in (Trusting \ After) \union {"signsOut"},
         try'[a].stage = "prepares" => try'[a].to # NoWallet,
         try'[a].stage \in Trusting => ~owed,
         privy' \in {privy, [privy EXCEPT !.dialog = TRUE]}, signing' \in {signing, "ready"},
         UNCHANGED <<conn, flag, owed, barrier, attempt, switching, sw, wagmi, bounds, dismissed>>
  PROVE  IInv'
<1> USE DEF IInv
<1>1. privy' \in Snapshots
  BY DEF TypeOK, Snapshots
<1>2. /\ privy'.ready = privy.ready /\ privy'.login = privy.login /\ privy'.user = privy.user
      /\ privy'.loaded = privy.loaded /\ privy'.wallet = privy.wallet
      /\ privy'.accounts = privy.accounts
  BY DEF TypeOK, Snapshots
<1>3. TypeOK'
  BY <1>1 DEF TypeOK, bounds
<1>4. AccountNotFollowed'
  BY <1>2 DEF AccountNotFollowed, Ends, Listed
<1>5. Owned'
  BY <1>2 DEF Owned, Stage, Mine, Before, After, Trusting
<1>6. Replacing' /\ Settled' /\ Final'
  BY <1>2 DEF Replacing, Settled, bounds, Final, NothingRevives
<1>7. QED
  BY <1>3, <1>4, <1>5, <1>6

\* An attempt is current as long as it waits for something that an abort ends.
LEMMA Waits ==
  ASSUME IInv, NEW a \in Attempts, Stage(a) \in Before
  PROVE  Mine(a) /\ (Stage(a) # "ready" => privy.ready /\ ~owed) /\ conn.session = NoWallet
BY DEF IInv, Owned, Trusting, Mine

LEMMA GoesStep ==
  ASSUME IInv, NEW a \in Attempts, Mine(a), privy.ready, ~owed,
         Stage(a) \in Before \union {"signsOut"},
         NEW s \in {"asksIn", "user", "creates", "wallet"}, Goes(a, s)
  PROVE  IInv'
<1>1. /\ try' \in [Attempts -> Tries] /\ try'[a].stage = s
      /\ \A b \in Attempts \ {a} : try'[b] = try[b]
  BY ToStage DEF Goes, IInv, TypeOK
<1>2. /\ UNCHANGED <<privy, signing, conn, flag, owed, barrier, attempt, switching, sw, wagmi,
                     bounds, dismissed>>
  BY DEF Goes, outs
<1>3. QED
  BY <1>1, <1>2, AdvanceStep DEF Trusting, Before, After

LEMMA TrustStep ==
  ASSUME IInv, NEW a \in Attempts, Mine(a), privy.ready, ~owed,
         Stage(a) \in Before \union {"signsOut"}, Trust(a)
  PROVE  IInv'
BY GoesStep, FailsSteps DEF Trust

LEMMA ReadyStep == ASSUME IInv, NEW a \in Attempts, Ready(a) PROVE IInv'
<1>1. Stage(a) = "ready" /\ privy.ready /\ Mine(a) /\ Stage(a) \in Before
  BY Waits DEF Ready, Before
<1>2. CASE ~owed /\ Trust(a)
  BY <1>1, <1>2, TrustStep
<1>3. CASE Fails(a)
  BY <1>3, FailsSteps
<1>4. CASE /\ To(a, "signsOut") /\ SignOut
           /\ UNCHANGED <<privy, conn, flag, owed, barrier, attempt, switching, sw, wagmi,
                          bounds, dismissed>>
  <2>1. /\ try' \in [Attempts -> Tries] /\ try'[a].stage = "signsOut"
        /\ \A b \in Attempts \ {a} : try'[b] = try[b]
    BY <1>4, ToStage DEF IInv, TypeOK
  <2>2. signing' \in {signing, "ready"}
    BY <1>4 DEF SignOut
  <2>3. QED
    BY <1>1, <1>4, <2>1, <2>2, AdvanceStep DEF Trusting, Before, After
<1>5. QED
  BY <1>2, <1>3, <1>4 DEF Ready

LEMMA SignedOutStep == ASSUME IInv, NEW a \in Attempts, SignedOut(a) PROVE IInv'
<1>1. Stage(a) = "signsOut" /\ privy.ready
  BY DEF SignedOut, IInv, Owned
<1>2. CASE Mine(a) /\ ~owed
  BY <1>1, <1>2, TrustStep DEF SignedOut
<1>3. CASE ~(Mine(a) /\ ~owed)
  BY <1>3, FailsSteps DEF SignedOut
<1>4. QED
  BY <1>2, <1>3

LEMMA OpensStep == ASSUME IInv, NEW a \in Attempts, Opens(a) PROVE IInv'
<1>1. Stage(a) \in Before /\ Mine(a) /\ privy.ready /\ ~owed
  BY Waits DEF Opens, Before
<1>2. /\ try' \in [Attempts -> Tries] /\ try'[a].stage = "logsIn"
      /\ \A b \in Attempts \ {a} : try'[b] = try[b]
  BY ToStage DEF Opens, IInv, TypeOK
<1>3. QED
  BY <1>1, <1>2, AdvanceStep DEF Opens, outs, Trusting, Before, After

LEMMA LoggedInStep == ASSUME IInv, NEW a \in Attempts, LoggedIn(a) PROVE IInv'
<1>1. Stage(a) \in Before /\ Mine(a) /\ privy.ready /\ ~owed
  BY Waits DEF LoggedIn, Before
<1>2. CASE /\ try' = [try EXCEPT ![a] = [@ EXCEPT !.stage = "user", !.loggedIn = TRUE]]
           /\ UNCHANGED <<privy, conn, flag, outs, attempt, switching, sw, wagmi, bounds, dismissed>>
  <2>1. /\ try' \in [Attempts -> Tries] /\ try'[a].stage = "user"
        /\ \A b \in Attempts \ {a} : try'[b] = try[b]
    <3>1. [try[a] EXCEPT !.stage = "user", !.loggedIn = TRUE] \in Tries
      BY DEF IInv, TypeOK, Tries
    <3>2. QED
      BY <1>2, <3>1 DEF IInv, TypeOK, Tries
  <2>2. QED
    BY <1>1, <1>2, <2>1, AdvanceStep DEF outs, Trusting, Before, After
<1>3. CASE Fails(a)
  BY <1>3, FailsSteps
<1>4. QED
  BY <1>2, <1>3 DEF LoggedIn

LEMMA UserStep == ASSUME IInv, NEW a \in Attempts, User(a) \/ Created(a) PROVE IInv'
<1>1. Stage(a) \in Before /\ Mine(a) /\ privy.ready /\ ~owed
  BY Waits DEF User, Created, Before
<1>2. QED
  BY <1>1, GoesStep, FailsSteps DEF User, Created

LEMMA WalletStep == ASSUME IInv, NEW a \in Attempts, Wallet(a) PROVE IInv'
<1>1. Stage(a) \in Before /\ Mine(a) /\ privy.ready /\ ~owed
  BY Waits DEF Wallet, Before
<1>2. CASE /\ privy.wallet # NoWallet
           /\ try' = [try EXCEPT ![a] = [@ EXCEPT !.stage = "prepares", !.to = privy.wallet]]
           /\ UNCHANGED <<privy, conn, flag, outs, attempt, switching, sw, wagmi, bounds, dismissed>>
  <2>1. /\ try' \in [Attempts -> Tries] /\ try'[a].stage = "prepares"
        /\ try'[a].to = privy.wallet
        /\ \A b \in Attempts \ {a} : try'[b] = try[b]
    <3>1. [try[a] EXCEPT !.stage = "prepares", !.to = privy.wallet] \in Tries
      <4>1. privy.wallet \in Wallets /\ try[a] \in Tries
        BY DEF IInv, TypeOK, Snapshots
      <4>2. QED
        BY <4>1 DEF Tries
    <3>2. QED
      BY <1>2, <3>1 DEF IInv, TypeOK, Tries
  <2>2. QED
    BY <1>1, <1>2, <2>1, AdvanceStep DEF outs, Trusting, Before, After
<1>3. CASE Fails(a)
  BY <1>3, FailsSteps
<1>4. QED
  BY <1>2, <1>3 DEF Wallet

LEMMA SwitchToStep ==
  ASSUME IInv, NEW t \in Chains, NEW o \in 0..Joined, SwitchTo(t, o)
  PROVE  sw' \in [Switches -> SwitchTypes] /\ switching' = TRUE
BY SwitchToType DEF IInv, TypeOK

LEMMA PreparedStep == ASSUME IInv, NEW a \in Attempts, Prepared(a) PROVE IInv'
<1> USE DEF IInv
<1>1. Mine(a) /\ privy.ready /\ ~owed /\ conn.session = NoWallet /\ Stage(a) = "prepares"
  BY Waits DEF Prepared, Before
<1>2. PICK c \in Chains :
        /\ conn' = [conn EXCEPT !.session = try[a].to, !.attached = try[a].to.user, !.chainId = c]
        /\ IF try[a].asked \notin {None, c}
           THEN To(a, "switches") /\ SwitchTo(try[a].asked, a)
           ELSE To(a, "commits") /\ UNCHANGED <<switching, sw>>
  BY DEF Prepared
<1>3. /\ UNCHANGED <<privy, flag, owed, signing, barrier, attempt, wagmi, logins, wallets, reloads,
                     dismissed>>
  BY DEF Prepared, outs, bounds
<1>4. /\ try[a].to \in Wallets /\ try[a].to # NoWallet /\ try[a].to.user \in Users
      /\ try[a].asked \in Chains \union {None}
  <2>1. try[a] \in Tries /\ try[a].to # NoWallet
    BY <1>1 DEF TypeOK, Owned, Stage
  <2>2. QED
    BY <2>1, Constants DEF Tries
<1>5. /\ try' \in [Attempts -> Tries] /\ try'[a].stage \in {"switches", "commits"}
      /\ \A b \in Attempts \ {a} : try'[b] = try[b]
      /\ sw' \in [Switches -> SwitchTypes] /\ switching' \in BOOLEAN
  <2>1. CASE try[a].asked \notin {None, c}
    BY <1>2, <1>4, <2>1, ToStage, SwitchToStep, Constants DEF TypeOK
  <2>2. CASE ~(try[a].asked \notin {None, c})
    BY <1>2, <2>2, ToStage DEF TypeOK
  <2>3. QED
    BY <2>1, <2>2
<1>6. ~conn.watched /\ conn.replacing = NoReplacement
  BY <1>1 DEF AccountNotFollowed, Replacing
<1>7. /\ conn' \in Connections /\ conn'.session # NoWallet /\ conn'.attached = conn'.session.user
      /\ ~conn'.watched /\ conn'.replacing = NoReplacement
  BY <1>2, <1>4, <1>6 DEF TypeOK, Connections
<1>8. TypeOK'
  BY <1>3, <1>5, <1>7 DEF TypeOK
<1>9. AccountNotFollowed' /\ Replacing'
  BY <1>7 DEF AccountNotFollowed, Replacing
<1>10. Owned'
  BY <1>1, <1>3, <1>5, <1>7 DEF Owned, Stage, Mine, Before, After, Trusting
<1>11. Settled'
  BY <1>3 DEF Settled
<1>12. Final'
  <2>1. ~dismissed
    BY <1>1 DEF Final, Mine, Attempts
  <2>2. QED
    BY <1>3, <2>1 DEF Final, NothingRevives
<1>13. QED
  BY <1>8, <1>9, <1>10, <1>11, <1>12

LEMMA CommitStep == ASSUME IInv, NEW a \in Attempts, Commit(a) PROVE IInv'
<1> USE DEF IInv
<1>1. CASE Fails(a) \/ FailsForGood(a)
  BY <1>1, FailsSteps
<1>2. CASE /\ Mine(a) /\ ~Outrun(a) /\ ~EndedMeanwhile
           /\ flag' = TRUE /\ conn' = [conn EXCEPT !.watched = TRUE]
           /\ Lists(Restore(a))
           /\ attempt' = 0 /\ To(a, "over")
           /\ UNCHANGED <<privy, outs, switching, sw, bounds, dismissed>>
  <2>1. /\ UNCHANGED <<privy, owed, signing, barrier, switching, sw, logins, wallets, reloads,
                       dismissed>>
    BY <1>2 DEF outs, bounds
  <2>2. /\ try' \in [Attempts -> Tries] /\ try'[a].stage = "over"
        /\ \A b \in Attempts \ {a} : try'[b] = try[b]
    BY <1>2, ToStage DEF TypeOK
  <2>3. wagmi' \in WagmiStates /\ wagmi'.current \in wagmi'.connections \union {None}
    BY <1>2, ListsType DEF TypeOK, Restore
  <2>4. /\ conn' \in Connections /\ conn'.session = conn.session /\ conn'.attached = conn.attached
        /\ conn'.watched /\ conn'.replacing = conn.replacing
    BY <1>2 DEF TypeOK, Connections
  <2>5. conn.session # NoWallet /\ ~dismissed
    BY <1>2 DEF Commit, Owned, After, Final, Mine, Attempts
  <2>6. TypeOK'
    BY <1>2, <2>1, <2>2, <2>3, <2>4, Bounds DEF TypeOK
  <2>7. AccountNotFollowed'
    BY <1>2, <2>1, <2>4, <2>5 DEF AccountNotFollowed, EndedMeanwhile
  <2>8. Owned'
    BY <1>2, <2>1, <2>2 DEF Owned, Stage, Mine, Attempts, Before, After, Trusting
  <2>9. Replacing' /\ Settled' /\ Final'
    BY <2>1, <2>4, <2>5 DEF Replacing, Settled, Final, NothingRevives
  <2>10. QED
    BY <2>6, <2>7, <2>8, <2>9
<1>3. QED
  BY <1>1, <1>2 DEF Commit

LEMMA ReplacementStep == ASSUME IInv, ReplacementEnds PROVE IInv'
<1> USE DEF IInv
<1>1. /\ UNCHANGED <<privy, flag, owed, signing, barrier, attempt, try, switching, sw, wagmi,
                     logins, wallets, reloads, dismissed>>
  BY DEF ReplacementEnds, outs, bounds
<1>2. /\ conn.watched /\ conn.replacing.wallet # NoWallet /\ conn.session # NoWallet
      /\ conn.replacing.wallet.user = conn.session.user /\ conn.session.user = conn.attached
      /\ conn.replacing.wallet \in Wallets /\ conn.replacing.wallet.user \in Users
  <2>1. conn.watched /\ conn.replacing.wallet # NoWallet
        /\ conn.replacing.wallet.user = conn.session.user
    BY DEF ReplacementEnds, Replacing
  <2>2. conn.replacing.wallet \in Wallets
    BY DEF TypeOK, Connections
  <2>3. QED
    BY <2>1, <2>2, Constants DEF AccountNotFollowed
<1>3. /\ conn' \in Connections /\ conn'.session # NoWallet /\ conn'.watched
      /\ conn'.attached = conn.attached /\ conn'.session.user = conn'.attached
      /\ conn'.replacing = NoReplacement
  <2>1. CASE conn' = [conn EXCEPT !.replacing = NoReplacement]
    BY <1>2, <2>1, Constants DEF TypeOK, Connections
  <2>2. CASE conn' = [conn EXCEPT !.session = conn.replacing.wallet, !.replacing = NoReplacement,
                                  !.attached = conn.replacing.wallet.user]
    BY <1>2, <2>2, Constants DEF TypeOK, Connections
  <2>3. QED
    BY <2>1, <2>2 DEF ReplacementEnds
<1>4. TypeOK'
  BY <1>1, <1>3 DEF TypeOK
<1>5. AccountNotFollowed' /\ Replacing'
  <2>1. switching' \/ ~Ends(privy, conn.attached)'
    BY <1>1, <1>2, <1>3 DEF AccountNotFollowed, Ends, Listed
  <2>2. QED
    BY <1>3, <2>1 DEF AccountNotFollowed, Replacing
<1>6. \A a \in Attempts : ~Mine(a)
  BY <1>2 DEF Owned, Trusting, Before, After
<1>7. Owned'
  BY <1>1, <1>6 DEF Owned, Stage, Mine
<1>8. Settled' /\ Final'
  BY <1>1, <1>2 DEF Settled, Final, NothingRevives
<1>9. QED
  BY <1>4, <1>5, <1>7, <1>8

LEMMA PrivyStep == ASSUME IInv, Privy PROVE IInv'
<1> USE DEF IInv
<1>1. privy \in Snapshots /\ logins \in 0..MaxLogins /\ wallets \in 0..MaxWallets
      /\ privy.login <= logins /\ (privy.login # 0 => privy.user # None)
  BY DEF TypeOK, Settled
<1>2. privy.login \in Int /\ logins \in Int
  BY <1>1 DEF Snapshots
<1>3. CASE Loads
  <2>1. PICK p \in Snapshots : Publish(p) /\ (privy.ready => p.ready)
                            /\ p.login = privy.login /\ p.user = privy.user
    <3>1. /\ [privy EXCEPT !.ready = TRUE] \in Snapshots /\ [privy EXCEPT !.loaded = TRUE] \in Snapshots
          /\ [privy EXCEPT !.wallet = NoWallet] \in Snapshots
          /\ [privy EXCEPT !.dialog = FALSE] \in Snapshots
      BY <1>1, Constants DEF Snapshots
    <3>2. QED
      BY <1>1, <1>3, <3>1 DEF Loads, Snapshots
  <2>2. UNCHANGED <<logins, wallets>>
    BY <1>3 DEF Loads
  <2>3. QED
    BY <1>1, <1>2, <2>1, <2>2, PublishStep
<1>4. CASE AccountAppears
  <2> DEFINE p == [privy EXCEPT !.accounts = privy.accounts \union {privy.user}]
  <2>1. privy.user \in Users
    BY <1>1, <1>4 DEF AccountAppears, Authenticated, Snapshots
  <2>2. p \in Snapshots /\ p.ready = privy.ready /\ p.login = privy.login /\ p.user = privy.user
    BY <1>1, <2>1 DEF Snapshots
  <2>4. logins' = logins /\ wallets' = wallets /\ Publish(p)
    BY <1>4 DEF AccountAppears
  <2> HIDE DEF p
  <2>5. QED
    BY <1>1, <1>2, <2>2, <2>4, PublishStep
<1>5. CASE ListsWallet
  <2> DEFINE p == [privy EXCEPT !.wallet = [user |-> privy.user, id |-> wallets + 1]]
  <2>1. privy.user \in Users /\ wallets + 1 \in 1..MaxWallets /\ wallets' = wallets + 1
    BY <1>1, <1>5, Bounds DEF ListsWallet, Snapshots
  <2>2. [user |-> privy.user, id |-> wallets + 1] \in Wallets
    BY <2>1 DEF Wallets
  <2>3. p \in Snapshots /\ p.ready = privy.ready /\ p.login = privy.login /\ p.user = privy.user
    BY <1>1, <2>2 DEF Snapshots
  <2>4. wallets' \in 0..MaxWallets /\ logins' = logins /\ Publish(p)
    BY <1>5, <2>1 DEF ListsWallet
  <2> HIDE DEF p
  <2>5. QED
    BY <1>1, <1>2, <2>3, <2>4, PublishStep
<1>6. CASE SignsIn
  <2>1. PICK u \in Users :
          Publish([privy EXCEPT !.login = logins + 1, !.user = u, !.loaded = FALSE, !.wallet = NoWallet])
    BY <1>6 DEF SignsIn
  <2> DEFINE p == [privy EXCEPT !.login = logins + 1, !.user = u, !.loaded = FALSE, !.wallet = NoWallet]
  <2>2. logins' = logins + 1 /\ logins + 1 \in 0..MaxLogins /\ wallets' = wallets
    BY <1>1, <1>6, Bounds DEF SignsIn
  <2>3. p \in Snapshots /\ p.ready = privy.ready /\ p.login = logins + 1 /\ p.user # None
    BY <1>1, <2>2, Constants, PrivyAssumption DEF Snapshots
  <2>4. Publish(p)
    BY <2>1
  <2> HIDE DEF p
  <2>5. QED
    BY <1>1, <1>2, <2>2, <2>3, <2>4, PublishStep
<1>7. CASE SignsOff
  <2> DEFINE p == [privy EXCEPT !.login = 0, !.user = None, !.loaded = FALSE, !.wallet = NoWallet]
  <2>1. p \in Snapshots /\ p.ready = privy.ready /\ p.login = 0
    <3>1. 0 \in 0..MaxLogins /\ NoWallet \in Wallets
      BY Constants, Bounds
    <3>2. QED
      BY <1>1, <3>1 DEF Snapshots
  <2>2. logins' = logins /\ wallets' = wallets /\ Publish(p)
    BY <1>7 DEF SignsOff
  <2> HIDE DEF p
  <2>3. QED
    BY <1>1, <1>2, <2>1, <2>2, PublishStep
<1>8. QED
  BY <1>3, <1>4, <1>5, <1>6, <1>7 DEF Privy

LEMMA LiveSession == ASSUME IInv PROVE Live <=> conn.session # NoWallet
<1>1. conn.session \in Wallets /\ conn.attached = conn.session.user
  BY DEF IInv, TypeOK, Connections, AccountNotFollowed
<1>2. conn.session # NoWallet => conn.attached # None
  BY <1>1, Constants, PrivyAssumption
<1>3. QED
  BY <1>2 DEF Live

\* A switch begins, and perhaps wagmi lists Privy or is busy: nothing else changes.
LEMMA LiveStep ==
  ASSUME IInv, ~dismissed, dismissed' = FALSE,
         sw' \in [Switches -> SwitchTypes], switching' = TRUE \/ UNCHANGED switching,
         wagmi' \in WagmiStates, wagmi'.current \in wagmi'.connections \union {None},
         UNCHANGED <<privy, conn, flag, outs, attempt, try, bounds>>
  PROVE  IInv'
<1> USE DEF IInv
<1>1. UNCHANGED <<owed, signing, barrier, logins, wallets, reloads>>
  BY DEF outs, bounds
<1>2. TypeOK'
  BY <1>1 DEF TypeOK
<1>3. AccountNotFollowed'
  BY DEF AccountNotFollowed, Ends, Listed
<1>4. Owned'
  BY <1>1 DEF Owned, Stage, Mine
<1>5. Replacing' /\ Settled' /\ Final'
  BY <1>1 DEF Replacing, Settled, Final, NothingRevives
<1>6. QED
  BY <1>2, <1>3, <1>4, <1>5

LEMMA SwitchStep == ASSUME IInv, Switch PROVE IInv'
<1>0. conn.session # NoWallet
  BY LiveSession DEF Switch
<1>1. ~dismissed
  BY <1>0 DEF IInv, Final, NothingRevives
<1>2. sw' \in [Switches -> SwitchTypes] /\ switching' = TRUE
  <2>1. PICK c \in Wanted : SwitchTo(c, 0)
    BY DEF Switch
  <2>2. c \in Chains /\ 0 \in 0..Joined
    BY PrivyAssumption, Constants
  <2>3. QED
    BY <2>1, <2>2, SwitchToStep
<1>3. QED
  BY <1>1, <1>2, LiveStep DEF Switch, IInv, TypeOK

LEMMA JoinsStep ==
  ASSUME IInv, NEW r \in BOOLEAN, NEW c \in Wanted \union {None}, Joins(r, c),
         dismissed' \in BOOLEAN, dismissed' => dismissed,
         UNCHANGED <<privy, conn, flag, outs, bounds>>
  PROVE  IInv'
<1>0. conn.session # NoWallet
  BY LiveSession DEF Joins
<1>1. ~dismissed /\ dismissed' = FALSE
  BY <1>0 DEF IInv, Final, NothingRevives
<1>2. UNCHANGED <<attempt, try>>
  BY DEF Joins
<1>3. CASE c \notin {None, conn.chainId}
  <2>1. c \in Chains /\ SwitchTo(c, Joined) /\ wagmi' = [wagmi EXCEPT !.status = "busy"]
    BY <1>3, PrivyAssumption DEF Joins
  <2>2. sw' \in [Switches -> SwitchTypes] /\ switching' = TRUE
    <3>1. Joined \in 0..Joined
      BY Constants
    <3>2. QED
      BY <2>1, <3>1, SwitchToStep
  <2>3. wagmi' \in WagmiStates /\ wagmi'.current \in wagmi'.connections \union {None}
    BY <2>1, RestingType DEF IInv, TypeOK
  <2>4. QED
    BY <1>1, <1>2, <2>2, <2>3, LiveStep
<1>4. CASE ~(c \notin {None, conn.chainId})
  <2>1. Lists(r) /\ UNCHANGED <<switching, sw>>
    BY <1>4 DEF Joins
  <2>2. wagmi' \in WagmiStates /\ wagmi'.current \in wagmi'.connections \union {None}
    BY <2>1, ListsType DEF IInv, TypeOK
  <2>3. QED
    BY <1>1, <1>2, <2>1, <2>2, LiveStep DEF IInv, TypeOK
<1>5. QED
  BY <1>3, <1>4

\* The old attempt ends, or will find that it is not the current one any more.
LEMMA StartsStep ==
  ASSUME IInv, NEW r \in BOOLEAN, NEW c \in Chains \union {None}, Starts(r, c), ~dismissed',
         dismissed' \in BOOLEAN, UNCHANGED <<privy, conn, flag, outs, bounds>>
  PROVE  IInv'
<1> USE DEF IInv
<1>1. PICK a \in Attempts :
        /\ attempt' = a
        /\ try' = [Aborted(try) EXCEPT ![a] =
                     [Unused EXCEPT !.stage = "ready", !.asked = c, !.began = wagmi.current,
                                    !.kind = IF r THEN "restore" ELSE "user"]]
  BY DEF Starts
<1>2. conn.session = NoWallet
  BY LiveSession DEF Starts
<1>3. UNCHANGED <<owed, signing, barrier, logins, wallets, reloads, switching, sw>>
  BY DEF outs, bounds, Starts
<1>4. /\ wagmi' \in WagmiStates /\ wagmi'.current \in wagmi'.connections \union {None}
  BY RestingType DEF Starts, TypeOK
<1>5. /\ try' \in [Attempts -> Tries] /\ try'[a].stage = "ready"
      /\ \A b \in Attempts \ {a} : try'[b] = Aborted(try)[b]
  <2> DEFINE new == [Unused EXCEPT !.stage = "ready", !.asked = c, !.began = wagmi.current,
                                   !.kind = IF r THEN "restore" ELSE "user"]
  <2>1. new \in Tries /\ new.stage = "ready"
    <3>1. Unused \in Tries /\ wagmi.current \in {"privy", "other", None}
      BY Constants DEF TypeOK, WagmiStates
    <3>2. QED
      BY <3>1 DEF Tries
  <2>2. Aborted(try) \in [Attempts -> Tries]
    BY AbortedTries DEF TypeOK
  <2>3. try' = [Aborted(try) EXCEPT ![a] = new]
    BY <1>1
  <2> HIDE DEF new
  <2>4. QED
    BY <2>1, <2>2, <2>3
<1>6. \A b \in Attempts \ {a} :
        \/ try'[b] = try[b] /\ Stage(b) \in {"unused", "signsOut"} \union After
        \/ try'[b].stage = "over"
  BY <1>5, AbortedTries DEF TypeOK, After
<1>7. TypeOK'
  BY <1>1, <1>3, <1>4, <1>5, Bounds DEF TypeOK, Attempts
<1>8. AccountNotFollowed'
  BY <1>3 DEF AccountNotFollowed, Ends, Listed
<1>9. Owned'
  BY <1>1, <1>2, <1>3, <1>5, <1>6 DEF Owned, Stage, Mine, Before, After, Trusting
<1>10. Replacing' /\ Settled' /\ Final'
  BY <1>3 DEF Replacing, Settled, Final, NothingRevives
<1>11. QED
  BY <1>7, <1>8, <1>9, <1>10

LEMMA ConnectStep == ASSUME IInv, Connect PROVE IInv'
<1>1. UNCHANGED <<privy, conn, flag, outs, bounds>>
  BY DEF Connect
<1>2. dismissed \in BOOLEAN
  BY DEF IInv, TypeOK
<1>3. CASE flag /\ (Joins(TRUE, None) \/ Starts(TRUE, None)) /\ UNCHANGED dismissed
  <2>1. ~dismissed
    BY <1>3 DEF IInv, Final, NothingRevives
  <2>2. QED
    BY <1>1, <1>2, <1>3, <2>1, JoinsStep, StartsStep
<1>4. CASE (\E c \in Wanted \union {None} : Joins(FALSE, c) \/ Starts(FALSE, c)) /\ dismissed' = FALSE
  BY <1>1, <1>2, <1>4, JoinsStep, StartsStep, PrivyAssumption
<1>5. QED
  BY <1>3, <1>4 DEF Connect

LEMMA DisconnectStep == ASSUME IInv, Disconnect PROVE IInv'
<1> USE DEF IInv
<1>1. /\ attempt' = 0 /\ conn' = Detached /\ flag' = FALSE /\ dismissed' = TRUE
      /\ try' = Aborted(try)
      /\ UNCHANGED <<privy, switching, sw, logins, wallets, reloads>>
  BY DEF Disconnect, bounds
<1>2. \/ owed' = TRUE /\ barrier' = logins /\ signing' = IF signing = "none" THEN "ready" ELSE signing
      \/ UNCHANGED <<owed, barrier, signing>>
  BY DEF Disconnect, SignOutUser, SignOut, outs
<1>3. /\ wagmi' \in WagmiStates /\ wagmi'.current \in wagmi'.connections \union {None}
      /\ "privy" \notin wagmi'.connections
  <2>1. CASE "privy" \in wagmi.connections
    BY <2>1, WithoutType DEF Disconnect, TypeOK
  <2>2. CASE "privy" \notin wagmi.connections
    BY <2>2, RestingType DEF Disconnect, TypeOK
  <2>3. QED
    BY <2>1, <2>2
<1>4. /\ try' \in [Attempts -> Tries]
      /\ \A b \in Attempts :
           \/ try'[b] = try[b] /\ Stage(b) \in {"unused", "signsOut"} \union After
           \/ try'[b].stage = "over"
  BY <1>1, AbortedTries DEF TypeOK, After
<1>5. TypeOK'
  <2>1. attempt' \in 0..MaxAttempts /\ barrier' \in 0..MaxLogins
        /\ signing' \in {"none", "ready", "logout", "gone"}
    BY <1>1, <1>2, Bounds DEF TypeOK
  <2>2. owed' \in BOOLEAN
    BY <1>2 DEF TypeOK
  <2>3. QED
    BY <1>1, <1>3, <1>4, <2>1, <2>2, Constants DEF TypeOK
<1>6. conn'.session = NoWallet /\ ~conn'.watched /\ conn'.attached = None
      /\ conn'.replacing = NoReplacement
  BY <1>1 DEF Detached
<1>7. AccountNotFollowed' /\ Replacing'
  BY <1>6 DEF AccountNotFollowed, Replacing, NoWallet
<1>8. Owned'
  BY <1>1, <1>4 DEF Owned, Stage, Mine, Attempts, Before, After, Trusting
<1>9. Settled'
  BY <1>1, <1>2 DEF Settled, TypeOK
<1>10. Final'
  BY <1>1, <1>3, <1>6 DEF Final, NothingRevives
<1>11. QED
  BY <1>5, <1>7, <1>8, <1>9, <1>10

LEMMA SignOutStepStep == ASSUME IInv, SignOutStep PROVE IInv'
<1> USE DEF IInv
<1>1. UNCHANGED <<privy, conn, flag, barrier, attempt, try, switching, sw, wagmi, logins, wallets,
                  reloads, dismissed>>
  BY DEF SignOutStep, bounds
<1>2. /\ signing' \in {"none", "logout", "gone"} /\ (owed' => owed) /\ owed' \in BOOLEAN
      /\ signing' # "none" => privy.ready
      /\ owed /\ ~owed' => privy.login = 0
  <2>0. owed \in BOOLEAN /\ (signing \in {"logout", "gone"} => privy.ready)
    BY DEF TypeOK, Settled
  <2>1. CASE signing = "ready" /\ privy.ready /\ signing' = "logout" /\ UNCHANGED owed
    BY <2>0, <2>1
  <2>2. CASE signing = "logout" /\ signing' = "gone" /\ UNCHANGED owed
    BY <2>0, <2>2
  <2>3. CASE signing = "gone" /\ Confirmed /\ signing' = "none" /\ owed' = FALSE
    BY <2>0, <2>3 DEF Confirmed, Authenticated
  <2>4. CASE signing' = "none" /\ UNCHANGED owed
    BY <2>0, <2>4
  <2>5. QED
    BY <2>1, <2>2, <2>3, <2>4 DEF SignOutStep
<1>3. TypeOK'
  BY <1>1, <1>2 DEF TypeOK
<1>4. AccountNotFollowed' /\ Replacing'
  BY <1>1 DEF AccountNotFollowed, Ends, Listed, Replacing
<1>5. Owned'
  BY <1>1, <1>2 DEF Owned, Stage, Mine
<1>6. Settled' /\ Final'
  BY <1>1, <1>2 DEF Settled, Final, NothingRevives
<1>7. QED
  BY <1>3, <1>4, <1>5, <1>6

LEMMA SwitchedStep ==
  ASSUME IInv, NEW s \in Switches, NEW done \in BOOLEAN, Switched(s, done)
  PROVE  IInv'
<1> USE DEF IInv
<1> DEFINE c == IF done THEN [conn EXCEPT !.chainId = sw[s].target] ELSE conn
<1>1. /\ switching' = FALSE /\ Seen(privy, c, FALSE)
      /\ UNCHANGED <<privy, owed, signing, barrier, attempt, logins, wallets, reloads, dismissed>>
  BY DEF Switched, LooksAgain, outs, bounds
<1>2. /\ c \in Connections /\ c.session = conn.session /\ c.attached = conn.attached
      /\ c.watched = conn.watched /\ c.replacing = conn.replacing
  <2>1. sw[s].target \in Chains \union {None}
    BY DEF TypeOK, SwitchTypes
  <2>2. QED
    BY <2>1 DEF TypeOK, Connections
<1>3. privy \in Snapshots /\ wagmi \in WagmiStates /\ wagmi.current \in wagmi.connections \union {None}
      /\ flag \in BOOLEAN
  BY DEF TypeOK
<1>4. /\ conn' \in Connections /\ conn'.attached = conn'.session.user
      /\ conn'.watched => conn'.session # NoWallet /\ ~Ends(privy, conn'.attached)
      /\ ~conn.watched => conn'.session = conn.session /\ ~conn'.watched
      /\ Replacing'
      /\ conn'.session = NoWallet \/ conn'.session = conn.session
      /\ flag' \in BOOLEAN /\ (flag' => flag)
      /\ wagmi' \in WagmiStates /\ wagmi'.current \in wagmi'.connections \union {None}
      /\ wagmi'.connections \subseteq wagmi.connections
  <2> HIDE DEF c
  <2>1. /\ c.attached = c.session.user /\ (c.watched => c.session # NoWallet)
        /\ c.replacing # NoReplacement =>
             c.watched /\ c.replacing.wallet # NoWallet /\ c.replacing.wallet.user = c.session.user
    BY <1>2 DEF AccountNotFollowed, Replacing
  <2>2. QED
    BY <1>1, <1>2, <1>3, <2>1, SeenStep
<1>5. sw' \in [Switches -> SwitchTypes]
  <2>1. [sw[s] EXCEPT !.stage = IF done THEN "lists" ELSE "gives"] \in SwitchTypes
    BY DEF TypeOK, SwitchTypes
  <2>2. QED
    BY <2>1, Constants DEF Switched, TypeOK
<1>6. /\ try' \in [Attempts -> Tries]
      /\ \A b \in Attempts : \/ try'[b] = try[b]
                             \/ Stage(b) = "switches" /\ try'[b].stage \in {"commits", "unswitched"}
  <2>1. CASE sw[s].owner \in Attempts /\ Stage(sw[s].owner) = "switches"
    BY <2>1, ToStage DEF Switched, TypeOK
  <2>2. CASE ~(sw[s].owner \in Attempts /\ Stage(sw[s].owner) = "switches")
    BY <2>2 DEF Switched, TypeOK
  <2>3. QED
    BY <2>1, <2>2
<1>7. TypeOK'
  BY <1>1, <1>4, <1>5, <1>6 DEF TypeOK
<1>8. AccountNotFollowed'
  BY <1>1, <1>4 DEF AccountNotFollowed, Ends, Listed
<1>9. Owned'
  BY <1>1, <1>4, <1>6 DEF Owned, Stage, Mine, AccountNotFollowed, Before, After, Trusting
<1>10. Settled' /\ Final'
  BY <1>1, <1>4 DEF Settled, Final, NothingRevives
<1>11. QED
  BY <1>4, <1>7, <1>8, <1>9, <1>10

LEMMA ReportsStep == ASSUME IInv, NEW s \in Switches, Reports(s) PROVE IInv'
<1> USE DEF IInv
<1>1. /\ UNCHANGED <<privy, conn, flag, outs, attempt, try, switching, bounds, dismissed>>
      /\ sw' \in [Switches -> SwitchTypes]
  BY Constants DEF Reports, TypeOK
<1>2. UNCHANGED <<owed, signing, barrier, logins, wallets, reloads>>
  BY <1>1 DEF outs, bounds
<1>3. /\ wagmi' \in WagmiStates /\ wagmi'.current \in wagmi'.connections \union {None}
      /\ wagmi'.connections = wagmi.connections \/ conn.session # NoWallet
  BY ListsType, RestingType DEF Reports, TypeOK
<1>4. TypeOK'
  BY <1>1, <1>2, <1>3 DEF TypeOK
<1>5. AccountNotFollowed' /\ Replacing'
  BY <1>1 DEF AccountNotFollowed, Ends, Listed, Replacing
<1>6. Owned'
  BY <1>1, <1>2 DEF Owned, Stage, Mine
<1>7. Settled' /\ Final'
  BY <1>1, <1>2, <1>3 DEF Settled, Final, NothingRevives
<1>8. QED
  BY <1>4, <1>5, <1>6, <1>7

LEMMA OthersStep == ASSUME IInv, Others PROVE IInv'
<1> USE DEF IInv
<1>1. UNCHANGED <<privy, conn, flag, owed, signing, barrier, attempt, try, switching, sw, logins,
                  wallets, reloads, dismissed>>
  BY DEF Others, outs, bounds
<1>2. /\ wagmi' \in WagmiStates /\ wagmi'.current \in wagmi'.connections \union {None}
      /\ wagmi'.connections \subseteq wagmi.connections \union {"other"}
  <2>1. CASE wagmi' = [connections |-> Connected("other"), current |-> "other", status |-> "connected"]
    BY <2>1 DEF Connected, TypeOK, WagmiStates
  <2>2. CASE wagmi' = Without("other")
    BY <2>2, WithoutType DEF TypeOK
  <2>3. QED
    BY <2>1, <2>2 DEF Others
<1>3. TypeOK'
  BY <1>1, <1>2 DEF TypeOK
<1>4. AccountNotFollowed' /\ Replacing'
  BY <1>1 DEF AccountNotFollowed, Ends, Listed, Replacing
<1>5. Owned'
  BY <1>1 DEF Owned, Stage, Mine
<1>6. Settled' /\ Final'
  BY <1>1, <1>2 DEF Settled, Final, NothingRevives
<1>7. QED
  BY <1>3, <1>4, <1>5, <1>6

LEMMA ReloadStep == ASSUME IInv, Reload PROVE IInv'
<1> USE DEF IInv
<1>1. /\ conn' = Detached /\ signing' = "none" /\ attempt' = 0 /\ switching' = FALSE
      /\ reloads' = reloads + 1 /\ reloads < MaxReloads
      /\ UNCHANGED <<flag, owed, logins, wallets, barrier, dismissed>>
  BY DEF Reload
<1>2. privy' \in Snapshots /\ privy'.login = privy.login /\ privy'.user = privy.user
  BY Constants DEF Reload, Loading, Snapshots, TypeOK
<1>3. /\ try' \in [Attempts -> Tries]
      /\ \A b \in Attempts : try'[b].stage \in {"unused", "over"}
  BY Constants DEF Reload, Unused
<1>4. sw' \in [Switches -> SwitchTypes]
  BY Constants DEF Reload
<1>5. /\ wagmi' \in WagmiStates /\ wagmi'.current \in wagmi'.connections \union {None}
      /\ wagmi'.connections = {}
  BY DEF Reload, WagmiStates
<1>6. TypeOK'
  <2>1. attempt' \in 0..MaxAttempts /\ reloads' \in 0..MaxReloads
    BY <1>1, Bounds DEF TypeOK
  <2>2. QED
    BY <1>1, <1>2, <1>3, <1>4, <1>5, <2>1, Constants DEF TypeOK
<1>7. conn'.session = NoWallet /\ ~conn'.watched /\ conn'.attached = None
      /\ conn'.replacing = NoReplacement
  BY <1>1 DEF Detached
<1>8. AccountNotFollowed' /\ Replacing'
  BY <1>7 DEF AccountNotFollowed, Replacing, NoWallet
<1>9. Owned'
  BY <1>1, <1>3 DEF Owned, Stage, Mine, Attempts, Before, After, Trusting
<1>10. Settled' /\ Final'
  BY <1>1, <1>2, <1>5, <1>7 DEF Settled, Final, NothingRevives
<1>11. QED
  BY <1>6, <1>8, <1>9, <1>10

-----------------------------------------------------------------------------
(* The theorems.                                                            *)

LEMMA Stutters == ASSUME IInv, UNCHANGED vars PROVE IInv'
<1>1. UNCHANGED <<privy, conn, flag, owed, signing, barrier, attempt, try, switching, sw, wagmi,
                  logins, wallets, reloads, dismissed>>
  BY DEF vars, outs, bounds
<1>2. TypeOK' /\ AccountNotFollowed' /\ Replacing'
  BY <1>1 DEF IInv, TypeOK, AccountNotFollowed, Ends, Listed, Replacing
<1>3. Owned' /\ Settled' /\ Final'
  BY <1>1 DEF IInv, Owned, Stage, Mine, Settled, Final, NothingRevives
<1>4. QED
  BY <1>2, <1>3 DEF IInv

LEMMA Inductive == IInv /\ [Next]_vars => IInv'
<1> SUFFICES ASSUME IInv, [Next]_vars PROVE IInv'
  OBVIOUS
<1>1. CASE Outside
  BY <1>1, PrivyStep, ConnectStep, DisconnectStep, SwitchStep, OthersStep, ReloadStep DEF Outside
<1>2. CASE SignOutStep \/ ReplacementEnds
  BY <1>2, SignOutStepStep, ReplacementStep
<1>3. ASSUME NEW a \in Attempts, Attempt(a) PROVE IInv'
  <2>1. CASE Settles(a)
    BY <2>1, ReadyStep, SignedOutStep, LoggedInStep, UserStep, WalletStep, PreparedStep, CommitStep,
       FailsSteps DEF Settles, Unswitched
  <2>2. CASE Opens(a) \/ TimesOut(a)
    BY <2>2, OpensStep, FailsSteps DEF TimesOut
  <2>3. QED
    BY <1>3, <2>1, <2>2 DEF Attempt
<1>4. ASSUME NEW s \in Switches, (\E done \in BOOLEAN : Switched(s, done)) \/ Reports(s) PROVE IInv'
  BY <1>4, SwitchedStep, ReportsStep
<1>5. QED
  BY <1>1, <1>2, <1>3, <1>4, Stutters DEF Next

\* The inductive invariant holds throughout (privyConnector).
THEOREM Invariance == Spec => []IInv
BY Initially, Inductive, PTL DEF Spec

\* Every variable keeps its type.
THEOREM TypeCorrect == Spec => []TypeOK
<1>1. IInv => TypeOK
  BY DEF IInv
<1>2. QED
  BY <1>1, Invariance, PTL

\* The connector never follows another account, whatever Privy does and whenever a
\* replacement or a switch is answered (sessionWallet, onRuntimeChange).
THEOREM AccountCorrect == Spec => []AccountNotFollowed
<1>1. IInv => AccountNotFollowed
  BY DEF IInv
<1>2. QED
  BY <1>1, Invariance, PTL

\* A disconnect is final until the user connects again (disconnect, sdkDisconnect).
THEOREM DisconnectCorrect == Spec => []NothingRevives
<1>1. IInv => NothingRevives
  BY DEF IInv, Final
<1>2. QED
  BY <1>1, Invariance, PTL

\* Only a commit has the session watched.
LEMMA WatchedByCommit ==
  ASSUME IInv, [Next]_vars, ~conn.watched, conn'.watched
  PROVE  \E a \in Attempts : Mine(a) /\ Stage(a) = "commits" /\ ~EndedMeanwhile /\ UNCHANGED barrier
<1>0. conn \in Connections
  BY DEF IInv, TypeOK
<1>1. \A p, busy : Seen(p, conn, busy) => ~conn'.watched
  BY DEF Seen, Detached
<1>2. \A a : Fail(a) => ~conn'.watched
  BY <1>0 DEF Fail, Detached
<1>3. ~UNCHANGED conn
  OBVIOUS
<1>4. ~Privy
  BY <1>1, <1>3 DEF Privy, Loads, AccountAppears, ListsWallet, SignsIn, SignsOff, Publish
<1>5. ~(Connect \/ Disconnect \/ Switch \/ Others \/ Reload \/ SignOutStep)
  <2>1. ~(Connect \/ Switch \/ Others \/ SignOutStep)
    BY <1>3 DEF Connect, Switch, Others, SignOutStep
  <2>2. ~Disconnect
    BY DEF Disconnect, Detached
  <2>3. ~Reload
    BY DEF Reload, Detached
  <2>4. QED
    BY <2>1, <2>2, <2>3
<1>6. ~ReplacementEnds
  BY <1>0 DEF ReplacementEnds, Connections
<1>7. \A s : ~Reports(s)
  BY <1>3 DEF Reports
<1>8. \A s \in Switches : \A done \in BOOLEAN : ~Switched(s, done)
  <2> SUFFICES ASSUME NEW s \in Switches, NEW done \in BOOLEAN, Switched(s, done) PROVE FALSE
    OBVIOUS
  <2>1. CASE done
    <3> DEFINE c == [conn EXCEPT !.chainId = sw[s].target]
    <3>1. Seen(privy, c, FALSE) /\ ~c.watched
      BY <1>0, <2>1 DEF Switched, LooksAgain, Connections
    <3> HIDE DEF c
    <3>2. QED
      BY <3>1 DEF Seen, Detached
  <2>2. CASE ~done
    BY <1>1, <2>2 DEF Switched, LooksAgain
  <2>3. QED
    BY <2>1, <2>2
<1>9. ASSUME NEW a \in Attempts, Attempt(a)
      PROVE  Mine(a) /\ Stage(a) = "commits" /\ ~EndedMeanwhile /\ UNCHANGED barrier
  <2>1. ~Fails(a) /\ ~FailsForGood(a)
    BY <1>2 DEF Fails, FailsForGood
  <2>2. ~Trust(a)
    BY <1>3, <2>1 DEF Trust, Goes
  <2>3. ~(Ready(a) \/ SignedOut(a) \/ LoggedIn(a) \/ User(a) \/ Created(a) \/ Wallet(a)
          \/ Unswitched(a) \/ Opens(a) \/ TimesOut(a))
    BY <1>3, <2>1, <2>2 DEF Ready, SignedOut, LoggedIn, User, Created, Wallet, Unswitched, Opens,
       TimesOut, Goes
  <2>4. ~Prepared(a)
    BY <1>0 DEF Prepared, Connections
  <2>5. Commit(a)
    BY <1>9, <2>3, <2>4 DEF Attempt, Settles
  <2>6. QED
    BY <2>1, <2>5 DEF Commit, outs
<1>10. CASE UNCHANGED vars
  BY <1>3, <1>10 DEF vars
<1>11. CASE Next
  BY <1>4, <1>5, <1>6, <1>7, <1>8, <1>9, <1>11 DEF Next, Outside
<1>12. QED
  BY <1>10, <1>11

\* After a disconnect that signs out, no session is made of a sign-in that it was to end
\* (signOutOwed, connect).
THEOREM SignOutCorrect == Spec => SignedOutStays
<1>1. IInv /\ [Next]_vars => (Logout /\ ~conn.watched /\ conn'.watched => privy.login > barrier)
  <2> SUFFICES ASSUME IInv, [Next]_vars, ~conn.watched, conn'.watched PROVE privy.login > barrier
    OBVIOUS
  <2>1. PICK a \in Attempts : Mine(a) /\ Stage(a) = "commits" /\ ~EndedMeanwhile
    BY WatchedByCommit
  <2>2. ~owed /\ privy.ready
    BY <2>1 DEF IInv, Owned, Trusting, After
  <2>3. privy.login # 0
    BY <2>1, <2>2 DEF EndedMeanwhile, Ends
  <2>4. QED
    BY <2>2, <2>3 DEF IInv, Settled
<1>2. QED
  BY <1>1, Invariance, PTL DEF Spec, SignedOutStays

-----------------------------------------------------------------------------
(* A session belongs to one user.                                           *)

KeepsUser == conn.watched /\ conn'.watched => conn'.session.user = conn.session.user

LEMMA SeenKeepsUser ==
  ASSUME NEW p, NEW c \in Connections, NEW busy, Seen(p, c, busy), c.session = conn.session
  PROVE  ~conn'.watched \/ conn'.session.user = conn.session.user
<1>1. conn' \in {Detached, c, [c EXCEPT !.replacing = [wallet |-> p.wallet, chainId |-> c.chainId]]}
  BY DEF Seen
<1>2. CASE conn' = Detached
  BY <1>2 DEF Detached
<1>3. CASE conn' = c
  BY <1>3
<1>4. CASE conn' = [c EXCEPT !.replacing = [wallet |-> p.wallet, chainId |-> c.chainId]]
  BY <1>4 DEF Connections
<1>5. QED
  BY <1>1, <1>2, <1>3, <1>4

\* An attempt finds no watched session to change: before it attaches there is none, and
\* until it commits its own is not watched.
LEMMA AttemptKeepsUser == ASSUME IInv, NEW a \in Attempts, Attempt(a) PROVE KeepsUser
<1>1. CASE UNCHANGED conn
  BY <1>1 DEF KeepsUser
<1>2. ASSUME Fail(a) PROVE KeepsUser
  <2>1. CASE UNCHANGED conn
    BY <1>1, <2>1
  <2>2. CASE conn' = [Detached EXCEPT !.chainId = conn.chainId]
    BY <2>2 DEF Detached, KeepsUser
  <2>3. QED
    BY <1>2, <2>1, <2>2 DEF Fail
<1>3. ASSUME Trust(a) PROVE KeepsUser
  BY <1>1, <1>2, <1>3 DEF Trust, Goes, FailsForGood
<1>4. CASE Prepared(a)
  <2>1. conn.session = NoWallet
    BY <1>4, Waits DEF Prepared, Before
  <2>2. QED
    BY <2>1 DEF KeepsUser, IInv, AccountNotFollowed
<1>5. CASE Commit(a)
  <2>1. CASE Mine(a)
    BY <1>5, <2>1 DEF Commit, IInv, Owned, After, KeepsUser
  <2>2. CASE ~Mine(a)
    BY <1>2, <1>5, <2>2 DEF Commit, Fails
  <2>3. QED
    BY <2>1, <2>2
<1>6. CASE Ready(a) \/ SignedOut(a)
  BY <1>1, <1>2, <1>3, <1>6 DEF Ready, SignedOut, Fails
<1>7. CASE \/ LoggedIn(a) \/ User(a) \/ Created(a) \/ Wallet(a) \/ Unswitched(a)
           \/ Opens(a) \/ TimesOut(a)
  BY <1>1, <1>2, <1>7 DEF LoggedIn, User, Created, Wallet, Unswitched, Opens, TimesOut, Goes, Fails,
     FailsForGood
<1>8. QED
  BY <1>4, <1>5, <1>6, <1>7 DEF Attempt, Settles

LEMMA StepKeepsUser == ASSUME IInv, [Next]_vars PROVE KeepsUser
<1>0. conn \in Connections
  BY DEF IInv, TypeOK
<1>1. CASE UNCHANGED conn
  BY <1>1 DEF KeepsUser
<1>2. CASE Privy
  <2>1. \E p : Seen(p, conn, switching)
    BY <1>2 DEF Privy, Loads, AccountAppears, ListsWallet, SignsIn, SignsOff, Publish
  <2>2. QED
    BY <1>0, <2>1, SeenKeepsUser DEF KeepsUser
<1>3. CASE Disconnect \/ Reload
  BY <1>3 DEF Disconnect, Reload, Detached, KeepsUser
<1>4. CASE Connect \/ Switch \/ Others \/ SignOutStep \/ UNCHANGED vars
  BY <1>1, <1>4 DEF Connect, Switch, Others, SignOutStep, vars
<1>5. CASE ReplacementEnds
  <2>1. conn.replacing # NoReplacement /\ conn.replacing.wallet.user = conn.session.user
    BY <1>5 DEF ReplacementEnds, IInv, Replacing
  <2>2. conn'.session \in {conn.session, conn.replacing.wallet}
    BY <1>0, <1>5 DEF ReplacementEnds, Connections
  <2>3. QED
    BY <2>1, <2>2 DEF KeepsUser
<1>6. ASSUME NEW s \in Switches, NEW done \in BOOLEAN, Switched(s, done) PROVE KeepsUser
  <2> DEFINE c == IF done THEN [conn EXCEPT !.chainId = sw[s].target] ELSE conn
  <2>1. Seen(privy, c, FALSE)
    BY <1>6 DEF Switched, LooksAgain
  <2>2. c \in Connections /\ c.session = conn.session
    BY <1>0 DEF Connections, IInv, TypeOK, SwitchTypes
  <2> HIDE DEF c
  <2>3. QED
    BY <2>1, <2>2, SeenKeepsUser DEF KeepsUser
<1>7. ASSUME NEW s \in Switches, Reports(s) PROVE KeepsUser
  BY <1>1, <1>7 DEF Reports
<1>8. QED
  BY <1>2, <1>3, <1>4, <1>5, <1>6, <1>7, AttemptKeepsUser DEF Next, Outside

\* A session that dapps rely on never passes to another user without ending first,
\* whatever mix of sign-ins, replaced wallets, connects and switches happens while it
\* lasts (sessionWallet, onRuntimeChange, connect).
THEOREM SessionKeepsUser == Spec => [][KeepsUser]_vars
  BY StepKeepsUser, Invariance, PTL DEF Spec
=============================================================================
