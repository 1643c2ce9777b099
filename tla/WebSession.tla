-------------------------------- MODULE WebSession --------------------------------
(* The signed-in session of the browser (src/frontend/src): the token store of     *)
(* store/authStore.ts, the axios interceptors of utils/request.ts that refresh an  *)
(* expired access token once for all requests that need it, the ProtectedRoute of  *)
(* App.tsx that verifies the token before it shows a page, and the two effects of  *)
(* the login page.  The backend is external: it issues pairs of tokens (pair n is  *)
(* access token n and refresh token n), may answer 401 to any token at any time    *)
(* (they expire), and keeps a refresh token usable after it was used.              *)
EXTENDS Naturals, Sequences, FiniteSets

CONSTANTS
    User,       \* who may sign in
    Request,    \* requests the shown page may have in flight
    Verify,     \* calls of verifyToken that may be in flight
    None,       \* no user, no verification
    MaxTokens,  \* bound: pairs of tokens issued
    MaxReloads  \* bound: reloads of the page

ASSUME SessionAssumption ==
    /\ Request \cap Verify = {}
    /\ None \notin User \cup Request \cup Verify
    /\ MaxTokens \in Nat
    /\ MaxReloads \in Nat

VARIABLES
    owners,     \* owners[n]: the user pair n was issued to
    local,      \* localStorage: auth_token and refresh_token
    store,      \* the zustand store, persisted as auth-storage
    call,       \* requests and verifications
    refreshing, \* isRefreshing; refreshedWith: the refresh token that was sent
    refreshedWith,
    page,       \* "login" or "app" (any page behind ProtectedRoute)
    shown,      \* authState = 'authenticated' of the mounted ProtectedRoute
    mine,       \* its running checkAuth (checkingRef), or None
    changed,    \* an effect that depends on the store has still to run
    reloads,
    overlap,    \* ghost: signed in or out while a refresh or a check was in flight
    missed      \* ghost: an effect that should have seen a sign-out was dropped

vars == <<owners, local, store, call, refreshing, refreshedWith, page, shown,
          mine, changed, reloads, overlap, missed>>

Call == Request \cup Verify
Issued == 1 .. Len(owners)
Token == 0 .. MaxTokens        \* 0: no token

\* What a call is doing.  "sent": on its way to the server and back.  "asking": its
\* 401 made it call /auth/refresh.  "queued": it waits in refreshSubscribers.  "ok"
\* and "failed": a verification whose caller has not continued yet.  "settings":
\* checkAuth reads the settings after a successful verification.
CallStates == {"idle", "sent", "asking", "queued", "ok", "failed", "settings"}
Idle == [at |-> "idle", token |-> 0, retried |-> FALSE, captured |-> 0, probe |-> FALSE]

SignedOut == [access |-> 0, refresh |-> 0, user |-> None, signedIn |-> FALSE]
NoTokens == [access |-> 0, refresh |-> 0]

TypeOK ==
    /\ owners \in Seq(User) /\ Len(owners) <= MaxTokens
    /\ local \in [access : Issued \cup {0}, refresh : Issued \cup {0}]
    /\ store \in [access : Issued \cup {0}, refresh : Issued \cup {0},
                  user : User \cup {None}, signedIn : BOOLEAN]
    /\ call \in [Call -> [at : CallStates, token : Issued \cup {0}, retried : BOOLEAN,
                          captured : Issued \cup {0}, probe : BOOLEAN]]
    /\ refreshing \in BOOLEAN
    /\ refreshedWith \in Issued \cup {0}
    /\ page \in {"login", "app"}
    /\ mine \in Verify \cup {None}
    /\ shown \in BOOLEAN /\ changed \in BOOLEAN
    /\ reloads \in 0 .. MaxReloads
    /\ overlap \in BOOLEAN /\ missed \in BOOLEAN

-----------------------------------------------------------------------------------
(* The store.  Every operation that changes it says whether an effect of the       *)
(* mounted component depends on what changed: ProtectedRoute's on the token and on *)
(* isAuthenticated, the login page's on isAuthenticated.                           *)

\* Mutant: the route's effect depends on the token alone.
SeenToken(new) ==
    changed \/ (page = "app" /\ new.access # store.access /\ new.access # 0)

Seen(new) ==
    \/ changed
    \/ new.signedIn # store.signedIn
    \/ page = "app" /\ new.access # store.access

setAuth(access, refresh, user) ==
    /\ local' = [access |-> access, refresh |-> refresh]
    /\ store' = [access |-> access, refresh |-> refresh, user |-> user, signedIn |-> TRUE]

clearAuth == local' = NoTokens /\ store' = SignedOut

\* Mutant: the new pair reaches localStorage only.
updateTokensLocalOnly(n) ==
    local' = [access |-> n, refresh |-> n] /\ UNCHANGED store

\* It leaves isAuthenticated alone, and does not ask whether a session is still there.
updateTokens(n) ==
    /\ local' = [access |-> n, refresh |-> n]
    /\ store' = [store EXCEPT !.access = n, !.refresh = n]

\* The continuations of answered calls, and the effects, run before the next event
\* (an effect that finds every slot for a verification taken waits for one: a bound).
Spare == {v \in Verify : call[v].at = "idle"}
Quiet == (changed => Spare = {}) /\ \A v \in Verify : call[v].at \notin {"ok", "failed"}

\* A refresh or a verification is on its way.
Underway ==
    refreshing \/ \E v \in Verify : call[v].at \in {"sent", "asking", "queued"}

\* A rejected verification is handed to its caller; a page's request just ends.
Reject(c) == IF c \in Verify THEN [call[c] EXCEPT !.at = "failed"] ELSE Idle

-----------------------------------------------------------------------------------
(* utils/request.ts: requests, their answers, and the shared refresh.              *)

\* A shown page issues a request; the request interceptor reads the stored token.
Issue(r) ==
    /\ Quiet /\ page = "app" /\ shown
    /\ call[r].at = "idle"
    /\ call' = [call EXCEPT ![r] = [Idle EXCEPT !.at = "sent", !.token = local.access]]
    /\ UNCHANGED <<owners, local, store, refreshing, refreshedWith, page, shown,
                   mine, changed, reloads, overlap, missed>>

\* Mutant: the token of an answered request is read from the next pair.
SettleEarly(c) ==
    /\ Quiet /\ call[c].at = "sent"
    /\ call' = [call EXCEPT ![c] = [@ EXCEPT !.at = "sent", !.token = Len(owners) + 1]]
    /\ UNCHANGED <<owners, local, store, refreshing, refreshedWith, page, shown,
                   mine, changed, reloads, overlap, missed>>

\* The answer is no 401, or it is the second 401 of this request; or there is none.
Settle(c) ==
    /\ Quiet /\ call[c].at = "sent"
    /\ \E good \in BOOLEAN :
        /\ good => call[c].token # 0
        /\ call' = [call EXCEPT ![c] = IF c \in Verify /\ good
                                       THEN [@ EXCEPT !.at = "ok"] ELSE Reject(c)]
    /\ UNCHANGED <<owners, local, store, refreshing, refreshedWith, page, shown,
                   mine, changed, reloads, overlap, missed>>

\* Mutant: isRefreshing is not read.
UnauthorizedAlone(c) ==
    /\ Quiet /\ call[c].at = "sent" /\ ~call[c].retried /\ local.refresh # 0
    /\ refreshing' = TRUE
    /\ refreshedWith' = local.refresh
    /\ call' = [call EXCEPT ![c].at = "asking", ![c].retried = TRUE]
    /\ UNCHANGED <<owners, local, store, page, shown, mine, changed, reloads, overlap, missed>>

\* The first 401 of a request (a wrong current password is answered 401 too, so the
\* token need not be expired): it starts the refresh, or joins the one that runs, or
\* ends the session when there is nothing to refresh with.
Unauthorized(c) ==
    /\ Quiet /\ call[c].at = "sent" /\ ~call[c].retried
    /\ \/ /\ refreshing
          /\ call' = [call EXCEPT ![c].at = "queued", ![c].retried = TRUE]
          /\ UNCHANGED <<local, store, refreshing, refreshedWith, changed>>
       \/ /\ ~refreshing /\ local.refresh # 0
          /\ refreshing' = TRUE
          /\ refreshedWith' = local.refresh
          /\ call' = [call EXCEPT ![c].at = "asking", ![c].retried = TRUE]
          /\ UNCHANGED <<local, store, changed>>
       \/ /\ ~refreshing /\ local.refresh = 0
          /\ clearAuth
          /\ changed' = Seen(SignedOut)
          /\ call' = [call EXCEPT ![c] = Reject(c)]
          /\ UNCHANGED <<refreshing, refreshedWith>>
    /\ UNCHANGED <<owners, page, shown, mine, reloads, overlap, missed>>

Asking == {c \in Call : call[c].at = "asking"}
Queued == {c \in Call : call[c].at = "queued"}      \* refreshSubscribers

\* The refresh succeeded: the new pair is stored and everybody who waited is sent again.
RefreshSucceeds ==
    /\ Quiet /\ refreshing
    /\ Len(owners) < MaxTokens
    /\ owners' = Append(owners, owners[refreshedWith])
    /\ LET n == Len(owners) + 1 IN
        /\ updateTokens(n)
        /\ changed' = Seen([store EXCEPT !.access = n])
        /\ call' = [c \in Call |-> IF c \in Asking \cup Queued
                                   THEN [call[c] EXCEPT !.at = "sent", !.token = n]
                                   ELSE call[c]]
    /\ refreshing' = FALSE /\ refreshedWith' = 0
    /\ UNCHANGED <<page, shown, mine, reloads, overlap, missed>>

\* Mutant: onRefreshFailed is not called, only the request that asked is rejected.
RefreshFailsAlone ==
    /\ Quiet /\ refreshing
    /\ clearAuth
    /\ changed' = Seen(SignedOut)
    /\ call' = [c \in Call |-> IF call[c].at = "asking" THEN Reject(c) ELSE call[c]]
    /\ refreshing' = FALSE /\ refreshedWith' = 0
    /\ UNCHANGED <<owners, page, shown, mine, reloads, overlap, missed>>

\* It was refused or lost: the session ends and everybody who waited is rejected.
RefreshFails ==
    /\ Quiet /\ refreshing
    /\ clearAuth
    /\ changed' = Seen(SignedOut)
    /\ call' = [c \in Call |-> IF c \in Asking \cup Queued THEN Reject(c) ELSE call[c]]
    /\ refreshing' = FALSE /\ refreshedWith' = 0
    /\ UNCHANGED <<owners, page, shown, mine, reloads, overlap, missed>>

-----------------------------------------------------------------------------------
(* App.tsx: ProtectedRoute.                                                        *)

\* A component behind the route or the login page is mounted: its effect will run.
Mount(where) ==
    /\ page' = where /\ mine' = None /\ shown' = FALSE /\ changed' = TRUE

Stay == UNCHANGED <<page, shown, mine>>

SendVerify(v, token, probe) ==
    call' = [call EXCEPT ![v] = [Idle EXCEPT !.at = "sent", !.token = local.access,
                                             !.captured = token, !.probe = probe]]

\* The effect on the store: one check at a time, of the token held when it starts.
RouteEffect ==
    /\ changed /\ page = "app"
    /\ \/ /\ mine # None
          /\ changed' = FALSE
          /\ missed' = (missed \/ ~store.signedIn)
          /\ Stay /\ UNCHANGED call
       \/ /\ mine = None /\ store.access = 0 /\ local.access = 0
          /\ Mount("login")
          /\ UNCHANGED <<call, missed>>
       \/ /\ mine = None
          /\ \E v \in Spare, token \in {store.access, local.access} \ {0} :
                /\ store.access # 0 => token = store.access
                /\ SendVerify(v, token, FALSE)
                /\ mine' = v
          /\ changed' = FALSE
          /\ UNCHANGED <<page, shown, missed>>
    /\ UNCHANGED <<owners, local, store, refreshing, refreshedWith, reloads, overlap>>

\* checkAuth continues: the captured token is stored again, with whatever refresh token
\* is there now; or the session ends.  It continues after its route was unmounted too.
CheckContinues(v) ==
    /\ ~call[v].probe
    /\ \/ /\ call[v].at = "ok"
          /\ setAuth(call[v].captured, local.refresh, owners[call[v].token])
          /\ changed' = Seen([access |-> call[v].captured, signedIn |-> TRUE])
          /\ call' = [call EXCEPT ![v] = IF mine = v THEN [@ EXCEPT !.at = "settings"] ELSE Idle]
          /\ Stay
       \/ /\ call[v].at = "failed"
          /\ clearAuth
          /\ call' = [call EXCEPT ![v] = Idle]
          /\ IF mine = v THEN Mount("login") ELSE changed' = Seen(SignedOut) /\ Stay
    /\ UNCHANGED <<owners, refreshing, refreshedWith, reloads, overlap, missed>>

\* Mutant: an early return leaves menuState at 'checking'.
CheckEndsUnready(v) ==
    /\ Quiet /\ call[v].at = "settings"
    /\ call' = [call EXCEPT ![v] = Idle]
    /\ mine' = IF mine = v THEN None ELSE mine
    /\ UNCHANGED <<owners, local, store, refreshing, refreshedWith, page, shown,
                   changed, reloads, overlap, missed>>

\* The disclaimer and the menu settings are read: the page appears, checkingRef falls.
CheckEnds(v) ==
    /\ Quiet /\ call[v].at = "settings"
    /\ call' = [call EXCEPT ![v] = Idle]
    /\ mine' = IF mine = v THEN None ELSE mine
    /\ shown' = (shown \/ mine = v)
    /\ UNCHANGED <<owners, local, store, refreshing, refreshedWith, page,
                   changed, reloads, overlap, missed>>

-----------------------------------------------------------------------------------
(* pages/auth/Login.tsx, and signing out.                                          *)

\* The effect of the login page: on to the pages when signed in, else try the token
\* that is still there.
LoginEffect ==
    /\ changed /\ page = "login"
    /\ \/ store.signedIn /\ Mount("app") /\ UNCHANGED call
       \/ /\ ~store.signedIn /\ local.access # 0
          /\ \E v \in Spare : SendVerify(v, local.access, TRUE)
          /\ changed' = FALSE /\ Stay
       \/ /\ ~store.signedIn /\ local.access = 0
          /\ changed' = FALSE /\ Stay /\ UNCHANGED call
    /\ UNCHANGED <<owners, local, store, refreshing, refreshedWith, reloads, overlap,
                   missed>>

ProbeContinues(v) ==
    /\ call[v].probe
    /\ \/ /\ call[v].at = "ok"
          /\ IF page = "login" THEN Mount("app") ELSE Stay /\ UNCHANGED changed
          /\ UNCHANGED local
       \/ /\ call[v].at = "failed"
          /\ local' = [local EXCEPT !.access = 0]
          /\ Stay /\ UNCHANGED changed
    /\ call' = [call EXCEPT ![v] = Idle]
    /\ UNCHANGED <<owners, store, refreshing, refreshedWith, reloads, overlap, missed>>

SignIn(u) ==
    /\ Quiet /\ page = "login"
    /\ Len(owners) < MaxTokens
    /\ owners' = Append(owners, u)
    /\ setAuth(Len(owners) + 1, Len(owners) + 1, u)
    /\ Mount("app")
    /\ overlap' = (overlap \/ Underway)
    /\ UNCHANGED <<call, refreshing, refreshedWith, reloads, missed>>

\* A 401 of the login request itself goes through the same interceptor.
SignInRefused ==
    /\ Quiet /\ page = "login"
    /\ clearAuth
    /\ changed' = Seen(SignedOut)
    /\ overlap' = (overlap \/ Underway)
    /\ Stay
    /\ UNCHANGED <<owners, call, refreshing, refreshedWith, reloads, missed>>

\* The user signs out, or does not accept the disclaimer.  No request is recalled.
SignOut ==
    /\ Quiet /\ page = "app" /\ shown
    /\ clearAuth
    /\ Mount("login")
    /\ overlap' = (overlap \/ Underway)
    /\ UNCHANGED <<owners, call, refreshing, refreshedWith, reloads, missed>>

\* The page is reloaded: calls and flags are gone, the store comes back from auth-storage
\* and its tokens are copied to localStorage.
Reload ==
    /\ reloads < MaxReloads
    /\ reloads' = reloads + 1
    /\ call' = [c \in Call |-> Idle]
    /\ refreshing' = FALSE /\ refreshedWith' = 0
    /\ local' = [access |-> IF store.access # 0 THEN store.access ELSE local.access,
                 refresh |-> IF store.refresh # 0 THEN store.refresh ELSE local.refresh]
    /\ Mount(page)
    /\ UNCHANGED <<owners, store, overlap, missed>>

-----------------------------------------------------------------------------------

\* Nobody was signed in before, or a session comes back from an earlier visit.
Init ==
    /\ \/ owners = << >> /\ store = SignedOut /\ local = NoTokens
       \/ \E u \in User :
            /\ MaxTokens > 0 /\ owners = <<u>>
            /\ store = [access |-> 1, refresh |-> 1, user |-> u, signedIn |-> TRUE]
            /\ local = [access |-> 1, refresh |-> 1]
    /\ call = [c \in Call |-> Idle]
    /\ refreshing = FALSE /\ refreshedWith = 0
    /\ page \in {"login", "app"} /\ mine = None /\ shown = FALSE /\ changed = TRUE
    /\ reloads = 0 /\ overlap = FALSE /\ missed = FALSE

Next ==
    \/ \E r \in Request : Issue(r)
    \/ \E c \in Call : Settle(c) \/ Unauthorized(c)
    \/ \E v \in Verify : CheckContinues(v) \/ CheckEnds(v) \/ ProbeContinues(v)
    \/ RefreshSucceeds \/ RefreshFails
    \/ RouteEffect \/ LoginEffect
    \/ \E u \in User : SignIn(u)
    \/ SignInRefused \/ SignOut \/ Reload

Spec == Init /\ [][Next]_vars

\* Every call moves on: it is answered or times out, and its caller continues.  The answer
\* stays queued while effects and other continuations run, hence strong fairness.
Progress(c) ==
    \/ Settle(c) \/ Unauthorized(c)
    \/ c \in Verify /\ (CheckContinues(c) \/ ProbeContinues(c) \/ CheckEnds(c))

Fairness ==
    /\ \A c \in Call : SF_vars(Progress(c))
    /\ SF_vars(RefreshSucceeds \/ RefreshFails)
    /\ WF_vars(RouteEffect \/ LoginEffect)

FairSpec == Spec /\ Fairness

-----------------------------------------------------------------------------------
(* What has to hold.                                                               *)

\* The user the page shows is the one its tokens were issued to, and the requests use
\* the tokens of the store: refreshes, checks that store their token again, reloads and
\* failures never mix two users, as long as nobody signs in or out while a refresh or a
\* verification is on its way (both write the store when they return, without asking
\* whether the session they belong to is still there).
OneUser ==
    ~overlap /\ store.signedIn =>
        /\ store.access # 0
        /\ local = [access |-> store.access, refresh |-> store.refresh]
        /\ \A n \in {store.access, store.refresh} \ {0} : owners[n] = store.user

\* A page that is shown has a session behind it, unless the sign-out fell into a running
\* check: checkingRef drops that effect for good.
ShownHasSession == page = "app" /\ shown /\ ~changed /\ ~missed => store.signedIn

\* The shared refresh is a single flight: one at a time, joined by everybody who needs
\* it meanwhile, answering them all when it ends.
Flight == INSTANCE SingleFlight WITH Caller <- Call, leaders <- Asking, joined <- Queued
RefreshIsSingleFlight == Flight!Spec

\* Every request and every verification gets an answer: none is left in the queue.
CallsEnd == \A c \in Call : call[c].at # "idle" ~> call[c].at = "idle"

\* The spinner of a protected route gives way to the page or to the login page.
RouteDecides == page = "app" /\ ~shown ~> shown \/ page = "login"
===================================================================================
