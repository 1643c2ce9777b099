---------------------------- MODULE WebSessionProofs ----------------------------
(***************************************************************************)
(* Theorems about WebSession, for every value of its constants.            *)
(***************************************************************************)
EXTENDS WebSession, TLAPS

-----------------------------------------------------------------------------
(* The inductive invariant *)

\* A verification whose result its caller has not seen yet.
Active(v) == call[v].at \notin {"idle", "settings"}

\* The refresh in flight was asked for by one call, with a refresh token, and calls
\* wait only while it is in flight.
FlightInv ==
    /\ refreshing => refreshedWith # 0 /\ \E c \in Call : Asking = {c}
    /\ ~refreshing => refreshedWith = 0 /\ Asking = {} /\ Queued = {}

\* What a verification carries, and who runs one.
VerifyInv ==
    /\ \A v \in Verify : call[v].at # "idle" => call[v].captured # 0
    /\ \A v \in Verify : call[v].at = "ok" => call[v].token # 0
    /\ page = "login" => mine = None /\ ~shown

\* A page about to be shown, or shown, without a session: its effect is due, nothing is
\* left to sign in with, and a refresh cannot return before the effect ran.
ShownInv ==
    /\ page = "app" /\ ~missed /\ ~store.signedIn
    /\ shown \/ (mine # None /\ call[mine].at = "settings")
    => /\ changed /\ store.access = 0 /\ local = NoTokens
       /\ refreshing => Spare # {}

\* As long as nobody signed in or out during a refresh or a check: a check belongs to
\* the mounted route, a probe to a signed-out login page.
WhoseChecks ==
    ~overlap =>
        /\ \A v \in Verify : Active(v) /\ ~call[v].probe => mine = v /\ page = "app"
        /\ \A v \in Verify : Active(v) /\ call[v].probe =>
                page = "login" /\ ~changed /\ ~store.signedIn
        /\ \A v, w \in Verify : Active(v) /\ call[v].probe /\ Active(w) /\ call[w].probe =>
                v = w

\* The tokens that may still reach the store.
Held ==
    ({store.access, store.refresh, local.access, local.refresh, refreshedWith}
     \cup {call[v].token : v \in {w \in Verify : Active(w)}}
     \cup {call[v].captured : v \in {w \in Verify : Active(w)}}) \ {0}

OneOwner == ~overlap => \A m, n \in Held : owners[m] = owners[n]

IInv == TypeOK /\ FlightInv /\ VerifyInv /\ ShownInv /\ WhoseChecks /\ OneOwner /\ OneUser

-----------------------------------------------------------------------------
(* Types *)

\* What a call, the tokens and the store may be when the pairs I are issued.
CallRec(I) == [at : CallStates, token : I \cup {0}, retried : BOOLEAN,
               captured : I \cup {0}, probe : BOOLEAN]
PairRec(I) == [access : I \cup {0}, refresh : I \cup {0}]
StoreRec(I) == [access : I \cup {0}, refresh : I \cup {0},
                user : User \cup {None}, signedIn : BOOLEAN]

\* What is issued are numbers, each the pair of a user.
LEMMA IssuedPairs ==
    ASSUME TypeOK
    PROVE  /\ Issued \subseteq Nat \ {0}
           /\ \A n \in Issued : owners[n] \in User
           /\ Len(owners) \in Nat /\ Issued = 1 .. Len(owners)
BY DEF TypeOK, Issued

\* The records a step gives to a call have its type.
LEMMA CallRecords ==
    ASSUME TypeOK, NEW c \in Call
    PROVE  /\ call[c] \in CallRec(Issued)
           /\ Idle \in CallRec(Issued)
           /\ Reject(c) \in CallRec(Issued)
           /\ \A s \in CallStates :
                /\ [call[c] EXCEPT !.at = s] \in CallRec(Issued)
                /\ [call[c] EXCEPT !.at = s, !.retried = TRUE] \in CallRec(Issued)
BY DEF TypeOK, CallRec, Idle, Reject, CallStates

\* One call gets a record of its type, no pair is issued: calls keep their type.
LEMMA CallUpdate ==
    ASSUME TypeOK, NEW c \in Call, NEW r \in CallRec(Issued), UNCHANGED owners,
           call' = [call EXCEPT ![c] = r]
    PROVE  call' \in [Call -> CallRec(Issued')]
<1>1. Issued' = Issued
  BY DEF Issued
<1>2. call \in [Call -> CallRec(Issued)]
  BY DEF TypeOK, CallRec
<1> QED
  BY <1>1, <1>2

\* Issuing a pair to a user keeps what was issued.
LEMMA Issues ==
    ASSUME TypeOK, Len(owners) < MaxTokens, NEW u \in User, owners' = Append(owners, u)
    PROVE  /\ owners' \in Seq(User) /\ Len(owners') = Len(owners) + 1
           /\ Len(owners') <= MaxTokens
           /\ Issued \subseteq Issued' /\ Len(owners) + 1 \in Issued'
           /\ Issued' = Issued \cup {Len(owners) + 1}
           /\ owners'[Len(owners) + 1] = u
           /\ \A n \in Issued : owners'[n] = owners[n]
BY SessionAssumption DEF TypeOK, Issued

\* Signing in with a pair that is issued, and signing out, leave the store well-typed.
LEMMA StoreWrites ==
    ASSUME NEW I, NEW a \in I \cup {0}, NEW b \in I \cup {0}, NEW u \in User
    PROVE  setAuth(a, b, u) => local' \in PairRec(I) /\ store' \in StoreRec(I)
BY DEF setAuth, PairRec, StoreRec

\* A sign-out, wherever it comes from, empties the store and marks the calls on the way.
LEMMA SigningOut ==
    ASSUME NEW I, clearAuth
    PROVE  local' \in PairRec(I) /\ store' \in StoreRec(I)
BY DEF clearAuth, PairRec, StoreRec, NoTokens, SignedOut

\* Without a new pair, the types that depend on what is issued are the same.
LEMMA SameTypes ==
    ASSUME TypeOK, UNCHANGED owners
    PROVE  /\ owners' \in Seq(User) /\ Len(owners') <= MaxTokens
           /\ Issued' = Issued
           /\ local \in PairRec(Issued) /\ store \in StoreRec(Issued)
           /\ call \in [Call -> CallRec(Issued)]
           /\ refreshedWith \in Issued \cup {0}
BY DEF TypeOK, Issued, CallRec, PairRec, StoreRec

\* Types, taken apart.
LEMMA TypeParts ==
    ASSUME owners' \in Seq(User) /\ Len(owners') <= MaxTokens,
           local' \in PairRec(Issued') /\ store' \in StoreRec(Issued'),
           call' \in [Call -> CallRec(Issued')],
           refreshing' \in BOOLEAN /\ refreshedWith' \in Issued' \cup {0},
           page' \in {"login", "app"} /\ mine' \in Verify \cup {None},
           shown' \in BOOLEAN /\ changed' \in BOOLEAN,
           reloads' \in 0 .. MaxReloads, overlap' \in BOOLEAN /\ missed' \in BOOLEAN
    PROVE  TypeOK'
BY DEF TypeOK, PairRec, StoreRec, CallRec

\* Every step keeps the types.
LEMMA TypeStep == IInv /\ [Next]_vars => TypeOK'
<1> SUFFICES ASSUME IInv, [Next]_vars
             PROVE  TypeOK'
  OBVIOUS
<1> USE SessionAssumption DEF IInv
<1>1. ASSUME NEW r \in Request, Issue(r)
      PROVE  TypeOK'
  BY <1>1 DEF Issue, TypeOK, Call, CallStates, Idle, SignedOut, NoTokens, Issued
<1>2. ASSUME NEW c \in Call, Settle(c)
      PROVE  TypeOK'
  <2>1. UNCHANGED owners
    BY <1>2 DEF Settle
  <2>2. local' \in PairRec(Issued') /\ store' \in StoreRec(Issued')
    BY <1>2, SameTypes DEF Settle
  <2>3. call' \in [Call -> CallRec(Issued')]
    <3>1. PICK good \in BOOLEAN : call' = [call EXCEPT ![c] = IF c \in Verify /\ good
                                       THEN [@ EXCEPT !.at = "ok"] ELSE Reject(c)]
      BY <1>2 DEF Settle
    <3>2. PICK r \in CallRec(Issued) : call' = [call EXCEPT ![c] = r]
      BY <3>1, CallRecords DEF TypeOK, CallStates
    <3> QED
      BY <2>1, <3>2, CallUpdate
  <2>4. /\ refreshing' \in BOOLEAN /\ refreshedWith' \in Issued' \cup {0}
        /\ page' \in {"login", "app"} /\ mine' \in Verify \cup {None}
        /\ shown' \in BOOLEAN /\ changed' \in BOOLEAN
        /\ reloads' \in 0 .. MaxReloads /\ overlap' \in BOOLEAN /\ missed' \in BOOLEAN
    BY <1>2, SameTypes DEF Settle, Reject, TypeOK
  <2> QED
    BY <2>1, <2>2, <2>3, <2>4, SameTypes, TypeParts
<1>3. ASSUME NEW c \in Call, Unauthorized(c)
      PROVE  TypeOK'
  <2>1. UNCHANGED owners
    BY <1>3 DEF Unauthorized
  <2>2. local' \in PairRec(Issued') /\ store' \in StoreRec(Issued')
    BY <1>3, SameTypes, SigningOut DEF Unauthorized
  <2>3. call' \in [Call -> CallRec(Issued')]
    <3>1. CASE call' = [call EXCEPT ![c] = Reject(c)]
      BY <2>1, <3>1, CallRecords, CallUpdate
    <3>2. ASSUME NEW s \in {"queued", "asking"},
                 call' = [call EXCEPT ![c].at = s, ![c].retried = TRUE]
          PROVE  call' \in [Call -> CallRec(Issued')]
      <4>1. call' = [call EXCEPT ![c] = [call[c] EXCEPT !.at = s, !.retried = TRUE]]
        BY <3>2 DEF TypeOK
      <4> QED
        BY <2>1, <4>1, CallRecords, CallUpdate DEF CallStates
    <3> QED
      BY <1>3, <3>1, <3>2 DEF Unauthorized
  <2>4. /\ refreshing' \in BOOLEAN /\ refreshedWith' \in Issued' \cup {0}
        /\ page' \in {"login", "app"} /\ mine' \in Verify \cup {None}
        /\ shown' \in BOOLEAN /\ changed' \in BOOLEAN
        /\ reloads' \in 0 .. MaxReloads /\ overlap' \in BOOLEAN /\ missed' \in BOOLEAN
    BY <1>3, SameTypes DEF Unauthorized, Reject, clearAuth, Seen, TypeOK
  <2> QED
    BY <2>1, <2>2, <2>3, <2>4, SameTypes, TypeParts
<1>4. ASSUME NEW v \in Verify, CheckContinues(v)
      PROVE  TypeOK'
  <2>1. UNCHANGED owners
    BY <1>4 DEF CheckContinues
  <2>2. local' \in PairRec(Issued') /\ store' \in StoreRec(Issued')
    <3>1. CASE clearAuth
      BY <3>1, <2>1, SameTypes, SigningOut
    <3>2. CASE /\ call[v].at = "ok"
               /\ setAuth(call[v].captured, local.refresh, owners[call[v].token])
      <4>1. call[v].captured \in Issued \cup {0} /\ call[v].token \in Issued
        BY <3>2 DEF TypeOK, VerifyInv, Call
      <4>2. local.refresh \in Issued \cup {0} /\ owners[call[v].token] \in User
        BY <4>1, IssuedPairs DEF TypeOK
      <4> QED
        BY <3>2, <4>1, <4>2, <2>1, SameTypes, StoreWrites
    <3> QED
      BY <1>4, <3>1, <3>2 DEF CheckContinues
  <2>3. call' \in [Call -> CallRec(Issued')]
    <3>1. v \in Call
      BY DEF Call
    <3>2. PICK r \in CallRec(Issued) : call' = [call EXCEPT ![v] = r]
      BY <1>4, <3>1, CallRecords DEF CheckContinues, TypeOK, CallStates
    <3> QED
      BY <2>1, <3>1, <3>2, CallUpdate
  <2>4. /\ refreshing' \in BOOLEAN /\ refreshedWith' \in Issued' \cup {0}
        /\ page' \in {"login", "app"} /\ mine' \in Verify \cup {None}
        /\ shown' \in BOOLEAN /\ changed' \in BOOLEAN
        /\ reloads' \in 0 .. MaxReloads /\ overlap' \in BOOLEAN /\ missed' \in BOOLEAN
    BY <1>4, SameTypes DEF CheckContinues, setAuth, clearAuth, Seen, Mount, Stay, TypeOK
  <2> QED
    BY <2>1, <2>2, <2>3, <2>4, SameTypes, TypeParts
<1>5. ASSUME NEW v \in Verify, CheckEnds(v)
      PROVE  TypeOK'
  <2>1. UNCHANGED owners
    BY <1>5 DEF CheckEnds
  <2>2. local' \in PairRec(Issued') /\ store' \in StoreRec(Issued')
    BY <1>5, SameTypes DEF CheckEnds
  <2>3. call' \in [Call -> CallRec(Issued')]
    BY <1>5, CallRecords, CallUpdate DEF CheckEnds, Call
  <2>4. /\ refreshing' \in BOOLEAN /\ refreshedWith' \in Issued' \cup {0}
        /\ page' \in {"login", "app"} /\ mine' \in Verify \cup {None}
        /\ shown' \in BOOLEAN /\ changed' \in BOOLEAN
        /\ reloads' \in 0 .. MaxReloads /\ overlap' \in BOOLEAN /\ missed' \in BOOLEAN
    BY <1>5, SameTypes DEF CheckEnds, TypeOK
  <2> QED
    BY <2>1, <2>2, <2>3, <2>4, SameTypes, TypeParts
<1>6. ASSUME NEW v \in Verify, ProbeContinues(v)
      PROVE  TypeOK'
  <2>1. UNCHANGED owners
    BY <1>6 DEF ProbeContinues
  <2>2. local' \in PairRec(Issued') /\ store' \in StoreRec(Issued')
    BY <1>6, SameTypes DEF ProbeContinues, PairRec
  <2>3. call' \in [Call -> CallRec(Issued')]
    BY <1>6, CallRecords, CallUpdate DEF ProbeContinues, Call
  <2>4. /\ refreshing' \in BOOLEAN /\ refreshedWith' \in Issued' \cup {0}
        /\ page' \in {"login", "app"} /\ mine' \in Verify \cup {None}
        /\ shown' \in BOOLEAN /\ changed' \in BOOLEAN
        /\ reloads' \in 0 .. MaxReloads /\ overlap' \in BOOLEAN /\ missed' \in BOOLEAN
    BY <1>6, SameTypes DEF ProbeContinues, Mount, Stay, TypeOK
  <2> QED
    BY <2>1, <2>2, <2>3, <2>4, SameTypes, TypeParts
<1>7. ASSUME RefreshSucceeds
      PROVE  TypeOK'
  <2>1. refreshedWith \in Issued /\ owners[refreshedWith] \in User
    BY <1>7, IssuedPairs DEF RefreshSucceeds, FlightInv, TypeOK
  <2>2. /\ owners' \in Seq(User) /\ Len(owners') <= MaxTokens
        /\ Issued \subseteq Issued' /\ Len(owners) + 1 \in Issued'
    BY <1>7, <2>1, Issues DEF RefreshSucceeds
  <2>3. local' \in PairRec(Issued') /\ store' \in StoreRec(Issued')
    BY <1>7, <2>2 DEF RefreshSucceeds, updateTokens, TypeOK, PairRec, StoreRec
  <2>4. call' \in [Call -> CallRec(Issued')]
    <3>1. ASSUME NEW c \in Call
          PROVE  /\ call[c] \in CallRec(Issued')
                 /\ [call[c] EXCEPT !.at = "sent", !.token = Len(owners) + 1] \in CallRec(Issued')
      BY <2>2 DEF TypeOK, CallRec, CallStates
    <3> QED
      BY <1>7, <3>1 DEF RefreshSucceeds
  <2>5. /\ refreshing' \in BOOLEAN /\ refreshedWith' \in Issued' \cup {0}
        /\ page' \in {"login", "app"} /\ mine' \in Verify \cup {None}
        /\ shown' \in BOOLEAN /\ changed' \in BOOLEAN
        /\ reloads' \in 0 .. MaxReloads /\ overlap' \in BOOLEAN /\ missed' \in BOOLEAN
    BY <1>7 DEF RefreshSucceeds, Seen, TypeOK
  <2> QED
    BY <2>2, <2>3, <2>4, <2>5, TypeParts
<1>8. ASSUME RefreshFails
      PROVE  TypeOK'
  <2>1. UNCHANGED owners
    BY <1>8 DEF RefreshFails
  <2>2. local' \in PairRec(Issued') /\ store' \in StoreRec(Issued')
    BY <1>8, <2>1, SameTypes, SigningOut DEF RefreshFails
  <2>3. call' \in [Call -> CallRec(Issued')]
    BY <1>8, <2>1, SameTypes, CallRecords DEF RefreshFails
  <2>4. /\ refreshing' \in BOOLEAN /\ refreshedWith' \in Issued' \cup {0}
        /\ page' \in {"login", "app"} /\ mine' \in Verify \cup {None}
        /\ shown' \in BOOLEAN /\ changed' \in BOOLEAN
        /\ reloads' \in 0 .. MaxReloads /\ overlap' \in BOOLEAN /\ missed' \in BOOLEAN
    BY <1>8, <2>1, SameTypes DEF RefreshFails, clearAuth, Seen, Reject, TypeOK
  <2> QED
    BY <2>1, <2>2, <2>3, <2>4, SameTypes, TypeParts
<1>9. ASSUME RouteEffect
      PROVE  TypeOK'
  <2>1. UNCHANGED owners
    BY <1>9 DEF RouteEffect
  <2>2. local' \in PairRec(Issued') /\ store' \in StoreRec(Issued')
    BY <1>9, SameTypes DEF RouteEffect
  <2>3. call' \in [Call -> CallRec(Issued')]
    <3>1. ASSUME NEW v \in Spare, NEW token \in Issued \cup {0}, NEW probe \in BOOLEAN,
                 SendVerify(v, token, probe)
          PROVE  call' \in [Call -> CallRec(Issued')]
      <4>1. v \in Call /\ local.access \in Issued \cup {0}
        BY DEF Spare, Call, TypeOK
      <4>2. PICK r \in CallRec(Issued) : call' = [call EXCEPT ![v] = r]
        BY <3>1, <4>1 DEF SendVerify, CallRec, Idle, CallStates
      <4> QED
        BY <2>1, <4>1, <4>2, CallUpdate
    <3>2. {store.access, local.access} \subseteq Issued \cup {0}
      BY DEF TypeOK
    <3>3. CASE UNCHANGED call
      BY <2>1, <3>3, SameTypes
    <3> QED
      BY <1>9, <3>1, <3>2, <3>3 DEF RouteEffect
  <2>4. /\ refreshing' \in BOOLEAN /\ refreshedWith' \in Issued' \cup {0}
        /\ page' \in {"login", "app"} /\ mine' \in Verify \cup {None}
        /\ shown' \in BOOLEAN /\ changed' \in BOOLEAN
        /\ reloads' \in 0 .. MaxReloads /\ overlap' \in BOOLEAN /\ missed' \in BOOLEAN
    BY <1>9, SameTypes DEF RouteEffect, Mount, Stay, SendVerify, Spare, TypeOK
  <2> QED
    BY <2>1, <2>2, <2>3, <2>4, SameTypes, TypeParts
<1>10. ASSUME LoginEffect
      PROVE  TypeOK'
  <2>1. UNCHANGED owners
    BY <1>10 DEF LoginEffect
  <2>2. local' \in PairRec(Issued') /\ store' \in StoreRec(Issued')
    BY <1>10, SameTypes DEF LoginEffect
  <2>3. call' \in [Call -> CallRec(Issued')]
    <3>1. ASSUME NEW v \in Spare, NEW token \in Issued \cup {0}, NEW probe \in BOOLEAN,
                 SendVerify(v, token, probe)
          PROVE  call' \in [Call -> CallRec(Issued')]
      <4>1. v \in Call /\ local.access \in Issued \cup {0}
        BY DEF Spare, Call, TypeOK
      <4>2. PICK r \in CallRec(Issued) : call' = [call EXCEPT ![v] = r]
        BY <3>1, <4>1 DEF SendVerify, CallRec, Idle, CallStates
      <4> QED
        BY <2>1, <4>1, <4>2, CallUpdate
    <3>2. {store.access, local.access} \subseteq Issued \cup {0}
      BY DEF TypeOK
    <3>3. CASE UNCHANGED call
      BY <2>1, <3>3, SameTypes
    <3> QED
      BY <1>10, <3>1, <3>2, <3>3 DEF LoginEffect
  <2>4. /\ refreshing' \in BOOLEAN /\ refreshedWith' \in Issued' \cup {0}
        /\ page' \in {"login", "app"} /\ mine' \in Verify \cup {None}
        /\ shown' \in BOOLEAN /\ changed' \in BOOLEAN
        /\ reloads' \in 0 .. MaxReloads /\ overlap' \in BOOLEAN /\ missed' \in BOOLEAN
    BY <1>10, SameTypes DEF LoginEffect, Mount, Stay, SendVerify, Spare, TypeOK
  <2> QED
    BY <2>1, <2>2, <2>3, <2>4, SameTypes, TypeParts
<1>11. ASSUME NEW u \in User, SignIn(u)
      PROVE  TypeOK'
  <2>1. /\ owners' \in Seq(User) /\ Len(owners') <= MaxTokens
        /\ Issued \subseteq Issued' /\ Len(owners) + 1 \in Issued'
    BY <1>11, Issues DEF SignIn
  <2>2. local' \in PairRec(Issued') /\ store' \in StoreRec(Issued')
    BY <1>11, <2>1 DEF SignIn, setAuth, PairRec, StoreRec
  <2>3. call' \in [Call -> CallRec(Issued')] /\ refreshedWith' \in Issued' \cup {0}
    BY <1>11, <2>1 DEF SignIn, TypeOK, CallRec
  <2>4. /\ refreshing' \in BOOLEAN
        /\ page' \in {"login", "app"} /\ mine' \in Verify \cup {None}
        /\ shown' \in BOOLEAN /\ changed' \in BOOLEAN
        /\ reloads' \in 0 .. MaxReloads /\ overlap' \in BOOLEAN /\ missed' \in BOOLEAN
    BY <1>11 DEF SignIn, Mount, Underway, TypeOK
  <2> QED
    BY <2>1, <2>2, <2>3, <2>4, TypeParts
<1>12. ASSUME SignInRefused
      PROVE  TypeOK'
  <2>1. UNCHANGED owners
    BY <1>12 DEF SignInRefused
  <2>2. local' \in PairRec(Issued') /\ store' \in StoreRec(Issued')
    BY <1>12, <2>1, SameTypes, SigningOut DEF SignInRefused
  <2>3. call' \in [Call -> CallRec(Issued')]
    BY <1>12, SameTypes DEF SignInRefused
  <2>4. /\ refreshing' \in BOOLEAN /\ refreshedWith' \in Issued' \cup {0}
        /\ page' \in {"login", "app"} /\ mine' \in Verify \cup {None}
        /\ shown' \in BOOLEAN /\ changed' \in BOOLEAN
        /\ reloads' \in 0 .. MaxReloads /\ overlap' \in BOOLEAN /\ missed' \in BOOLEAN
    BY <1>12, SameTypes DEF SignInRefused, clearAuth, Seen, Stay, Underway, TypeOK
  <2> QED
    BY <2>1, <2>2, <2>3, <2>4, SameTypes, TypeParts
<1>13. ASSUME SignOut
      PROVE  TypeOK'
  <2>1. UNCHANGED owners
    BY <1>13 DEF SignOut
  <2>2. local' \in PairRec(Issued') /\ store' \in StoreRec(Issued')
    BY <1>13, <2>1, SameTypes, SigningOut DEF SignOut
  <2>3. call' \in [Call -> CallRec(Issued')]
    BY <1>13, SameTypes DEF SignOut
  <2>4. /\ refreshing' \in BOOLEAN /\ refreshedWith' \in Issued' \cup {0}
        /\ page' \in {"login", "app"} /\ mine' \in Verify \cup {None}
        /\ shown' \in BOOLEAN /\ changed' \in BOOLEAN
        /\ reloads' \in 0 .. MaxReloads /\ overlap' \in BOOLEAN /\ missed' \in BOOLEAN
    BY <1>13, SameTypes DEF SignOut, clearAuth, Mount, Underway, TypeOK
  <2> QED
    BY <2>1, <2>2, <2>3, <2>4, SameTypes, TypeParts
<1>14. ASSUME Reload
      PROVE  TypeOK'
  <2>1. UNCHANGED owners
    BY <1>14 DEF Reload
  <2>2. local' \in PairRec(Issued') /\ store' \in StoreRec(Issued')
    BY <1>14, SameTypes DEF Reload, PairRec, StoreRec
  <2>3. call' \in [Call -> CallRec(Issued')]
    BY <1>14, <2>1, SameTypes, CallRecords DEF Reload
  <2>4. /\ refreshing' \in BOOLEAN /\ refreshedWith' \in Issued' \cup {0}
        /\ page' \in {"login", "app"} /\ mine' \in Verify \cup {None}
        /\ shown' \in BOOLEAN /\ changed' \in BOOLEAN
        /\ reloads' \in 0 .. MaxReloads /\ overlap' \in BOOLEAN /\ missed' \in BOOLEAN
    <3>1. reloads' \in 0 .. MaxReloads
      BY <1>14 DEF Reload, TypeOK
    <3> QED
      BY <1>14, <3>1 DEF Reload, Mount, TypeOK
  <2> QED
    BY <2>1, <2>2, <2>3, <2>4, SameTypes, TypeParts
<1>15. CASE UNCHANGED vars
  BY <1>15 DEF vars, TypeOK, Call, CallStates, Idle, SignedOut, NoTokens, Issued
<1> QED
  BY <1>1, <1>2, <1>3, <1>4, <1>5, <1>6, <1>7, <1>8, <1>9, <1>10, <1>11, <1>12, <1>13, <1>14,
     <1>15 DEF Next

-----------------------------------------------------------------------------
(* What the actions do to the calls *)

\* A rejected request is idle, a rejected verification has failed.
LEMMA Rejected ==
    ASSUME TypeOK, NEW c \in Call
    PROVE  /\ c \in Verify => /\ Reject(c).at = "failed"
                              /\ Reject(c).token = call[c].token
                              /\ Reject(c).captured = call[c].captured
                              /\ Reject(c).probe = call[c].probe
           /\ c \notin Verify => Reject(c).at = "idle"
BY DEF Reject, Idle, TypeOK

\* The other calls do not change; this one has become what the action says.
Others(c) == \A x \in Call \ {c} : call'[x] = call[x]
Became(c, s) ==
    /\ call'[c].at = s
    /\ call'[c].token = call[c].token /\ call'[c].captured = call[c].captured
    /\ call'[c].probe = call[c].probe

\* An unauthorized call joins the refresh, asks for one, or ends the session.
Joins(c) ==
    /\ refreshing /\ Became(c, "queued")
    /\ UNCHANGED <<local, store, refreshing, refreshedWith, changed>>
Asks(c) ==
    /\ ~refreshing /\ local.refresh # 0 /\ Became(c, "asking")
    /\ refreshing' /\ refreshedWith' = local.refresh
    /\ UNCHANGED <<local, store, changed>>
EndsSession(c) ==
    /\ ~refreshing /\ local.refresh = 0
    /\ c \in Verify => Became(c, "failed")
    /\ c \notin Verify => call'[c].at = "idle"
    /\ local' = NoTokens /\ store' = SignedOut
    /\ changed' = Seen(SignedOut)
    /\ UNCHANGED <<refreshing, refreshedWith>>

\* A 401 on a call: it is retried after a refresh, or the user is signed out.
LEMMA UnauthorizedEffect ==
    ASSUME TypeOK, NEW c \in Call, Unauthorized(c)
    PROVE  Others(c) /\ (Joins(c) \/ Asks(c) \/ EndsSession(c))
<1>1. CASE /\ refreshing
           /\ call' = [call EXCEPT ![c].at = "queued", ![c].retried = TRUE]
           /\ UNCHANGED <<local, store, refreshing, refreshedWith, changed>>
  BY <1>1 DEF TypeOK, Others, Became, Joins
<1>2. CASE /\ ~refreshing /\ local.refresh # 0
           /\ refreshing' = TRUE
           /\ refreshedWith' = local.refresh
           /\ call' = [call EXCEPT ![c].at = "asking", ![c].retried = TRUE]
           /\ UNCHANGED <<local, store, changed>>
  BY <1>2 DEF TypeOK, Others, Became, Asks
<1>3. CASE /\ ~refreshing /\ local.refresh = 0
           /\ clearAuth
           /\ changed' = Seen(SignedOut)
           /\ call' = [call EXCEPT ![c] = Reject(c)]
           /\ UNCHANGED <<refreshing, refreshedWith>>
  <2>1. call'[c] = Reject(c) /\ Others(c)
    BY <1>3 DEF TypeOK, Others
  <2> QED
    BY <1>3, <2>1, Rejected DEF clearAuth, Became, EndsSession
<1> QED
  BY <1>1, <1>2, <1>3 DEF Unauthorized

\* A call that is answered goes to its caller, and to no other.
LEMMA SettleEffect ==
    ASSUME TypeOK, NEW c \in Call, Settle(c)
    PROVE  /\ Others(c) /\ call[c].at = "sent"
           /\ \/ c \in Verify /\ call[c].token # 0 /\ Became(c, "ok")
              \/ c \in Verify /\ Became(c, "failed")
              \/ c \notin Verify /\ call'[c].at = "idle"
<1>1. PICK good \in BOOLEAN :
        /\ good => call[c].token # 0
        /\ call' = [call EXCEPT ![c] = IF c \in Verify /\ good
                                       THEN [@ EXCEPT !.at = "ok"] ELSE Reject(c)]
  BY DEF Settle
<1>2. call[c].at = "sent" /\ Others(c)
  BY <1>1 DEF Settle, TypeOK, Others
<1>3. CASE c \in Verify /\ good
  BY <1>1, <1>2, <1>3 DEF TypeOK, Became
<1>4. CASE ~(c \in Verify /\ good)
  <2>1. call'[c] = Reject(c)
    BY <1>1, <1>4 DEF TypeOK
  <2> QED
    BY <1>2, <2>1, Rejected DEF Became
<1> QED
  BY <1>3, <1>4

\* A check that succeeded stores its token again, for the route it belongs to or for
\* nobody; one that failed ends the session, and its route gives way to the login page.
Confirms(v) ==
    /\ call[v].at = "ok"
    /\ setAuth(call[v].captured, local.refresh, owners[call[v].token])
    /\ changed' = Seen([access |-> call[v].captured, signedIn |-> TRUE])
    /\ \/ mine = v /\ Became(v, "settings")
       \/ mine # v /\ call'[v].at = "idle"
    /\ UNCHANGED <<page, shown, mine>>
Refuses(v) ==
    /\ call[v].at = "failed" /\ call'[v].at = "idle"
    /\ local' = NoTokens /\ store' = SignedOut
    /\ mine = v /\ Mount("login")
RefusesLate(v) ==
    /\ call[v].at = "failed" /\ call'[v].at = "idle"
    /\ local' = NoTokens /\ store' = SignedOut
    /\ mine # v /\ changed' = Seen(SignedOut)
    /\ UNCHANGED <<page, shown, mine>>

\* The caller of a check continues with what it was answered.
LEMMA CheckContinuesEffect ==
    ASSUME TypeOK, NEW v \in Verify, CheckContinues(v)
    PROVE  Others(v) /\ ~call[v].probe /\ (Confirms(v) \/ Refuses(v) \/ RefusesLate(v))
<1>1. v \in Call
  BY DEF Call
<1>2. CASE /\ call[v].at = "ok"
           /\ setAuth(call[v].captured, local.refresh, owners[call[v].token])
           /\ changed' = Seen([access |-> call[v].captured, signedIn |-> TRUE])
           /\ call' = [call EXCEPT ![v] = IF mine = v THEN [@ EXCEPT !.at = "settings"] ELSE Idle]
           /\ Stay
  BY <1>1, <1>2 DEF CheckContinues, TypeOK, Others, Became, Idle, Stay, Confirms
<1>3. CASE /\ call[v].at = "failed"
           /\ clearAuth
           /\ call' = [call EXCEPT ![v] = Idle]
           /\ IF mine = v THEN Mount("login") ELSE changed' = Seen(SignedOut) /\ Stay
  BY <1>1, <1>3 DEF CheckContinues, TypeOK, Others, Idle, Stay, clearAuth, Refuses, RefusesLate
<1> QED
  BY <1>2, <1>3 DEF CheckContinues

\* A verification is sent with the stored token.
Sends(v, token, probe) ==
    /\ Others(v)
    /\ call'[v].at = "sent" /\ call'[v].token = local.access
    /\ call'[v].captured = token /\ call'[v].probe = probe

\* A request is sent with the token of the store.
LEMMA SendEffect ==
    ASSUME TypeOK, NEW v \in Verify, NEW token, NEW probe, SendVerify(v, token, probe)
    PROVE  Sends(v, token, probe)
BY DEF TypeOK, Sends, Others, SendVerify, Idle, Call

\* The effect of a mounted route is dropped, goes to the login page, or checks a token.
Drops ==
    /\ mine # None /\ ~changed' /\ missed' = (missed \/ ~store.signedIn)
    /\ UNCHANGED <<call, page, shown, mine>>
Leaves ==
    /\ mine = None /\ store.access = 0 /\ local.access = 0
    /\ Mount("login")
    /\ UNCHANGED <<call, missed>>
Checks(v, token) ==
    /\ mine = None /\ token # 0 /\ (store.access # 0 => token = store.access)
    /\ Sends(v, token, FALSE)
    /\ mine' = v /\ ~changed'
    /\ UNCHANGED <<page, shown, missed>>

\* The effects of a protected route.
LEMMA RouteEffectCases ==
    ASSUME TypeOK, RouteEffect
    PROVE  /\ changed /\ page = "app"
           /\ \/ Drops \/ Leaves
              \/ \E v \in Spare, token \in {store.access, local.access} : Checks(v, token)
BY SendEffect DEF RouteEffect, Spare, Stay, Drops, Leaves, Checks

\* The effect of the login page goes on to the pages, tries the token, or does nothing.
Enters == store.signedIn /\ Mount("app") /\ UNCHANGED call
Probes(v) ==
    /\ ~store.signedIn /\ local.access # 0 /\ ~changed'
    /\ Sends(v, local.access, TRUE)
    /\ UNCHANGED <<page, shown, mine>>
Waits ==
    /\ ~store.signedIn /\ local.access = 0 /\ ~changed'
    /\ UNCHANGED <<page, shown, mine, call>>

\* The effects of the login page.
LEMMA LoginEffectCases ==
    ASSUME TypeOK, LoginEffect
    PROVE  /\ changed /\ page = "login"
           /\ Enters \/ Waits \/ \E v \in Spare : Probes(v)
BY SendEffect DEF LoginEffect, Spare, Stay, Enters, Probes, Waits

\* A refresh that succeeds stores what it was given.
LEMMA RefreshSucceedsEffect ==
    ASSUME TypeOK, RefreshSucceeds, NEW c \in Call
    PROVE  \/ /\ call[c].at \in {"asking", "queued"}
              /\ call'[c].at = "sent" /\ call'[c].token = Len(owners) + 1
              /\ call'[c].captured = call[c].captured /\ call'[c].probe = call[c].probe
           \/ call[c].at \notin {"asking", "queued"} /\ call'[c] = call[c]
BY DEF TypeOK, RefreshSucceeds, Asking, Queued

\* A refresh that fails signs the user out.
LEMMA RefreshFailsEffect ==
    ASSUME TypeOK, RefreshFails, NEW c \in Call
    PROVE  \/ /\ call[c].at \in {"asking", "queued"} /\ c \in Verify /\ Became(c, "failed")
           \/ /\ call[c].at \in {"asking", "queued"} /\ c \notin Verify /\ call'[c].at = "idle"
           \/ call[c].at \notin {"asking", "queued"} /\ call'[c] = call[c]
<1>1. call'[c] = IF c \in Asking \cup Queued THEN Reject(c) ELSE call[c]
  BY DEF RefreshFails
<1>2. c \in Asking \cup Queued <=> call[c].at \in {"asking", "queued"}
  BY DEF Asking, Queued
<1> QED
  BY <1>1, <1>2, Rejected DEF Became

\* A step of one call that neither asks nor waits, before and after, leaves the flight.
LEMMA SameFlight ==
    ASSUME FlightInv, NEW c \in Call, Others(c), UNCHANGED <<refreshing, refreshedWith>>,
           call[c].at \notin {"asking", "queued"}, call'[c].at \notin {"asking", "queued"}
    PROVE  FlightInv'
<1>1. Asking' = Asking /\ Queued' = Queued
  BY DEF Asking, Queued, Others
<1> QED
  BY <1>1 DEF FlightInv


\* The refresh in flight: a call starts it, joins it, or is answered when it ends.
LEMMA FlightStep == IInv /\ [Next]_vars => FlightInv'
<1> SUFFICES ASSUME IInv, [Next]_vars
             PROVE  FlightInv'
  OBVIOUS
<1> USE SessionAssumption DEF IInv
<1>1. ASSUME NEW r \in Request, Issue(r)
      PROVE  FlightInv'
  BY <1>1 DEF Issue, TypeOK, Call, FlightInv, Asking, Queued, Idle, SignedOut, NoTokens
<1>2. ASSUME NEW c \in Call, Settle(c)
      PROVE  FlightInv'
  <2>1. Quiet /\ UNCHANGED <<owners, local, store, refreshing, refreshedWith, page, shown,
                             mine, changed, reloads, overlap, missed>>
    BY <1>2 DEF Settle
  <2> QED
    BY <1>2, <2>1, SettleEffect DEF Became, Others, TypeOK, Call, FlightInv, Asking, Queued
<1>3. ASSUME NEW c \in Call, Unauthorized(c)
      PROVE  FlightInv'
  <2>1. Quiet /\ call[c].at = "sent" /\ UNCHANGED <<owners, page, shown, mine, reloads,
                                                    overlap, missed>>
    BY <1>3 DEF Unauthorized
  <2>2. Others(c)
    BY <1>3, UnauthorizedEffect
  <2>3. CASE Joins(c)
    <3>1. Asking' = Asking
      BY <2>1, <2>2, <2>3 DEF Joins, Asking, Others, Became
    <3> QED
      BY <2>3, <3>1 DEF FlightInv, Joins
  <2>4. CASE Asks(c)
    <3>1. Asking' = {c} /\ Queued' = {}
      BY <2>2, <2>4 DEF Asks, FlightInv, Asking, Queued, Others, Became
    <3> QED
      BY <2>4, <3>1 DEF FlightInv, Asks
  <2>5. CASE EndsSession(c)
    BY <2>1, <2>2, <2>5, SameFlight DEF EndsSession, Became
  <2> QED
    BY <1>3, UnauthorizedEffect, <2>3, <2>4, <2>5
<1>4. ASSUME NEW v \in Verify, CheckContinues(v)
      PROVE  FlightInv'
  <2>1. UNCHANGED <<owners, refreshing, refreshedWith, reloads, overlap, missed>>
    BY <1>4 DEF CheckContinues
  <2>2. Others(v) /\ ~call[v].probe
    BY <1>4, CheckContinuesEffect
  <2>3. CASE Confirms(v)
    BY <2>1, <2>2, <2>3, SameFlight DEF Confirms, Became, Call
  <2>4. CASE Refuses(v)
    BY <2>1, <2>2, <2>4, SameFlight DEF Refuses, Call
  <2>5. CASE RefusesLate(v)
    BY <2>1, <2>2, <2>5, SameFlight DEF RefusesLate, Call
  <2> QED
    BY <1>4, CheckContinuesEffect, <2>3, <2>4, <2>5
<1>5. ASSUME NEW v \in Verify, CheckEnds(v)
      PROVE  FlightInv'
  BY <1>5 DEF CheckEnds, TypeOK, Call, FlightInv, Asking, Queued, Idle, SignedOut, NoTokens
<1>6. ASSUME NEW v \in Verify, ProbeContinues(v)
      PROVE  FlightInv'
  BY <1>6 DEF ProbeContinues, Mount, Stay, TypeOK, Call, FlightInv, Asking, Queued, Idle,
     SignedOut, NoTokens
<1>7. ASSUME RefreshSucceeds
      PROVE  FlightInv'
  BY <1>7, RefreshSucceedsEffect DEF RefreshSucceeds, updateTokens, Seen, TypeOK, Call,
     FlightInv, Asking, Queued
<1>8. ASSUME RefreshFails
      PROVE  FlightInv'
  BY <1>8, RefreshFailsEffect DEF Became, RefreshFails, clearAuth, Seen, TypeOK, Call,
     FlightInv, Asking, Queued
<1>9. ASSUME RouteEffect
      PROVE  FlightInv'
  <2>1. UNCHANGED <<owners, local, store, refreshing, refreshedWith, reloads, overlap>>
    BY <1>9 DEF RouteEffect
  <2>2. changed /\ page = "app"
    BY <1>9, RouteEffectCases
  <2>3. CASE Drops
    BY <2>1, <2>3 DEF Drops, FlightInv, Asking, Queued
  <2>4. CASE Leaves
    BY <2>1, <2>4 DEF Leaves, FlightInv, Asking, Queued
  <2>5. ASSUME NEW v \in Spare, NEW token \in {store.access, local.access}, Checks(v, token)
        PROVE  FlightInv'
    BY <2>1, <2>2, <2>5, SameFlight DEF Checks, Sends, Spare, Call
  <2> QED
    BY <1>9, RouteEffectCases, <2>3, <2>4, <2>5
<1>10. ASSUME LoginEffect
      PROVE  FlightInv'
  <2>1. UNCHANGED <<owners, local, store, refreshing, refreshedWith, reloads, overlap, missed>>
    BY <1>10 DEF LoginEffect
  <2>2. changed /\ page = "login"
    BY <1>10, LoginEffectCases
  <2>3. CASE Enters
    BY <2>1, <2>3 DEF Enters, FlightInv, Asking, Queued
  <2>4. ASSUME NEW v \in Spare, Probes(v)
        PROVE  FlightInv'
    BY <2>1, <2>2, <2>4, SameFlight DEF Probes, Sends, Spare, Call
  <2>5. CASE Waits
    BY <2>1, <2>5 DEF Waits, FlightInv, Asking, Queued
  <2> QED
    BY <1>10, LoginEffectCases, <2>3, <2>4, <2>5
<1>11. ASSUME NEW u \in User, SignIn(u)
      PROVE  FlightInv'
  BY <1>11 DEF SignIn, setAuth, Mount, TypeOK, Call, FlightInv, Asking, Queued, Idle,
     SignedOut, NoTokens
<1>12. ASSUME SignInRefused
      PROVE  FlightInv'
  BY <1>12 DEF SignInRefused, clearAuth, Seen, Stay, TypeOK, Call, FlightInv, Asking, Queued,
     Idle, SignedOut, NoTokens
<1>13. ASSUME SignOut
      PROVE  FlightInv'
  BY <1>13 DEF SignOut, clearAuth, Mount, TypeOK, Call, FlightInv, Asking, Queued, Idle,
     SignedOut, NoTokens
<1>14. ASSUME Reload
      PROVE  FlightInv'
  BY <1>14 DEF Reload, Mount, TypeOK, Call, FlightInv, Asking, Queued, Idle, SignedOut, NoTokens
<1>15. CASE UNCHANGED vars
  BY <1>15 DEF vars, TypeOK, Call, FlightInv, Asking, Queued, Idle, SignedOut, NoTokens
<1> QED
  BY <1>1, <1>2, <1>3, <1>4, <1>5, <1>6, <1>7, <1>8, <1>9, <1>10, <1>11, <1>12, <1>13, <1>14,
     <1>15 DEF Next

\* A verification carries the token it was started with until its caller continued.
LEMMA VerifyStep == IInv /\ [Next]_vars => VerifyInv'
<1> SUFFICES ASSUME IInv, [Next]_vars
             PROVE  VerifyInv'
  OBVIOUS
<1> USE SessionAssumption DEF IInv
<1>1. ASSUME NEW r \in Request, Issue(r)
      PROVE  VerifyInv'
  BY <1>1 DEF Issue, TypeOK, Call, VerifyInv, Quiet, Idle, SignedOut, NoTokens
<1>2. ASSUME NEW c \in Call, Settle(c)
      PROVE  VerifyInv'
  <2>1. Quiet /\ UNCHANGED <<owners, local, store, refreshing, refreshedWith, page, shown,
                             mine, changed, reloads, overlap, missed>>
    BY <1>2 DEF Settle
  <2> QED
    BY <1>2, <2>1, SettleEffect DEF Became, Others, TypeOK, Call, VerifyInv, Quiet
<1>3. ASSUME NEW c \in Call, Unauthorized(c)
      PROVE  VerifyInv'
  <2>1. Quiet /\ call[c].at = "sent" /\ UNCHANGED <<owners, page, shown, mine, reloads,
                                                    overlap, missed>>
    BY <1>3 DEF Unauthorized
  <2>2. Others(c)
    BY <1>3, UnauthorizedEffect
  <2>3. CASE Joins(c)
    BY <2>1, <2>2, <2>3 DEF Joins, Became, Others, Seen, setAuth, Mount, Spare, SignedOut,
       NoTokens, TypeOK, Call, VerifyInv, Quiet
  <2>4. CASE Asks(c)
    BY <2>1, <2>2, <2>4 DEF Asks, Became, Others, Seen, setAuth, Mount, Spare, SignedOut,
       NoTokens, TypeOK, Call, VerifyInv, Quiet
  <2>5. CASE EndsSession(c)
    BY <2>1, <2>2, <2>5 DEF EndsSession, Became, Others, Seen, setAuth, Mount, Spare,
       SignedOut, NoTokens, TypeOK, Call, VerifyInv, Quiet
  <2> QED
    BY <1>3, UnauthorizedEffect, <2>3, <2>4, <2>5
<1>4. ASSUME NEW v \in Verify, CheckContinues(v)
      PROVE  VerifyInv'
  <2>1. UNCHANGED <<owners, refreshing, refreshedWith, reloads, overlap, missed>>
    BY <1>4 DEF CheckContinues
  <2>2. Others(v) /\ ~call[v].probe
    BY <1>4, CheckContinuesEffect
  <2>3. CASE Confirms(v)
    BY <2>1, <2>2, <2>3 DEF Confirms, Became, Others, Seen, setAuth, Mount, Spare, SignedOut,
       NoTokens, TypeOK, Call, VerifyInv, Quiet
  <2>4. CASE Refuses(v)
    BY <2>1, <2>2, <2>4 DEF Refuses, Became, Others, Seen, setAuth, Mount, Spare, SignedOut,
       NoTokens, TypeOK, Call, VerifyInv, Quiet
  <2>5. CASE RefusesLate(v)
    BY <2>1, <2>2, <2>5 DEF RefusesLate, Became, Others, Seen, setAuth, Mount, Spare,
       SignedOut, NoTokens, TypeOK, Call, VerifyInv, Quiet
  <2> QED
    BY <1>4, CheckContinuesEffect, <2>3, <2>4, <2>5
<1>5. ASSUME NEW v \in Verify, CheckEnds(v)
      PROVE  VerifyInv'
  BY <1>5 DEF CheckEnds, TypeOK, Call, VerifyInv, Quiet, Idle, SignedOut, NoTokens
<1>6. ASSUME NEW v \in Verify, ProbeContinues(v)
      PROVE  VerifyInv'
  BY <1>6 DEF ProbeContinues, Mount, Stay, TypeOK, Call, VerifyInv, Quiet, Idle, SignedOut,
     NoTokens
<1>7. ASSUME RefreshSucceeds
      PROVE  VerifyInv'
  BY <1>7, RefreshSucceedsEffect DEF RefreshSucceeds, updateTokens, Seen, TypeOK, Call,
     VerifyInv, Quiet
<1>8. ASSUME RefreshFails
      PROVE  VerifyInv'
  BY <1>8, RefreshFailsEffect DEF Became, RefreshFails, clearAuth, Seen, TypeOK, Call,
     VerifyInv, Quiet
<1>9. ASSUME RouteEffect
      PROVE  VerifyInv'
  <2>1. UNCHANGED <<owners, local, store, refreshing, refreshedWith, reloads, overlap>>
    BY <1>9 DEF RouteEffect
  <2>2. changed /\ page = "app"
    BY <1>9, RouteEffectCases
  <2>3. CASE Drops
    BY <2>1, <2>2, <2>3 DEF Drops, Became, Others, Seen, setAuth, Mount, Spare, SignedOut,
       NoTokens, TypeOK, Call, VerifyInv, Quiet
  <2>4. CASE Leaves
    BY <2>1, <2>2, <2>4 DEF Leaves, Became, Others, Seen, setAuth, Mount, Spare, SignedOut,
       NoTokens, TypeOK, Call, VerifyInv, Quiet
  <2>5. ASSUME NEW v \in Spare, NEW token \in {store.access, local.access}, Checks(v, token)
        PROVE  VerifyInv'
    BY <2>1, <2>2, <2>5 DEF Checks, Sends, Became, Others, Seen, setAuth, Mount, Spare,
       SignedOut, NoTokens, TypeOK, Call, VerifyInv, Quiet
  <2> QED
    BY <1>9, RouteEffectCases, <2>3, <2>4, <2>5
<1>10. ASSUME LoginEffect
      PROVE  VerifyInv'
  <2>1. UNCHANGED <<owners, local, store, refreshing, refreshedWith, reloads, overlap, missed>>
    BY <1>10 DEF LoginEffect
  <2>2. changed /\ page = "login"
    BY <1>10, LoginEffectCases
  <2>3. CASE Enters
    BY <2>1, <2>2, <2>3 DEF Enters, Became, Others, Seen, setAuth, Mount, Spare, SignedOut,
       NoTokens, TypeOK, Call, VerifyInv, Quiet
  <2>4. ASSUME NEW v \in Spare, Probes(v)
        PROVE  VerifyInv'
    BY <2>1, <2>2, <2>4 DEF Probes, Sends, Became, Others, Seen, setAuth, Mount, Spare,
       SignedOut, NoTokens, TypeOK, Call, VerifyInv, Quiet
  <2>5. CASE Waits
    BY <2>1, <2>2, <2>5 DEF Waits, Became, Others, Seen, setAuth, Mount, Spare, SignedOut,
       NoTokens, TypeOK, Call, VerifyInv, Quiet
  <2> QED
    BY <1>10, LoginEffectCases, <2>3, <2>4, <2>5
<1>11. ASSUME NEW u \in User, SignIn(u)
      PROVE  VerifyInv'
  BY <1>11 DEF SignIn, setAuth, Mount, TypeOK, Call, VerifyInv, Quiet, Idle, SignedOut, NoTokens
<1>12. ASSUME SignInRefused
      PROVE  VerifyInv'
  BY <1>12 DEF SignInRefused, clearAuth, Seen, Stay, TypeOK, Call, VerifyInv, Quiet, Idle,
     SignedOut, NoTokens
<1>13. ASSUME SignOut
      PROVE  VerifyInv'
  BY <1>13 DEF SignOut, clearAuth, Mount, TypeOK, Call, VerifyInv, Quiet, Idle, SignedOut,
     NoTokens
<1>14. ASSUME Reload
      PROVE  VerifyInv'
  BY <1>14 DEF Reload, Mount, TypeOK, Call, VerifyInv, Quiet, Idle, SignedOut, NoTokens
<1>15. CASE UNCHANGED vars
  BY <1>15 DEF vars, TypeOK, Call, VerifyInv, Quiet, Idle, SignedOut, NoTokens
<1> QED
  BY <1>1, <1>2, <1>3, <1>4, <1>5, <1>6, <1>7, <1>8, <1>9, <1>10, <1>11, <1>12, <1>13, <1>14,
     <1>15 DEF Next

\* A page without a session has its effect due until it is left or the drop is recorded.
LEMMA ShownStep == IInv /\ [Next]_vars => ShownInv'
<1> SUFFICES ASSUME IInv, [Next]_vars
             PROVE  ShownInv'
  OBVIOUS
<1> USE SessionAssumption DEF IInv
<1>1. ASSUME NEW r \in Request, Issue(r)
      PROVE  ShownInv'
  BY <1>1 DEF Issue, TypeOK, Call, ShownInv, VerifyInv, FlightInv, Quiet, Spare, Idle,
     SignedOut, NoTokens
<1>2. ASSUME NEW c \in Call, Settle(c)
      PROVE  ShownInv'
  <2>1. Quiet /\ UNCHANGED <<owners, local, store, refreshing, refreshedWith, page, shown,
                             mine, changed, reloads, overlap, missed>>
    BY <1>2 DEF Settle
  <2> QED
    BY <1>2, <2>1, SettleEffect DEF Became, Others, TypeOK, Call, ShownInv, VerifyInv,
       FlightInv, Quiet, Spare
<1>3. ASSUME NEW c \in Call, Unauthorized(c)
      PROVE  ShownInv'
  <2>1. Quiet /\ call[c].at = "sent" /\ UNCHANGED <<owners, page, shown, mine, reloads,
                                                    overlap, missed>>
    BY <1>3 DEF Unauthorized
  <2>2. Others(c)
    BY <1>3, UnauthorizedEffect
  <2>3. CASE Joins(c)
    BY <2>1, <2>2, <2>3 DEF Joins, Became, Others, Seen, setAuth, Mount, Spare, SignedOut,
       NoTokens, TypeOK, Call, ShownInv, VerifyInv, FlightInv, Quiet, Spare
  <2>4. CASE Asks(c)
    BY <2>1, <2>2, <2>4 DEF Asks, Became, Others, Seen, setAuth, Mount, Spare, SignedOut,
       NoTokens, TypeOK, Call, ShownInv, VerifyInv, FlightInv, Quiet, Spare
  <2>5. CASE EndsSession(c)
    BY <2>1, <2>2, <2>5 DEF EndsSession, Became, Others, Seen, setAuth, Mount, Spare,
       SignedOut, NoTokens, TypeOK, Call, ShownInv, VerifyInv, FlightInv, Quiet, Spare
  <2> QED
    BY <1>3, UnauthorizedEffect, <2>3, <2>4, <2>5
<1>4. ASSUME NEW v \in Verify, CheckContinues(v)
      PROVE  ShownInv'
  <2>1. UNCHANGED <<owners, refreshing, refreshedWith, reloads, overlap, missed>>
    BY <1>4 DEF CheckContinues
  <2>2. Others(v) /\ ~call[v].probe
    BY <1>4, CheckContinuesEffect
  <2>3. CASE Confirms(v)
    BY <2>1, <2>2, <2>3 DEF Confirms, Became, Others, Seen, setAuth, Mount, Spare, SignedOut,
       NoTokens, TypeOK, Call, ShownInv, VerifyInv, FlightInv, Quiet, Spare
  <2>4. CASE Refuses(v)
    BY <2>1, <2>2, <2>4 DEF Refuses, Became, Others, Seen, setAuth, Mount, Spare, SignedOut,
       NoTokens, TypeOK, Call, ShownInv, VerifyInv, FlightInv, Quiet, Spare
  <2>5. CASE RefusesLate(v)
    BY <2>1, <2>2, <2>5 DEF RefusesLate, Became, Others, Seen, setAuth, Mount, Spare,
       SignedOut, NoTokens, TypeOK, Call, ShownInv, VerifyInv, FlightInv, Quiet, Spare
  <2> QED
    BY <1>4, CheckContinuesEffect, <2>3, <2>4, <2>5
<1>5. ASSUME NEW v \in Verify, CheckEnds(v)
      PROVE  ShownInv'
  BY <1>5 DEF CheckEnds, TypeOK, Call, ShownInv, VerifyInv, FlightInv, Quiet, Spare, Idle,
     SignedOut, NoTokens
<1>6. ASSUME NEW v \in Verify, ProbeContinues(v)
      PROVE  ShownInv'
  BY <1>6 DEF ProbeContinues, Mount, Stay, TypeOK, Call, ShownInv, VerifyInv, FlightInv, Quiet,
     Spare, Idle, SignedOut, NoTokens
<1>7. ASSUME RefreshSucceeds
      PROVE  ShownInv'
  BY <1>7, RefreshSucceedsEffect DEF RefreshSucceeds, updateTokens, Seen, TypeOK, Call,
     ShownInv, VerifyInv, FlightInv, Quiet, Spare
<1>8. ASSUME RefreshFails
      PROVE  ShownInv'
  <2>1. ~store'.signedIn /\ ~refreshing' /\ store'.access = 0 /\ local' = NoTokens
    BY <1>8 DEF RefreshFails, clearAuth, SignedOut
  <2>2. UNCHANGED <<page, shown, mine, missed>> /\ changed' = Seen(SignedOut)
    BY <1>8 DEF RefreshFails
  <2>3. mine # None /\ call'[mine].at = "settings" => call[mine].at = "settings"
    <3>1. mine # None => mine \in Call
      BY DEF TypeOK, Call
    <3> QED
      BY <1>8, <3>1, RefreshFailsEffect DEF Became
  <2>4. CASE store.signedIn
    BY <2>1, <2>2, <2>4 DEF ShownInv, Seen, SignedOut
  <2>5. CASE ~store.signedIn
    BY <2>1, <2>2, <2>3, <2>5 DEF ShownInv, Seen
  <2> QED
    BY <2>4, <2>5
<1>9. ASSUME RouteEffect
      PROVE  ShownInv'
  <2>1. UNCHANGED <<owners, local, store, refreshing, refreshedWith, reloads, overlap>>
    BY <1>9 DEF RouteEffect
  <2>2. changed /\ page = "app"
    BY <1>9, RouteEffectCases
  <2>3. CASE Drops
    BY <2>1, <2>2, <2>3 DEF Drops, Became, Others, Seen, setAuth, Mount, Spare, SignedOut,
       NoTokens, TypeOK, Call, ShownInv, VerifyInv, FlightInv, Quiet, Spare
  <2>4. CASE Leaves
    BY <2>1, <2>2, <2>4 DEF Leaves, Became, Others, Seen, setAuth, Mount, Spare, SignedOut,
       NoTokens, TypeOK, Call, ShownInv, VerifyInv, FlightInv, Quiet, Spare
  <2>5. ASSUME NEW v \in Spare, NEW token \in {store.access, local.access}, Checks(v, token)
        PROVE  ShownInv'
    BY <2>1, <2>2, <2>5 DEF Checks, Sends, Became, Others, Seen, setAuth, Mount, Spare,
       SignedOut, NoTokens, TypeOK, Call, ShownInv, VerifyInv, FlightInv, Quiet, Spare
  <2> QED
    BY <1>9, RouteEffectCases, <2>3, <2>4, <2>5
<1>10. ASSUME LoginEffect
      PROVE  ShownInv'
  <2>1. UNCHANGED <<owners, local, store, refreshing, refreshedWith, reloads, overlap, missed>>
    BY <1>10 DEF LoginEffect
  <2> QED
    BY <1>10, <2>1, LoginEffectCases DEF Enters, Probes, Sends, Waits, Others, Mount, Spare,
       TypeOK, Call, ShownInv, VerifyInv, FlightInv, Quiet, Spare
<1>11. ASSUME NEW u \in User, SignIn(u)
      PROVE  ShownInv'
  BY <1>11 DEF SignIn, setAuth, Mount, TypeOK, Call, ShownInv, VerifyInv, FlightInv, Quiet,
     Spare, Idle, SignedOut, NoTokens
<1>12. ASSUME SignInRefused
      PROVE  ShownInv'
  BY <1>12 DEF SignInRefused, clearAuth, Seen, Stay, TypeOK, Call, ShownInv, VerifyInv,
     FlightInv, Quiet, Spare, Idle, SignedOut, NoTokens
<1>13. ASSUME SignOut
      PROVE  ShownInv'
  BY <1>13 DEF SignOut, clearAuth, Mount, TypeOK, Call, ShownInv, VerifyInv, FlightInv, Quiet,
     Spare, Idle, SignedOut, NoTokens
<1>14. ASSUME Reload
      PROVE  ShownInv'
  BY <1>14 DEF Reload, Mount, TypeOK, Call, ShownInv, VerifyInv, FlightInv, Quiet, Spare, Idle,
     SignedOut, NoTokens
<1>15. CASE UNCHANGED vars
  BY <1>15 DEF vars, TypeOK, Call, ShownInv, VerifyInv, FlightInv, Quiet, Spare, Idle,
     SignedOut, NoTokens
<1> QED
  BY <1>1, <1>2, <1>3, <1>4, <1>5, <1>6, <1>7, <1>8, <1>9, <1>10, <1>11, <1>12, <1>13, <1>14,
     <1>15 DEF Next

\* Without an overlap the checks stay with the mounted route, the probe with the login page.
LEMMA ChecksStep == IInv /\ [Next]_vars => WhoseChecks'
<1> SUFFICES ASSUME IInv, [Next]_vars
             PROVE  WhoseChecks'
  OBVIOUS
<1> USE SessionAssumption DEF IInv
<1>1. ASSUME NEW r \in Request, Issue(r)
      PROVE  WhoseChecks'
  BY <1>1 DEF Issue, TypeOK, Call, WhoseChecks, Active, VerifyInv, Quiet, Underway, Idle,
     SignedOut, NoTokens
<1>2. ASSUME NEW c \in Call, Settle(c)
      PROVE  WhoseChecks'
  <2>1. Quiet /\ UNCHANGED <<owners, local, store, refreshing, refreshedWith, page, shown,
                             mine, changed, reloads, overlap, missed>>
    BY <1>2 DEF Settle
  <2> QED
    BY <1>2, <2>1, SettleEffect DEF Became, Others, TypeOK, Call, WhoseChecks, Active,
       VerifyInv, Quiet, Underway
<1>3. ASSUME NEW c \in Call, Unauthorized(c)
      PROVE  WhoseChecks'
  <2>1. Quiet /\ call[c].at = "sent" /\ UNCHANGED <<owners, page, shown, mine, reloads,
                                                    overlap, missed>>
    BY <1>3 DEF Unauthorized
  <2>2. Others(c)
    BY <1>3, UnauthorizedEffect
  <2>3. CASE Joins(c)
    BY <2>1, <2>2, <2>3 DEF Joins, Became, Others, Seen, setAuth, Mount, Spare, SignedOut,
       NoTokens, TypeOK, Call, WhoseChecks, Active, VerifyInv, Quiet, Underway
  <2>4. CASE Asks(c)
    BY <2>1, <2>2, <2>4 DEF Asks, Became, Others, Seen, setAuth, Mount, Spare, SignedOut,
       NoTokens, TypeOK, Call, WhoseChecks, Active, VerifyInv, Quiet, Underway
  <2>5. CASE EndsSession(c)
    BY <2>1, <2>2, <2>5 DEF EndsSession, Became, Others, Seen, setAuth, Mount, Spare,
       SignedOut, NoTokens, TypeOK, Call, WhoseChecks, Active, VerifyInv, Quiet, Underway
  <2> QED
    BY <1>3, UnauthorizedEffect, <2>3, <2>4, <2>5
<1>4. ASSUME NEW v \in Verify, CheckContinues(v)
      PROVE  WhoseChecks'
  <2>1. UNCHANGED <<owners, refreshing, refreshedWith, reloads, overlap, missed>>
    BY <1>4 DEF CheckContinues
  <2> QED
    BY <1>4, <2>1, CheckContinuesEffect DEF Confirms, Refuses, RefusesLate, Became, Others,
       setAuth, Mount, Seen, TypeOK, Call, WhoseChecks, Active, VerifyInv, Quiet, Underway
<1>5. ASSUME NEW v \in Verify, CheckEnds(v)
      PROVE  WhoseChecks'
  BY <1>5 DEF CheckEnds, TypeOK, Call, WhoseChecks, Active, VerifyInv, Quiet, Underway, Idle,
     SignedOut, NoTokens
<1>6. ASSUME NEW v \in Verify, ProbeContinues(v)
      PROVE  WhoseChecks'
  BY <1>6 DEF ProbeContinues, Mount, Stay, TypeOK, Call, WhoseChecks, Active, VerifyInv, Quiet,
     Underway, Idle, SignedOut, NoTokens
<1>7. ASSUME RefreshSucceeds
      PROVE  WhoseChecks'
  BY <1>7, RefreshSucceedsEffect DEF RefreshSucceeds, updateTokens, Seen, TypeOK, Call,
     WhoseChecks, Active, VerifyInv, Quiet, Underway
<1>8. ASSUME RefreshFails
      PROVE  WhoseChecks'
  <2>1. \A v \in Verify : Active(v)' <=> Active(v)
    BY <1>8, RefreshFailsEffect DEF Active, Became, Call
  <2>2. \A v \in Verify : call'[v].probe = call[v].probe
    BY <1>8, RefreshFailsEffect DEF Became, Call
  <2>3. ~store'.signedIn /\ UNCHANGED <<page, mine, overlap>> /\ changed' = Seen(SignedOut)
    BY <1>8 DEF RefreshFails, clearAuth, SignedOut
  <2>4. \A v \in Verify : ~overlap /\ Active(v) /\ call[v].probe => ~changed'
    BY <2>3 DEF TypeOK, WhoseChecks, Seen, SignedOut
  <2> QED
    BY <2>1, <2>2, <2>3, <2>4 DEF WhoseChecks
<1>9. ASSUME RouteEffect
      PROVE  WhoseChecks'
  <2>1. UNCHANGED <<owners, local, store, refreshing, refreshedWith, reloads, overlap>>
    BY <1>9 DEF RouteEffect
  <2>2. changed /\ page = "app"
    BY <1>9, RouteEffectCases
  <2>3. CASE Drops
    BY <2>1, <2>2, <2>3 DEF Drops, Became, Others, Seen, setAuth, Mount, Spare, SignedOut,
       NoTokens, TypeOK, Call, WhoseChecks, Active, VerifyInv, Quiet, Underway
  <2>4. CASE Leaves
    BY <2>1, <2>2, <2>4 DEF Leaves, Became, Others, Seen, setAuth, Mount, Spare, SignedOut,
       NoTokens, TypeOK, Call, WhoseChecks, Active, VerifyInv, Quiet, Underway
  <2>5. ASSUME NEW v \in Spare, NEW token \in {store.access, local.access}, Checks(v, token)
        PROVE  WhoseChecks'
    BY <2>1, <2>2, <2>5 DEF Checks, Sends, Became, Others, Seen, setAuth, Mount, Spare,
       SignedOut, NoTokens, TypeOK, Call, WhoseChecks, Active, VerifyInv, Quiet, Underway
  <2> QED
    BY <1>9, RouteEffectCases, <2>3, <2>4, <2>5
<1>10. ASSUME LoginEffect
      PROVE  WhoseChecks'
  <2>1. UNCHANGED <<owners, local, store, refreshing, refreshedWith, reloads, overlap, missed>>
    BY <1>10 DEF LoginEffect
  <2>2. changed /\ page = "login"
    BY <1>10, LoginEffectCases
  <2>3. CASE Enters
    BY <2>1, <2>2, <2>3 DEF Enters, Became, Others, Seen, setAuth, Mount, Spare, SignedOut,
       NoTokens, TypeOK, Call, WhoseChecks, Active, VerifyInv, Quiet, Underway
  <2>4. ASSUME NEW v \in Spare, Probes(v)
        PROVE  WhoseChecks'
    BY <2>1, <2>2, <2>4 DEF Probes, Sends, Became, Others, Seen, setAuth, Mount, Spare,
       SignedOut, NoTokens, TypeOK, Call, WhoseChecks, Active, VerifyInv, Quiet, Underway
  <2>5. CASE Waits
    BY <2>1, <2>2, <2>5 DEF Waits, Became, Others, Seen, setAuth, Mount, Spare, SignedOut,
       NoTokens, TypeOK, Call, WhoseChecks, Active, VerifyInv, Quiet, Underway
  <2> QED
    BY <1>10, LoginEffectCases, <2>3, <2>4, <2>5
<1>11. ASSUME NEW u \in User, SignIn(u)
      PROVE  WhoseChecks'
  <2>1. ~overlap' => \A v \in Verify : ~Active(v)
    BY <1>11 DEF SignIn, Underway, Quiet, Active, TypeOK, CallStates, Call
  <2>2. UNCHANGED call
    BY <1>11 DEF SignIn
  <2> QED
    BY <2>1, <2>2 DEF WhoseChecks, Active
<1>12. ASSUME SignInRefused
      PROVE  WhoseChecks'
  <2>1. ~overlap' => \A v \in Verify : ~Active(v)
    BY <1>12 DEF SignInRefused, Underway, Quiet, Active, TypeOK, CallStates, Call
  <2>2. UNCHANGED call
    BY <1>12 DEF SignInRefused
  <2> QED
    BY <2>1, <2>2 DEF WhoseChecks, Active
<1>13. ASSUME SignOut
      PROVE  WhoseChecks'
  <2>1. ~overlap' => \A v \in Verify : ~Active(v)
    BY <1>13 DEF SignOut, Underway, Quiet, Active, TypeOK, CallStates, Call
  <2>2. UNCHANGED call
    BY <1>13 DEF SignOut
  <2> QED
    BY <2>1, <2>2 DEF WhoseChecks, Active
<1>14. ASSUME Reload
      PROVE  WhoseChecks'
  BY <1>14 DEF Reload, Mount, TypeOK, Call, WhoseChecks, Active, VerifyInv, Quiet, Underway,
     Idle, SignedOut, NoTokens
<1>15. CASE UNCHANGED vars
  BY <1>15 DEF vars, TypeOK, Call, WhoseChecks, Active, VerifyInv, Quiet, Underway, Idle,
     SignedOut, NoTokens
<1> QED
  BY <1>1, <1>2, <1>3, <1>4, <1>5, <1>6, <1>7, <1>8, <1>9, <1>10, <1>11, <1>12, <1>13, <1>14,
     <1>15 DEF Next

\* What may reach the store are issued pairs.
LEMMA HeldIssued ==
    ASSUME TypeOK
    PROVE  Held \subseteq Issued
BY DEF TypeOK, Held, Call

\* No pair is issued and nothing more is held: it stays one user's.
LEMMA HeldShrinks ==
    ASSUME OneOwner, UNCHANGED owners, ~overlap' => ~overlap, Held' \subseteq Held
    PROVE  OneOwner'
BY DEF OneOwner

\* What is held: the tokens of the store and of localStorage, the one that is being
\* refreshed, and those of the active verifications.
LEMMA HeldHas ==
    /\ {store.access, store.refresh, local.access, local.refresh, refreshedWith}
         \subseteq Held \cup {0}
    /\ \A v \in Verify : Active(v) => {call[v].token, call[v].captured} \subseteq Held \cup {0}
BY DEF Held

\* What the store holds after an effect of a verification.
LEMMA HeldAfter ==
    ASSUME NEW H,
           {store'.access, store'.refresh, local'.access, local'.refresh, refreshedWith'}
             \subseteq H \cup {0},
           \A v \in Verify : Active(v)' => {call'[v].token, call'[v].captured} \subseteq H \cup {0}
    PROVE  Held' \subseteq H
BY DEF Held

\* The tokens that may reach the store stay one user's.
LEMMA OwnerStep == IInv /\ [Next]_vars => OneOwner'
<1> SUFFICES ASSUME IInv, [Next]_vars
             PROVE  OneOwner'
  OBVIOUS
<1> USE SessionAssumption DEF IInv
<1>1. ASSUME NEW r \in Request, Issue(r)
      PROVE  OneOwner'
  <2>1. UNCHANGED owners /\ (~overlap' => ~overlap)
    BY <1>1 DEF Issue
  <2>2. Held' \subseteq Held
    BY <1>1 DEF Issue, Became, Others, setAuth, Mount, Spare, SignedOut, NoTokens, TypeOK,
       Call, Held, Active
  <2> QED
    BY <2>1, <2>2, HeldShrinks
<1>2. ASSUME NEW c \in Call, Settle(c)
      PROVE  OneOwner'
  <2>1. UNCHANGED owners /\ (~overlap' => ~overlap)
    BY <1>2 DEF Settle
  <2>2. {store'.access, store'.refresh, local'.access, local'.refresh, refreshedWith'}
          \subseteq Held \cup {0}
    BY <1>2, HeldHas DEF Settle
  <2>3. \A v \in Verify : Active(v)' => /\ Active(v) /\ call'[v].token = call[v].token
                                      /\ call'[v].captured = call[v].captured
    BY <1>2, SettleEffect DEF Settle, Others, Became, Active, Call
  <2> QED
    BY <2>1, <2>2, <2>3, HeldHas, HeldAfter, HeldShrinks
<1>3. ASSUME NEW c \in Call, Unauthorized(c)
      PROVE  OneOwner'
  <2>1. UNCHANGED owners /\ (~overlap' => ~overlap)
    BY <1>3 DEF Unauthorized
  <2>2. Held' \subseteq Held
    <3>1. Quiet /\ call[c].at = "sent" /\ UNCHANGED <<owners, page, shown, mine, reloads,
                                                      overlap, missed>>
      BY <1>3 DEF Unauthorized
    <3>2. Others(c)
      BY <1>3, UnauthorizedEffect
    <3>3. CASE Joins(c)
      BY <3>1, <3>2, <3>3 DEF Joins, Became, Others, setAuth, Mount, Spare, SignedOut,
         NoTokens, TypeOK, Call, Held, Active
    <3>4. CASE Asks(c)
      BY <3>1, <3>2, <3>4 DEF Asks, Became, Others, setAuth, Mount, Spare, SignedOut, NoTokens,
         TypeOK, Call, Held, Active
    <3>5. CASE EndsSession(c)
      BY <3>1, <3>2, <3>5 DEF EndsSession, Became, Others, setAuth, Mount, Spare, SignedOut,
         NoTokens, TypeOK, Call, Held, Active
    <3> QED
      BY <1>3, UnauthorizedEffect, <3>3, <3>4, <3>5
  <2> QED
    BY <2>1, <2>2, HeldShrinks
<1>4. ASSUME NEW v \in Verify, CheckContinues(v)
      PROVE  OneOwner'
  <2>1. UNCHANGED owners /\ (~overlap' => ~overlap)
    BY <1>4 DEF CheckContinues
  <2>2. Held' \subseteq Held
    <3>1. UNCHANGED <<owners, refreshing, refreshedWith, reloads, overlap, missed>>
      BY <1>4 DEF CheckContinues
    <3>2. Others(v) /\ ~call[v].probe
      BY <1>4, CheckContinuesEffect
    <3>3. CASE Confirms(v)
      BY <3>1, <3>2, <3>3 DEF Confirms, Became, Others, setAuth, Mount, Spare, SignedOut,
         NoTokens, TypeOK, Call, Held, Active
    <3>4. CASE Refuses(v)
      BY <3>1, <3>2, <3>4 DEF Refuses, Became, Others, setAuth, Mount, Spare, SignedOut,
         NoTokens, TypeOK, Call, Held, Active
    <3>5. CASE RefusesLate(v)
      BY <3>1, <3>2, <3>5 DEF RefusesLate, Became, Others, setAuth, Mount, Spare, SignedOut,
         NoTokens, TypeOK, Call, Held, Active
    <3> QED
      BY <1>4, CheckContinuesEffect, <3>3, <3>4, <3>5
  <2> QED
    BY <2>1, <2>2, HeldShrinks
<1>5. ASSUME NEW v \in Verify, CheckEnds(v)
      PROVE  OneOwner'
  <2>1. UNCHANGED owners /\ (~overlap' => ~overlap)
    BY <1>5 DEF CheckEnds
  <2>2. {store'.access, store'.refresh, local'.access, local'.refresh, refreshedWith'}
          \subseteq Held \cup {0}
    BY <1>5, HeldHas DEF CheckEnds
  <2>3. \A w \in Verify : Active(w)' => /\ Active(w) /\ call'[w].token = call[w].token
                                      /\ call'[w].captured = call[w].captured
    BY <1>5 DEF CheckEnds, Active, TypeOK, Call, Idle
  <2> QED
    BY <2>1, <2>2, <2>3, HeldHas, HeldAfter, HeldShrinks
<1>6. ASSUME NEW v \in Verify, ProbeContinues(v)
      PROVE  OneOwner'
  <2>1. UNCHANGED owners /\ (~overlap' => ~overlap)
    BY <1>6 DEF ProbeContinues
  <2>2. Held' \subseteq Held
    BY <1>6 DEF ProbeContinues, Became, Others, setAuth, Mount, Spare, SignedOut, NoTokens,
       Stay, Idle, TypeOK, Call, Held, Active
  <2> QED
    BY <2>1, <2>2, HeldShrinks
<1>7. ASSUME RefreshSucceeds
      PROVE  OneOwner'
  <2>1. refreshedWith \in Held /\ refreshedWith \in Issued
    BY <1>7, HeldHas, IssuedPairs DEF RefreshSucceeds, FlightInv, TypeOK
  <2>2. /\ \A n \in Issued : owners'[n] = owners[n]
        /\ owners'[Len(owners) + 1] = owners[refreshedWith]
    BY <1>7, <2>1, Issues, IssuedPairs DEF RefreshSucceeds
  <2>3. Held' \subseteq Held \cup {Len(owners) + 1}
    <3>1. {store'.access, store'.refresh, local'.access, local'.refresh, refreshedWith'}
            \subseteq (Held \cup {Len(owners) + 1}) \cup {0}
      BY <1>7 DEF RefreshSucceeds, updateTokens, TypeOK
    <3>2. ASSUME NEW v \in Verify, Active(v)'
          PROVE  {call'[v].token, call'[v].captured} \subseteq (Held \cup {Len(owners) + 1}) \cup {0}
      BY <1>7, <3>2, RefreshSucceedsEffect, HeldHas DEF Active, Call
    <3> QED
      BY <3>1, <3>2, HeldAfter
  <2>4. overlap' = overlap
    BY <1>7 DEF RefreshSucceeds
  <2> QED
    BY <2>1, <2>2, <2>3, <2>4, HeldIssued DEF OneOwner
<1>8. ASSUME RefreshFails
      PROVE  OneOwner'
  <2>1. UNCHANGED owners /\ (~overlap' => ~overlap)
    BY <1>8 DEF RefreshFails
  <2>2. {store'.access, store'.refresh, local'.access, local'.refresh, refreshedWith'}
          \subseteq Held \cup {0}
    BY <1>8, HeldHas DEF RefreshFails, clearAuth, NoTokens, SignedOut
  <2>3. \A v \in Verify : Active(v)' => /\ Active(v) /\ call'[v].token = call[v].token
                                      /\ call'[v].captured = call[v].captured
    BY <1>8, RefreshFailsEffect DEF Became, Active, Call
  <2> QED
    BY <2>1, <2>2, <2>3, HeldHas, HeldAfter, HeldShrinks
<1>9. ASSUME RouteEffect
      PROVE  OneOwner'
  <2>1. UNCHANGED owners /\ (~overlap' => ~overlap)
    BY <1>9 DEF RouteEffect
  <2>2. Held' \subseteq Held
    <3>1. UNCHANGED <<owners, local, store, refreshing, refreshedWith, reloads, overlap>>
      BY <1>9 DEF RouteEffect
    <3>2. changed /\ page = "app"
      BY <1>9, RouteEffectCases
    <3>3. CASE Drops
      BY <3>1, <3>2, <3>3 DEF Drops, Became, Others, setAuth, Mount, Spare, SignedOut,
         NoTokens, TypeOK, Call, Held, Active
    <3>4. CASE Leaves
      BY <3>1, <3>2, <3>4 DEF Leaves, Became, Others, setAuth, Mount, Spare, SignedOut,
         NoTokens, TypeOK, Call, Held, Active
    <3>5. ASSUME NEW v \in Spare, NEW token \in {store.access, local.access}, Checks(v, token)
          PROVE  Held' \subseteq Held
      BY <3>1, <3>2, <3>5 DEF Checks, Sends, Became, Others, setAuth, Mount, Spare, SignedOut,
         NoTokens, TypeOK, Call, Held, Active
    <3> QED
      BY <1>9, RouteEffectCases, <3>3, <3>4, <3>5
  <2> QED
    BY <2>1, <2>2, HeldShrinks
<1>10. ASSUME LoginEffect
      PROVE  OneOwner'
  <2>1. UNCHANGED owners /\ (~overlap' => ~overlap)
    BY <1>10 DEF LoginEffect
  <2>2. Held' \subseteq Held
    <3>1. UNCHANGED <<owners, local, store, refreshing, refreshedWith, reloads, overlap,
                      missed>>
      BY <1>10 DEF LoginEffect
    <3>2. changed /\ page = "login"
      BY <1>10, LoginEffectCases
    <3>3. CASE Enters
      BY <3>1, <3>2, <3>3 DEF Enters, Became, Others, setAuth, Mount, Spare, SignedOut,
         NoTokens, TypeOK, Call, Held, Active
    <3>4. ASSUME NEW v \in Spare, Probes(v)
          PROVE  Held' \subseteq Held
      BY <3>1, <3>2, <3>4 DEF Probes, Sends, Became, Others, setAuth, Mount, Spare, SignedOut,
         NoTokens, TypeOK, Call, Held, Active
    <3>5. CASE Waits
      BY <3>1, <3>2, <3>5 DEF Waits, Became, Others, setAuth, Mount, Spare, SignedOut,
         NoTokens, TypeOK, Call, Held, Active
    <3> QED
      BY <1>10, LoginEffectCases, <3>3, <3>4, <3>5
  <2> QED
    BY <2>1, <2>2, HeldShrinks
<1>11. ASSUME NEW u \in User, SignIn(u)
      PROVE  OneOwner'
  <2>1. ~overlap' => \A v \in Verify : ~Active(v)
    BY <1>11 DEF SignIn, Underway, Quiet, Active, TypeOK, CallStates, Call
  <2>2. ~overlap' => refreshedWith' = 0
    BY <1>11 DEF SignIn, Underway, FlightInv
  <2>3. ~overlap' => Held' \subseteq {Len(owners) + 1}
    BY <1>11, <2>1, <2>2 DEF SignIn, setAuth, Held, Active
  <2> QED
    BY <2>3 DEF OneOwner
<1>12. ASSUME SignInRefused
      PROVE  OneOwner'
  <2>1. UNCHANGED owners /\ (~overlap' => ~overlap)
    BY <1>12 DEF SignInRefused
  <2>2. Held' \subseteq Held
    BY <1>12 DEF SignInRefused, Became, Others, setAuth, Mount, Spare, SignedOut, NoTokens,
       clearAuth, TypeOK, Call, Held, Active
  <2> QED
    BY <2>1, <2>2, HeldShrinks
<1>13. ASSUME SignOut
      PROVE  OneOwner'
  <2>1. UNCHANGED owners /\ (~overlap' => ~overlap)
    BY <1>13 DEF SignOut
  <2>2. Held' \subseteq Held
    BY <1>13 DEF SignOut, Became, Others, setAuth, Mount, Spare, SignedOut, NoTokens,
       clearAuth, TypeOK, Call, Held, Active
  <2> QED
    BY <2>1, <2>2, HeldShrinks
<1>14. ASSUME Reload
      PROVE  OneOwner'
  <2>1. UNCHANGED owners /\ (~overlap' => ~overlap)
    BY <1>14 DEF Reload
  <2>2. Held' \subseteq Held
    BY <1>14 DEF Reload, Became, Others, setAuth, Mount, Spare, SignedOut, NoTokens, Idle,
       TypeOK, Call, Held, Active
  <2> QED
    BY <2>1, <2>2, HeldShrinks
<1>15. CASE UNCHANGED vars
  BY <1>15 DEF vars, OneOwner, TypeOK, Call, Held, Active, Idle, SignedOut, NoTokens
<1> QED
  BY <1>1, <1>2, <1>3, <1>4, <1>5, <1>6, <1>7, <1>8, <1>9, <1>10, <1>11, <1>12, <1>13, <1>14,
     <1>15 DEF Next

\* The store keeps to the user its tokens were issued to.
LEMMA UserStep == IInv /\ [Next]_vars => OneUser'
<1> SUFFICES ASSUME IInv, [Next]_vars
             PROVE  OneUser'
  OBVIOUS
<1> USE SessionAssumption DEF IInv
<1>1. ASSUME NEW r \in Request, Issue(r)
      PROVE  OneUser'
  BY <1>1 DEF Issue, OneUser, TypeOK, Call, Held, Active, Idle, SignedOut, NoTokens
<1>2. ASSUME NEW c \in Call, Settle(c)
      PROVE  OneUser'
  <2>1. Quiet /\ UNCHANGED <<owners, local, store, refreshing, refreshedWith, page, shown,
                             mine, changed, reloads, overlap, missed>>
    BY <1>2 DEF Settle
  <2> QED
    BY <1>2, <2>1, SettleEffect DEF Became, Others, OneUser, TypeOK, Call, Held, Active
<1>3. ASSUME NEW c \in Call, Unauthorized(c)
      PROVE  OneUser'
  <2>1. Quiet /\ call[c].at = "sent" /\ UNCHANGED <<owners, page, shown, mine, reloads,
                                                    overlap, missed>>
    BY <1>3 DEF Unauthorized
  <2>2. Others(c)
    BY <1>3, UnauthorizedEffect
  <2>3. CASE Joins(c)
    BY <2>1, <2>2, <2>3 DEF Joins, OneUser, SignedOut, NoTokens, TypeOK
  <2>4. CASE Asks(c)
    BY <2>1, <2>2, <2>4 DEF Asks, OneUser, SignedOut, NoTokens, TypeOK
  <2>5. CASE EndsSession(c)
    BY <2>1, <2>2, <2>5 DEF EndsSession, OneUser, SignedOut, NoTokens, TypeOK
  <2> QED
    BY <1>3, UnauthorizedEffect, <2>3, <2>4, <2>5
<1>4. ASSUME NEW v \in Verify, CheckContinues(v)
      PROVE  OneUser'
  <2>1. UNCHANGED <<owners, refreshing, refreshedWith, reloads, overlap, missed>>
    BY <1>4 DEF CheckContinues
  <2>2. Others(v) /\ ~call[v].probe
    BY <1>4, CheckContinuesEffect
  <2>3. CASE Confirms(v)
    <3>1. /\ call[v].captured # 0 /\ call[v].token # 0
          /\ {call[v].captured, call[v].token, local.refresh} \subseteq Held \cup {0}
      BY <2>3, HeldHas DEF Confirms, VerifyInv, Active
    <3>2. ~overlap => \A n \in {call[v].captured, local.refresh} \ {0} :
                        owners[n] = owners[call[v].token]
      BY <3>1 DEF OneOwner
    <3> QED
      BY <2>1, <2>3, <3>1, <3>2 DEF Confirms, OneUser, setAuth
  <2>4. CASE Refuses(v)
    BY <2>1, <2>2, <2>4 DEF Refuses, OneUser, SignedOut, NoTokens, TypeOK
  <2>5. CASE RefusesLate(v)
    BY <2>1, <2>2, <2>5 DEF RefusesLate, OneUser, SignedOut, NoTokens, TypeOK
  <2> QED
    BY <1>4, CheckContinuesEffect, <2>3, <2>4, <2>5
<1>5. ASSUME NEW v \in Verify, CheckEnds(v)
      PROVE  OneUser'
  BY <1>5 DEF CheckEnds, OneUser, TypeOK, Call, Held, Active, Idle, SignedOut, NoTokens
<1>6. ASSUME NEW v \in Verify, ProbeContinues(v)
      PROVE  OneUser'
  <2>1. UNCHANGED <<owners, store, overlap>>
    BY <1>6 DEF ProbeContinues
  <2>2. CASE UNCHANGED local
    BY <2>1, <2>2 DEF OneUser
  <2>3. CASE call[v].at = "failed"
    <3>1. ~overlap => ~store.signedIn
      BY <1>6, <2>3 DEF ProbeContinues, WhoseChecks, Active
    <3> QED
      BY <2>1, <3>1 DEF OneUser
  <2> QED
    BY <1>6, <2>2, <2>3 DEF ProbeContinues
<1>7. ASSUME RefreshSucceeds
      PROVE  OneUser'
  <2>1. refreshedWith \in Held /\ refreshedWith \in Issued
    BY <1>7, HeldHas, IssuedPairs DEF RefreshSucceeds, FlightInv, TypeOK
  <2>2. owners'[Len(owners) + 1] = owners[refreshedWith] /\ Len(owners) \in Nat
    BY <1>7, <2>1, Issues, IssuedPairs DEF RefreshSucceeds
  <2>3. /\ store'.access = Len(owners) + 1 /\ store'.refresh = Len(owners) + 1
        /\ store'.user = store.user /\ store'.signedIn = store.signedIn
        /\ local' = [access |-> Len(owners) + 1, refresh |-> Len(owners) + 1]
        /\ overlap' = overlap
    BY <1>7 DEF RefreshSucceeds, updateTokens, TypeOK
  <2>4. ~overlap /\ store.signedIn => owners[refreshedWith] = store.user
    <3>1. ~overlap /\ store.signedIn => store.access \in Held /\ owners[store.access] = store.user
      BY HeldHas DEF OneUser, TypeOK
    <3> QED
      BY <2>1, <3>1 DEF OneOwner
  <2> QED
    BY <2>2, <2>3, <2>4 DEF OneUser
<1>8. ASSUME RefreshFails
      PROVE  OneUser'
  <2>1. ~store'.signedIn
    BY <1>8 DEF RefreshFails, clearAuth, SignedOut
  <2> QED
    BY <2>1 DEF OneUser
<1>9. ASSUME RouteEffect
      PROVE  OneUser'
  <2>1. UNCHANGED <<owners, local, store, refreshing, refreshedWith, reloads, overlap>>
    BY <1>9 DEF RouteEffect
  <2> QED
    BY <1>9, <2>1, RouteEffectCases DEF Drops, Leaves, Checks, Sends, Others, Mount, Spare,
       OneUser, TypeOK, Call, Held, Active
<1>10. ASSUME LoginEffect
      PROVE  OneUser'
  <2>1. UNCHANGED <<owners, local, store, refreshing, refreshedWith, reloads, overlap, missed>>
    BY <1>10 DEF LoginEffect
  <2> QED
    BY <1>10, <2>1, LoginEffectCases DEF Enters, Probes, Sends, Waits, Others, Mount, Spare,
       OneUser, TypeOK, Call, Held, Active
<1>11. ASSUME NEW u \in User, SignIn(u)
      PROVE  OneUser'
  BY <1>11 DEF SignIn, setAuth, Mount, OneUser, TypeOK, Call, Held, Active, Idle, SignedOut,
     NoTokens
<1>12. ASSUME SignInRefused
      PROVE  OneUser'
  BY <1>12 DEF SignInRefused, clearAuth, Seen, Stay, OneUser, TypeOK, Call, Held, Active, Idle,
     SignedOut, NoTokens
<1>13. ASSUME SignOut
      PROVE  OneUser'
  BY <1>13 DEF SignOut, clearAuth, Mount, OneUser, TypeOK, Call, Held, Active, Idle, SignedOut,
     NoTokens
<1>14. ASSUME Reload
      PROVE  OneUser'
  BY <1>14 DEF Reload, Mount, OneUser, TypeOK, Call, Held, Active, Idle, SignedOut, NoTokens
<1>15. CASE UNCHANGED vars
  BY <1>15 DEF vars, OneUser, TypeOK, Call, Held, Active, Idle, SignedOut, NoTokens
<1> QED
  BY <1>1, <1>2, <1>3, <1>4, <1>5, <1>6, <1>7, <1>8, <1>9, <1>10, <1>11, <1>12, <1>13, <1>14,
     <1>15 DEF Next

-----------------------------------------------------------------------------
(* The theorems *)

\* The invariant holds at the start.
LEMMA InitHolds == Init => IInv
<1> SUFFICES ASSUME Init
             PROVE  IInv
  OBVIOUS
<1> USE SessionAssumption
<1>1. /\ call = [c \in Call |-> Idle] /\ refreshing = FALSE /\ refreshedWith = 0
      /\ mine = None /\ shown = FALSE /\ changed = TRUE /\ overlap = FALSE
  BY DEF Init
<1>2. \A c \in Call : call[c].at = "idle" /\ call[c].token = 0 /\ call[c].captured = 0
  BY <1>1 DEF Idle
<1>5. /\ page \in {"login", "app"} /\ missed \in BOOLEAN
      /\ reloads \in 0 .. MaxReloads
  <2>1. page \in {"login", "app"} /\ reloads = 0 /\ missed = FALSE
    BY DEF Init
  <2>2. 0 \in 0 .. MaxReloads
    OBVIOUS
  <2> QED
    BY <2>1, <2>2
<1>3. CASE owners = << >> /\ store = SignedOut /\ local = NoTokens
  <2>1. TypeOK
    <3>1. owners \in Seq(User) /\ Len(owners) = 0
      BY <1>3
    <3>2. call \in [Call -> CallRec(Issued)]
      BY <1>1 DEF CallRec, Idle, CallStates
    <3>3. store \in StoreRec(Issued) /\ local \in PairRec(Issued)
      BY <1>3 DEF StoreRec, PairRec, SignedOut, NoTokens
    <3>4. /\ refreshing \in BOOLEAN /\ refreshedWith \in Issued \cup {0}
          /\ page \in {"login", "app"} /\ mine \in Verify \cup {None}
          /\ shown \in BOOLEAN /\ changed \in BOOLEAN
          /\ reloads \in 0 .. MaxReloads /\ overlap \in BOOLEAN /\ missed \in BOOLEAN
      BY <1>1, <1>5
    <3> QED
      BY <3>1, <3>2, <3>3, <3>4 DEF TypeOK, CallRec, StoreRec, PairRec
  <2>2. OneUser /\ ShownInv
    BY <1>1, <1>3 DEF OneUser, ShownInv, SignedOut
  <2>3. OneOwner
    <3>1. Held = {}
      BY <1>1, <1>2, <1>3 DEF Held, Active, Call, SignedOut, NoTokens
    <3> QED
      BY <3>1 DEF OneOwner
  <2> QED
    BY <1>1, <1>2, <2>1, <2>2, <2>3 DEF IInv, FlightInv, VerifyInv, WhoseChecks, Active, Asking,
                                        Queued, Call
<1>4. ASSUME NEW u \in User, MaxTokens > 0, owners = <<u>>,
             store = [access |-> 1, refresh |-> 1, user |-> u, signedIn |-> TRUE],
             local = [access |-> 1, refresh |-> 1]
      PROVE  IInv
  <2>1. TypeOK
    <3>1. owners \in Seq(User) /\ Len(owners) = 1 /\ 1 \in Issued
      BY <1>4 DEF Issued
    <3>2. call \in [Call -> CallRec(Issued)]
      BY <1>1 DEF CallRec, Idle, CallStates
    <3>3. store \in StoreRec(Issued) /\ local \in PairRec(Issued)
      BY <1>4, <3>1 DEF StoreRec, PairRec
    <3>4. /\ refreshing \in BOOLEAN /\ refreshedWith \in Issued \cup {0}
          /\ page \in {"login", "app"} /\ mine \in Verify \cup {None}
          /\ shown \in BOOLEAN /\ changed \in BOOLEAN
          /\ reloads \in 0 .. MaxReloads /\ overlap \in BOOLEAN /\ missed \in BOOLEAN
      BY <1>1, <1>5
    <3> QED
      BY <1>4, <3>1, <3>2, <3>3, <3>4 DEF TypeOK, CallRec, StoreRec, PairRec
  <2>2. OneUser /\ ShownInv
    BY <1>1, <1>4 DEF OneUser, ShownInv
  <2>3. OneOwner
    <3>1. Held = {1}
      BY <1>1, <1>2, <1>4 DEF Held, Active, Call
    <3> QED
      BY <3>1 DEF OneOwner
  <2> QED
    BY <1>1, <1>2, <2>1, <2>2, <2>3 DEF IInv, FlightInv, VerifyInv, WhoseChecks, Active, Asking,
                                        Queued, Call
<1> QED
  BY <1>3, <1>4 DEF Init

\* The invariant holds throughout.
THEOREM SessionInvariant == Spec => []IInv
<1>1. Init => IInv
  BY InitHolds
<1>2. IInv /\ [Next]_vars => IInv'
  BY TypeStep, FlightStep, VerifyStep, ShownStep, ChecksStep, OwnerStep, UserStep DEF IInv
<1> QED
  BY <1>1, <1>2, PTL DEF Spec

\* The stores, the calls and the page keep their types: no call carries a token that was
\* never issued, no refresh is sent with one (utils/request.ts, store/authStore.ts).
THEOREM TypeCorrect == Spec => []TypeOK
<1>1. IInv => TypeOK
  BY DEF IInv
<1> QED
  BY <1>1, SessionInvariant, PTL

\* Whatever users, requests, verifications, refreshes and reloads there are, the page and
\* its requests are one user's, as long as nobody signs in or out while a refresh or a
\* verification is on its way (utils/request.ts, App.tsx, pages/auth/Login.tsx).
THEOREM SessionOfOneUser == Spec => []OneUser
<1>1. IInv => OneUser
  BY DEF IInv
<1> QED
  BY <1>1, SessionInvariant, PTL

\* A shown page has a session behind it once its effects ran, unless the sign-out fell
\* into a check that was running (App.tsx).
THEOREM ShownPageHasSession == Spec => []ShownHasSession
<1>1. IInv => ShownHasSession
  BY DEF IInv, ShownInv, ShownHasSession
<1> QED
  BY <1>1, SessionInvariant, PTL

-----------------------------------------------------------------------------
(* The refinement *)

\* A step of one call that neither asked nor waited and does not now is a stutter.
LEMMA OneCallStutters ==
    ASSUME NEW c \in Call, Others(c),
           call[c].at \notin {"asking", "queued"}, call'[c].at \notin {"asking", "queued"}
    PROVE  UNCHANGED Flight!vars
BY DEF Flight!vars, Asking, Queued, Others

\* A call that does not change is a stutter of the single flight.
LEMMA SameCallStutters ==
    ASSUME UNCHANGED call
    PROVE  UNCHANGED Flight!vars
BY DEF Flight!vars, Asking, Queued

\* Every step of the session is a step of the single flight, or none.
LEMMA FlightNext == IInv /\ [Next]_vars => [Flight!Next]_Flight!vars
<1> SUFFICES ASSUME IInv, [Next]_vars
             PROVE  [Flight!Next]_Flight!vars
  OBVIOUS
<1> USE DEF IInv
<1>1. ASSUME NEW r \in Request, Issue(r)
      PROVE  UNCHANGED Flight!vars
  <2>1. Others(r) /\ call[r].at = "idle" /\ call'[r].at = "sent" /\ r \in Call
    BY <1>1 DEF Issue, TypeOK, Others, Call
  <2> QED
    BY <2>1, OneCallStutters
<1>2. ASSUME NEW c \in Call, Settle(c)
      PROVE  UNCHANGED Flight!vars
  BY <1>2, SettleEffect, OneCallStutters DEF Became
<1>3. ASSUME NEW c \in Call, Unauthorized(c)
      PROVE  [Flight!Next]_Flight!vars
  <2>1. Others(c) /\ call[c].at = "sent"
    BY <1>3, UnauthorizedEffect DEF Unauthorized
  <2>2. CASE Joins(c)
    <3>1. Asking # {} /\ Asking' = Asking /\ Queued' = Queued \cup {c}
      BY <2>1, <2>2 DEF Joins, FlightInv, Asking, Queued, Others, Became
    <3> QED
      BY <3>1 DEF Flight!Next, Flight!Join
  <2>3. CASE Asks(c)
    <3>1. Asking = {} /\ Asking' = {c} /\ Queued' = Queued
      BY <2>1, <2>3 DEF Asks, FlightInv, Asking, Queued, Others, Became
    <3> QED
      BY <3>1 DEF Flight!Next, Flight!Start
  <2>4. CASE EndsSession(c)
    BY <2>1, <2>4, OneCallStutters DEF EndsSession, Became
  <2> QED
    BY <1>3, <2>2, <2>3, <2>4, UnauthorizedEffect
<1>4. ASSUME NEW v \in Verify, CheckContinues(v)
      PROVE  UNCHANGED Flight!vars
  BY <1>4, CheckContinuesEffect, OneCallStutters DEF Confirms, Refuses, RefusesLate, Became,
     Call
<1>5. ASSUME NEW v \in Verify, CheckEnds(v)
      PROVE  UNCHANGED Flight!vars
  <2>1. Others(v) /\ call[v].at = "settings" /\ call'[v].at = "idle" /\ v \in Call
    BY <1>5 DEF CheckEnds, TypeOK, Others, Call, Idle
  <2> QED
    BY <2>1, OneCallStutters
<1>6. ASSUME NEW v \in Verify, ProbeContinues(v)
      PROVE  UNCHANGED Flight!vars
  <2>1. Others(v) /\ call[v].at \in {"ok", "failed"} /\ call'[v].at = "idle" /\ v \in Call
    BY <1>6 DEF ProbeContinues, TypeOK, Others, Call, Idle
  <2> QED
    BY <2>1, OneCallStutters
<1>7. CASE RefreshSucceeds \/ RefreshFails
  <2>1. Asking # {}
    BY <1>7 DEF RefreshSucceeds, RefreshFails, FlightInv
  <2>2. Asking' = {} /\ Queued' = {}
    BY <1>7, RefreshSucceedsEffect, RefreshFailsEffect DEF Asking, Queued, Became
  <2> QED
    BY <2>1, <2>2 DEF Flight!Next, Flight!Finish
<1>8. CASE RouteEffect
  BY <1>8, RouteEffectCases, OneCallStutters, SameCallStutters
  DEF Drops, Leaves, Checks, Sends, Spare, Call
<1>9. CASE LoginEffect
  BY <1>9, LoginEffectCases, OneCallStutters, SameCallStutters
  DEF Enters, Waits, Probes, Sends, Spare, Call
<1>10. CASE (\E u \in User : SignIn(u)) \/ SignInRefused \/ SignOut
  BY <1>10, SameCallStutters DEF SignIn, SignInRefused, SignOut
<1>11. CASE Reload
  <2>1. Asking' = {} /\ Queued' = {}
    BY <1>11 DEF Reload, Asking, Queued, Idle
  <2>2. CASE Asking = {}
    BY <2>1, <2>2 DEF FlightInv, Flight!vars
  <2>3. CASE Asking # {}
    BY <2>1, <2>3 DEF Flight!Next, Flight!Finish
  <2> QED
    BY <2>2, <2>3
<1>12. CASE UNCHANGED vars
  BY <1>12, SameCallStutters DEF vars
<1> QED
  BY <1>1, <1>2, <1>3, <1>4, <1>5, <1>6, <1>7, <1>8, <1>9, <1>10, <1>11, <1>12 DEF Next

\* The shared refresh implements a single flight, for any number of requests and
\* verifications: one refresh at a time, joined by whoever needs it meanwhile, its end
\* answering all of them (utils/request.ts).
THEOREM RefreshRefines == Spec => RefreshIsSingleFlight
<1>1. Init => Flight!Init
  BY DEF Init, Flight!Init, Asking, Queued, Idle
<1>2. IInv /\ [Next]_vars => [Flight!Next]_Flight!vars
  BY FlightNext
<1> QED
  BY <1>1, <1>2, SessionInvariant, PTL DEF Spec, RefreshIsSingleFlight, Flight!Spec
=================================================================================
