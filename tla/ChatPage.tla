-------------------------------- MODULE ChatPage --------------------------------
(* The online-chat page (pages/chat-new/ChatNew.tsx): one account and one of its   *)
(* conversations are shown; lists and messages of the others wait in caches that   *)
(* effects keep in step with what is shown; messages are pushed for every account.  *)
(* An action is an event with the effects React runs after it.  A list is known by  *)
(* the account it belongs to, messages by their conversation, by how many of its    *)
(* pushed messages they hold, and by whether one of the seller's own is among them.  *)
(* The backend is external.                                                         *)
EXTENDS Naturals, FiniteSets

CONSTANTS
    Conv,       \* conversations
    AccountOf,  \* [Conv -> the account that has it]
    MaxEvents,  \* bound: what the user does, messages pushed, and accounts dropped
    None

VARIABLES
    connected,  \* accounts the page knows as connected (accountsRef)
    active,     \* activeAccountId
    cid,        \* activeCid
    convs,      \* conversations: the account they are of, None when empty
    msgs,       \* messages, NoMsgs when empty
    convCache,  \* convsCacheRef: [account -> the account the cached list is of, or None]
    msgCache,   \* msgsCacheRef: [account, conversation -> messages]
    last,       \* activeConvPerAccountRef: [account -> conversation or None]
    inFlight,   \* requests of the page that are not answered yet
    pasted,     \* pendingImage: the conversation it was pasted in, or None
    blocked,    \* isOfficiallyBlocked: the conversation whose status it is, None for false
    dialog,     \* the confirmation of handleBlacklistCustomer: what it captured, or None
    got,        \* ghost: messages pushed for each conversation, echoes apart
    missed,     \* ghost: conversations with a message that a list may lack
    events,     \* how many of these events there were
    late        \* ghost: an answer was applied to what was no longer shown

chatVars == <<connected, active, cid, convs, msgs, convCache, msgCache, last, inFlight,
              pasted, blocked, dialog, got, missed, events, late>>

Owner == {AccountOf[c] : c \in Conv}

ASSUME ChatAssumption == None \notin Conv \cup Owner /\ MaxEvents \in Nat

NoMsgs == [of |-> None, n |-> 0, own |-> FALSE]
Messages == {NoMsgs} \cup [of : Conv, n : 0 .. MaxEvents, own : BOOLEAN]

\* A request: what it does and for which account or conversation.
ConvRequest == [do : {"messages", "send", "image", "status", "block", "unblock"}, for : Conv]
AccountRequest == [do : {"list", "connect", "disconnect", "close"}, for : Owner]

ChatTypeOK ==
    /\ connected \subseteq Owner
    /\ active \in Owner \cup {None} /\ cid \in Conv \cup {None}
    /\ convs \in Owner \cup {None} /\ msgs \in Messages
    /\ convCache \in [Owner -> Owner \cup {None}]
    /\ msgCache \in [Owner \X Conv -> Messages]
    /\ last \in [Owner -> Conv \cup {None}]
    /\ inFlight \subseteq ConvRequest \cup AccountRequest
    /\ pasted \in Conv \cup {None} /\ blocked \in Conv \cup {None}
    /\ dialog \in ConvRequest \cup {None}
    /\ got \in [Conv -> 0 .. MaxEvents]
    /\ missed \subseteq Conv
    /\ events \in 0 .. MaxEvents
    /\ late \in BOOLEAN

Request(what, for) == [do |-> what, for |-> for]
Event == events < MaxEvents /\ events' = events + 1
Doing(what) == {r \in inFlight : r.do = what}
Sending == Doing("send") \cup Doing("image")     \* sending
Blacklisting == Doing("block") \cup Doing("unblock")

--------------------------------------------------------------------------------
(* The effects.  Every event ends in one of Shown, Moved or Switched, which say    *)
(* what the effects do to the caches.                                              *)

\* The list on the screen goes to its cache, empty ones apart.
SyncConvs(cache, a, list) ==
    IF a = None \/ list = None THEN cache ELSE [cache EXCEPT ![a] = list]
SyncMsgs(cache, a, c, m) ==
    IF None \in {a, c} \/ m = NoMsgs THEN cache ELSE [cache EXCEPT ![<<a, c>>] = m]

\* Mutant: the effect that asks for the blacklist status has no clean-up.
NotCleaned(R) == R

\* The blacklist effect is cleaned up: its answer will not be taken.
CleanedUp(R) == {r \in R : r.do # "status"}

\* Neither the account nor the conversation changed: new lists are cached.
Shown(list, m) ==
    /\ convs' = list /\ msgs' = m
    /\ convCache' = SyncConvs(convCache, active, list)
    /\ msgCache' = SyncMsgs(msgCache, active, cid, m)
    /\ UNCHANGED <<active, cid, last>>

\* Mutant: the effect that drops the picture looks at the account only.
ImageKept == pasted

\* clearPendingImage, by the effect on account and conversation.
ImageAfterMove == None

\* The conversation changed: the messages on the screen are not cached in this turn, the
\* pasted image is dropped, and the blacklist status is asked again.
Moved(c, m, requests) ==
    /\ cid' = c /\ msgs' = m
    /\ last' = [last EXCEPT ![active] = c]
    /\ IF c = cid
       THEN /\ msgCache' = SyncMsgs(msgCache, active, c, m)
            /\ inFlight' = inFlight \cup requests
            /\ UNCHANGED <<pasted, blocked>>
       ELSE /\ UNCHANGED msgCache
            /\ inFlight' = CleanedUp(inFlight) \cup requests \cup {Request("status", c)}
            /\ pasted' = ImageAfterMove /\ blocked' = None
    /\ UNCHANGED <<active, convs, convCache>>

\* Mutant: the list on the screen is cached in the turn in which the account changes.
SwitchedCaching(a, open, done) ==
    LET cache == SyncConvs(convCache, a, convs)
        c == IF a \in open THEN last[a] ELSE None
        list == IF a \in open THEN cache[a] ELSE None IN
    /\ active' = a /\ cid' = c /\ convs' = list
    /\ msgs' = IF c = None THEN NoMsgs ELSE msgCache[<<a, c>>]
    /\ convCache' = cache
    /\ inFlight' = (CleanedUp(inFlight) \ done)
                     \cup (IF a \in open /\ list = None THEN {Request("list", a)} ELSE {})
                     \cup (IF c # None THEN {Request("status", c)} ELSE {})
    /\ pasted' = None /\ blocked' = None
    /\ UNCHANGED <<msgCache, last>>

\* The account changed: nothing is cached, for the lists on the screen are still those of
\* the account before; then the select effect restores what the new account has in the
\* caches, or asks for its list (not for the messages of its last conversation).  The
\* accounts in `open` are those known as connected; one that is not shows nothing, and its
\* last conversation is forgotten when another one was on the screen.
Switched(a, open, done) ==
    LET c == IF a \in open THEN last[a] ELSE None
        list == IF a \in open THEN convCache[a] ELSE None IN
    /\ active' = a /\ cid' = c /\ convs' = list
    /\ msgs' = IF c = None THEN NoMsgs ELSE msgCache[<<a, c>>]
    /\ inFlight' = (CleanedUp(inFlight) \ done)
                     \cup (IF a \in open /\ list = None THEN {Request("list", a)} ELSE {})
                     \cup (IF c # None THEN {Request("status", c)} ELSE {})
    /\ pasted' = None /\ blocked' = None
    /\ last' = IF a \in open \cup {None} \/ cid = None THEN last ELSE [last EXCEPT ![a] = None]
    /\ UNCHANGED <<convCache, msgCache>>

Activate(a, open, done) ==
    IF a # active THEN Switched(a, open, done)
    ELSE /\ inFlight' = inFlight \ done
         /\ UNCHANGED <<active, cid, convs, msgs, convCache, msgCache, last, pasted, blocked>>

--------------------------------------------------------------------------------
(* Accounts.                                                                      *)

\* handleSelectAccount: a connected one is shown, another one is connected first.
SelectAccount(a) ==
    /\ Event
    /\ a # active
    /\ IF a \in connected
       THEN Activate(a, connected, {})
       ELSE /\ inFlight' = inFlight \cup {Request("connect", a)}
            /\ UNCHANGED <<active, cid, convs, msgs, convCache, msgCache, last, pasted, blocked>>
    /\ UNCHANGED <<connected, dialog, got, missed, late>>

\* handleConnect: the account is shown when it is connected, whatever is shown by then; when
\* the refresh of the list fails, the page does not know yet that it is connected.
Connected(a) ==
    LET r == Request("connect", a) IN
    /\ r \in inFlight
    /\ \/ /\ connected' \in {connected, connected \cup {a}}
          /\ Activate(a, connected', {r})
       \/ /\ inFlight' = inFlight \ {r}
          /\ UNCHANGED <<connected, active, cid, convs, msgs, convCache, msgCache, last, pasted,
                         blocked>>
    /\ UNCHANGED <<dialog, got, missed, events, late>>

\* handleDisconnect: it remembers whether the account was the active one ("close") when
\* the button was pressed.
Disconnect(a) ==
    /\ Event
    /\ a \in connected
    /\ inFlight' = inFlight \cup {Request(IF a = active THEN "close" ELSE "disconnect", a)}
    /\ UNCHANGED <<connected, active, cid, convs, msgs, convCache, msgCache, last, pasted, blocked,
                   dialog, got, missed, late>>

\* It is disconnected, which the page learns from the list, if that can be refreshed: it shows
\* nothing if the account was the active one, even if another is by now; the caches stay.
Disconnected(a) ==
    /\ \E what \in {"disconnect", "close"} :
        LET r == Request(what, a) IN
        /\ r \in inFlight
        /\ \/ /\ connected' \in {connected, connected \ {a}}
              /\ IF what = "close" THEN Activate(None, {}, {r})
                 ELSE Activate(active, connected, {r})
           \/ /\ Activate(active, connected, {r})
              /\ UNCHANGED connected
    /\ UNCHANGED <<dialog, got, missed, events, late>>

\* A refresh of the list after a lost WebSocket says the account is not connected.
Dropped(a) ==
    /\ Event
    /\ a \in connected
    /\ connected' = connected \ {a}
    /\ UNCHANGED <<active, cid, convs, msgs, convCache, msgCache, last, inFlight, pasted,
                   blocked, dialog, got, missed, late>>

--------------------------------------------------------------------------------
(* Lists and messages.                                                            *)

\* The list is asked again with its button.
ReloadList ==
    /\ Event
    /\ active # None
    /\ inFlight' = inFlight \cup {Request("list", active)}
    /\ UNCHANGED <<connected, active, cid, convs, msgs, convCache, msgCache, last, pasted,
                   blocked, dialog, got, missed, late>>

\* loadConversations answers, with conversations, without, or not at all; nobody asks
\* whether its account is still the active one.
ListLoaded(a) ==
    LET r == Request("list", a) IN
    /\ r \in inFlight
    /\ inFlight' = inFlight \ {r}
    /\ \/ /\ \E list \in {a, None} : Shown(list, msgs)
          /\ late' = (late \/ a # active)
       \/ UNCHANGED <<active, cid, convs, msgs, convCache, msgCache, last, late>>
    /\ UNCHANGED <<connected, pasted, blocked, dialog, got, missed, events>>

\* handleSelectConversation: from the cache, or asked for.
SelectConversation(c) ==
    /\ Event
    /\ convs = AccountOf[c] /\ active # None
    /\ LET m == msgCache[<<active, c>>] IN
        Moved(c, m, IF m = NoMsgs THEN {Request("messages", c)} ELSE {})
    /\ UNCHANGED <<connected, dialog, got, missed, late>>

\* loadMessages answers; nobody asks whether its conversation is still shown.  A message
\* pushed meanwhile may be missing from the answer.  No answer is worth a toast only.
MessagesLoaded(c) ==
    LET r == Request("messages", c) IN
    /\ r \in inFlight
    /\ inFlight' = inFlight \ {r}
    /\ \/ /\ \E m \in {NoMsgs} \cup [of : {c}, n : 0 .. got[c], own : BOOLEAN] :
                /\ m.n # got[c] => c \in missed
                /\ Shown(convs, m)
          /\ late' = (late \/ c # cid)
          /\ UNCHANGED missed
       \/ /\ missed' = missed \cup {c}
          /\ UNCHANGED <<active, cid, convs, msgs, convCache, msgCache, last, late>>
    /\ UNCHANGED <<connected, pasted, blocked, dialog, got, events>>

\* appendMsg, when it adds the message; "mine" when it is the seller's own.
Append1(m, c, mine) ==
    [of |-> IF m.of = None THEN c ELSE m.of, n |-> m.n + 1, own |-> mine \/ m.own]

\* Mutant: a message for an account in the background is only counted in its list.
PushListOnly(a, c, mine) == UNCHANGED <<msgCache, convCache>>

\* handleWsNewMessage for an account in the background: its cached list, if there is one,
\* and the cached messages of the conversation, if there are any.
PushBehind(a, c, mine) ==
    /\ msgCache' = IF msgCache[<<a, c>>] = NoMsgs THEN msgCache
                   ELSE [msgCache EXCEPT ![<<a, c>>] = Append1(@, c, mine)]
    /\ UNCHANGED convCache

\* What a list may lack of a pushed message: a load of the conversation is on its way; the
\* conversation is not shown, but its account is, and its messages are cached (they are
\* neither extended nor loaded again); or it is the last one of its account, not shown, with
\* no messages in the cache (it is not loaded when its account comes back).
Lost(a, c) ==
    \/ Request("messages", c) \in inFlight
    \/ a = active /\ c # cid /\ msgCache[<<a, c>>] # NoMsgs
    \/ c # cid /\ last[a] = c /\ msgCache[<<a, c>>] = NoMsgs

\* handleWsNewMessage: shown when its conversation is, added to the list of the active
\* account, or to the caches.
Push(c) ==
    LET a == AccountOf[c] IN
    /\ Event
    /\ got' = [got EXCEPT ![c] = @ + 1]
    /\ missed' = IF Lost(a, c) THEN missed \cup {c} ELSE missed
    /\ \E mine \in BOOLEAN :
        IF a = active
        THEN Shown(a, IF c = cid THEN Append1(msgs, c, mine) ELSE msgs)
        ELSE PushBehind(a, c, mine) /\ UNCHANGED <<active, cid, convs, msgs, last>>
    /\ UNCHANGED <<connected, inFlight, pasted, blocked, dialog, late>>

\* The messages that a pushed one would be appended to.
Receiving(a, c) ==
    IF a # active THEN msgCache[<<a, c>>] ELSE IF c = cid THEN msgs ELSE NoMsgs

\* handleWsNewMessage when appendMsg takes a message of the seller's own for one that the
\* list holds (same text, less than five seconds apart): for the echo of one that the page
\* added itself, or for a second one with the same text, which the list then lacks.
Repeated(c) ==
    LET a == AccountOf[c] IN
    /\ Event
    /\ Receiving(a, c).own
    /\ \/ UNCHANGED <<got, missed>>
       \/ got' = [got EXCEPT ![c] = @ + 1] /\ missed' = missed \cup {c}
    /\ IF a = active THEN Shown(a, msgs)
       ELSE UNCHANGED <<active, cid, convs, msgs, convCache, msgCache, last>>
    /\ UNCHANGED <<connected, inFlight, pasted, blocked, dialog, late>>

--------------------------------------------------------------------------------
(* Sending, and the blacklist.                                                    *)

\* A picture from the clipboard waits under the input field.
Paste ==
    /\ Event
    /\ cid # None /\ Sending = {}
    /\ pasted' = cid
    /\ UNCHANGED <<connected, active, cid, convs, msgs, convCache, msgCache, last, inFlight,
                   blocked, dialog, got, missed, late>>

\* handleSendMessage: the picture that waits, else the text; only for a conversation that
\* is in the list, one at a time.
Send ==
    /\ Event
    /\ active # None /\ cid # None /\ Sending = {}
    /\ pasted' = None
    /\ inFlight' = IF convs # AccountOf[cid] THEN inFlight
                   ELSE inFlight \cup
                          {Request(IF pasted # None THEN "image" ELSE "send", cid)}
    /\ UNCHANGED <<connected, active, cid, convs, msgs, convCache, msgCache, last, blocked,
                   dialog, got, missed, late>>

\* The messages m with one that the page adds itself.
Added(m, c) == [of |-> IF m.of = None THEN c ELSE m.of, n |-> m.n, own |-> TRUE]

\* Sent or not, the message is added to the messages shown now (and cached with them, be
\* the conversation loaded or not).
Sent(r) ==
    /\ r \in Sending
    /\ inFlight' = inFlight \ {r}
    /\ Shown(convs, Added(msgs, r.for))
    /\ late' = (late \/ r.for # cid)
    /\ missed' = IF Request("messages", r.for) \in inFlight THEN missed \cup {r.for} ELSE missed
    /\ UNCHANGED <<connected, pasted, blocked, dialog, got, events>>

\* The blacklist status of the conversation, if its effect is still there to take it.
StatusAnswered(c) ==
    LET r == Request("status", c) IN
    /\ r \in inFlight
    /\ inFlight' = inFlight \ {r}
    /\ blocked' \in {c, None}
    /\ UNCHANGED <<connected, active, cid, convs, msgs, convCache, msgCache, last, pasted,
                   dialog, got, missed, events, late>>

\* handleBlacklistCustomer asks for a confirmation; the action was chosen when it asked.
Ask ==
    /\ Event
    /\ active # None /\ cid # None /\ convs = AccountOf[cid]
    /\ Blacklisting = {} /\ dialog = None
    /\ dialog' = Request(IF blocked = None THEN "block" ELSE "unblock", cid)
    /\ UNCHANGED <<connected, active, cid, convs, msgs, convCache, msgCache, last, inFlight,
                   pasted, blocked, got, missed, late>>

Confirm ==
    /\ dialog # None
    /\ dialog' = None
    /\ inFlight' \in {inFlight, inFlight \cup {dialog}}
    /\ UNCHANGED <<connected, active, cid, convs, msgs, convCache, msgCache, last, pasted,
                   blocked, got, missed, events, late>>

\* Its success is the status of the conversation shown now.
Blacklisted(r) ==
    /\ r \in Blacklisting
    /\ inFlight' = inFlight \ {r}
    /\ \/ /\ blocked' = IF r.do = "block" THEN r.for ELSE None
          /\ late' = (late \/ r.for # cid)
       \/ UNCHANGED <<blocked, late>>
    /\ UNCHANGED <<connected, active, cid, convs, msgs, convCache, msgCache, last, pasted,
                   dialog, got, missed, events>>

--------------------------------------------------------------------------------

ChatInit ==
    /\ connected \in SUBSET Owner
    /\ active = None /\ cid = None /\ convs = None /\ msgs = NoMsgs
    /\ convCache = [a \in Owner |-> None]
    /\ msgCache = [k \in Owner \X Conv |-> NoMsgs]
    /\ last = [a \in Owner |-> None]
    /\ inFlight = {} /\ pasted = None /\ blocked = None /\ dialog = None
    /\ got = [c \in Conv |-> 0] /\ missed = {}
    /\ events = 0 /\ late = FALSE

ChatEvent ==
    \/ \E a \in Owner :
        \/ SelectAccount(a) \/ Connected(a) \/ Disconnect(a) \/ Disconnected(a) \/ Dropped(a)
        \/ ListLoaded(a)
    \/ ReloadList
    \/ \E c \in Conv :
        \/ SelectConversation(c) \/ MessagesLoaded(c) \/ Push(c) \/ Repeated(c)
        \/ StatusAnswered(c)
    \/ Paste \/ Send \/ Ask \/ Confirm
    \/ \E r \in inFlight : Sent(r) \/ Blacklisted(r)

\* What a late answer leaves on the screen is mixed: the instance ends there.
ChatNext == ~late /\ ChatEvent

ChatSpec == ChatInit /\ [][ChatNext]_chatVars

--------------------------------------------------------------------------------
(* What has to hold.                                                              *)

\* What is shown and cached for an account is its own, and for a conversation its own:
\* switching accounts and conversations in any order, with pushes in between, files nothing
\* under a wrong name, unless an answer came for what was no longer shown.
CachesBelong ==
    ~late =>
        /\ convs \in {active, None} /\ msgs.of \in {cid, None}
        /\ \A a \in Owner : convCache[a] \in {a, None}
        /\ \A a \in Owner, c \in Conv :
            msgCache[<<a, c>>] # NoMsgs => msgCache[<<a, c>>].of = c /\ AccountOf[c] = a

\* The conversation on the screen holds every message pushed for it, also those that came
\* while another account was shown, with the exceptions of Lost, and of the seller's own
\* messages that Repeated takes for one shown; an unanswered load makes no promise either.
PushesAreShown == ~late /\ msgs.of = cid /\ cid \notin missed /\ cid # None => msgs.n = got[cid]

\* The blacklist mark, which decides whether the button adds or removes the customer, is
\* of the conversation shown.
BlockedIsOfShown == ~late => blocked \in {cid, None}

\* A picture pasted in one conversation is not sent to another.
ImageStays ==
    [][\A c \in Conv : LET r == Request("image", c) IN
          r \in inFlight' \ inFlight => pasted = c]_chatVars
================================================================================
