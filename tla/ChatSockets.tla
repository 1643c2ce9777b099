------------------------------ MODULE ChatSockets ------------------------------
(* The WebSockets of the online-chat page (pages/chat-new/useChatNewWs.ts): one  *)
(* connection object for every account in accountIds, with the browser's socket, *)
(* a heartbeat interval and a reconnect timer.  A socket outlives its connection *)
(* object: the browser closes it later and would still call the handlers left on *)
(* it.  The server end (chat_new.py) and the network are external.               *)
EXTENDS Naturals, FiniteSets

CONSTANTS
    Account,
    Socket,   \* sockets of the browser; one that is closed and inert is used again
    NoSocket

ASSUME SocketAssumption == NoSocket \notin Socket

VARIABLES
    accountIds,   \* the accounts the page has asked for
    connections,  \* connectionsRef: [account -> its socket, or NoSocket]
    ws,           \* the sockets and what hangs on them
    mounted       \* the page is there

linkVars == <<accountIds, connections, ws, mounted>>

\* A socket and its connection object: readyState, whether the handlers are attached,
\* the heartbeat interval, the reconnect timer and conn.closed.
ReadyStates == {"unused", "connecting", "open", "closing", "closed"}
Unused == [of |-> NoSocket, state |-> "unused", handlers |-> FALSE, heartbeat |-> FALSE,
           reconnect |-> FALSE, closed |-> FALSE]

LinksTypeOK ==
    /\ accountIds \subseteq Account
    /\ connections \in [Account -> Socket \cup {NoSocket}]
    /\ ws \in [Socket -> [of : Account \cup {NoSocket}, state : ReadyStates, handlers : BOOLEAN,
                          heartbeat : BOOLEAN, reconnect : BOOLEAN, closed : BOOLEAN]]
    /\ mounted \in BOOLEAN

\* Closed and with nothing on it that could still run.
Inert(s) ==
    /\ ws[s].state \in {"unused", "closed"}
    /\ ~ws[s].heartbeat /\ ~ws[s].reconnect
    /\ \A a \in Account : connections[a] # s

\* Mutant: the handlers stay on the socket that is closed.
CleanedAttached(c) ==
    [c EXCEPT !.closed = TRUE, !.heartbeat = FALSE, !.reconnect = FALSE,
              !.state = IF @ \in {"open", "connecting"} THEN "closing" ELSE @]

\* cleanupAccount: timers cleared, handlers detached, the socket closed if need be.
Cleaned(c) ==
    [c EXCEPT !.closed = TRUE, !.heartbeat = FALSE, !.reconnect = FALSE, !.handlers = FALSE,
              !.state = IF @ \in {"open", "connecting"} THEN "closing" ELSE @]

\* What connectAccount creates.
FreshLink(a) == [Unused EXCEPT !.of = a, !.state = "connecting", !.handlers = TRUE]

\* Replace the connections of the accounts in `fresh` by the sockets it gives them, and
\* drop those of `gone`: cleanupAccount of both, then connectAccount of the first.
Renew(fresh, gone) ==
    LET old == {connections[a] : a \in DOMAIN fresh \cup gone} \ {NoSocket} IN
    /\ connections' = [a \in Account |-> IF a \in DOMAIN fresh THEN fresh[a]
                                         ELSE IF a \in gone THEN NoSocket ELSE connections[a]]
    /\ ws' = [s \in Socket |->
                IF \E a \in DOMAIN fresh : fresh[a] = s
                THEN FreshLink(CHOOSE a \in DOMAIN fresh : fresh[a] = s)
                ELSE IF s \in old THEN Cleaned(ws[s]) ELSE ws[s]]

\* New sockets for a set of accounts.
Sockets(A) ==
    {f \in [A -> {s \in Socket : Inert(s)}] : \A a, b \in A : f[a] = f[b] => a = b}

--------------------------------------------------------------------------------
(* The effects of the hook.                                                      *)

\* accountIds changed: connect the new ones, and those that have no connection any more;
\* drop the ones that left.  The page adds or removes one account at a time.
Effect(ids) ==
    LET existing == {a \in Account : connections[a] # NoSocket} IN
    \E fresh \in Sockets(ids \ existing) : Renew(fresh, existing \ ids)

Add(a) ==
    /\ mounted /\ a \notin accountIds
    /\ accountIds' = accountIds \cup {a}
    /\ Effect(accountIds \cup {a})
    /\ UNCHANGED mounted

Remove(a) ==
    /\ mounted /\ a \in accountIds
    /\ accountIds' = accountIds \ {a}
    /\ Effect(accountIds \ {a})
    /\ UNCHANGED mounted

\* The page goes away (signing out unmounts the layout that keeps it alive).
Unmount ==
    /\ mounted
    /\ mounted' = FALSE
    /\ accountIds' = {}
    /\ Renew(<<>>, Account)

Mount == ~mounted /\ mounted' = TRUE /\ UNCHANGED <<accountIds, connections, ws>>

--------------------------------------------------------------------------------
(* The events of a socket.                                                       *)

\* onopen starts the heartbeat.
Open(s) ==
    /\ ws[s].state = "connecting"
    /\ ws' = [ws EXCEPT ![s].state = "open", ![s].heartbeat = @ \/ ws[s].handlers]
    /\ UNCHANGED <<accountIds, connections, mounted>>

Alive(s) == ws[s].state \in {"connecting", "open", "closing"}

\* Mutant: only a socket that had opened is retried.
LoseOpened(s) ==
    /\ Alive(s)
    /\ ws' = [ws EXCEPT ![s].state = "closed",
                        ![s].heartbeat = @ /\ ~ws[s].handlers,
                        ![s].reconnect = @ \/ (ws[s].heartbeat /\ ~ws[s].closed)]
    /\ UNCHANGED <<accountIds, connections, mounted>>

\* onclose for another reason than authentication: retry in three seconds.
Lose(s) ==
    /\ Alive(s)
    /\ ws' = [ws EXCEPT ![s].state = "closed",
                        ![s].heartbeat = @ /\ ~ws[s].handlers,
                        ![s].reconnect = @ \/ (ws[s].handlers /\ ~ws[s].closed)]
    /\ UNCHANGED <<accountIds, connections, mounted>>

\* onclose with 4401 or 4403: the connection is given up.
Refuse(s) ==
    /\ Alive(s) /\ ws[s].handlers
    /\ ws' = [ws EXCEPT ![s].state = "closed", ![s].heartbeat = FALSE, ![s].closed = TRUE]
    /\ connections' = [connections EXCEPT ![ws[s].of] = NoSocket]
    /\ UNCHANGED <<accountIds, mounted>>

\* The reconnect timer fires.
Reconnect(s) ==
    /\ ws[s].reconnect
    /\ \/ /\ ws[s].closed
          /\ ws' = [ws EXCEPT ![s].reconnect = FALSE]
          /\ UNCHANGED connections
       \/ /\ ~ws[s].closed
          /\ \E fresh \in Sockets({ws[s].of}) : Renew(fresh, {})
    /\ UNCHANGED <<accountIds, mounted>>

--------------------------------------------------------------------------------

LinksInit ==
    /\ accountIds = {}
    /\ connections = [a \in Account |-> NoSocket]
    /\ ws = [s \in Socket |-> Unused]
    /\ mounted = TRUE

LinksNext ==
    \/ \E a \in Account : Add(a) \/ Remove(a)
    \/ Unmount \/ Mount
    \/ \E s \in Socket : Open(s) \/ Lose(s) \/ Refuse(s) \/ Reconnect(s)

LinksSpec == LinksInit /\ [][LinksNext]_linkVars

\* A server that keeps being asked accepts some attempt, timers fire (strong fairness only
\* because the instance may have no socket to spare for a while), and a socket that was
\* closed closes.
LinksFairness ==
    /\ \A s \in Socket : WF_linkVars(ws[s].state = "closing" /\ Lose(s))
    /\ \A a \in Account :
        /\ SF_linkVars(\E s \in Socket : ws[s].of = a /\ Reconnect(s))
        /\ SF_linkVars(\E s \in Socket : ws[s].of = a /\ ws[s].handlers /\ Open(s))

LinksFairSpec == LinksSpec /\ LinksFairness

--------------------------------------------------------------------------------
(* What has to hold.                                                             *)

\* What may still act for an account: a socket that connects, is open or would call a
\* handler, a heartbeat, a timer.
Live(a) ==
    {s \in Socket : /\ ws[s].of = a
                    /\ \/ ws[s].state \in {"connecting", "open"}
                       \/ ws[s].handlers /\ Alive(s)
                       \/ ws[s].heartbeat \/ ws[s].reconnect}

Status(s) ==
    CASE ws[s].state = "connecting" /\ ~ws[s].heartbeat /\ ~ws[s].reconnect -> "connecting"
      [] ws[s].state = "open" /\ ws[s].heartbeat /\ ~ws[s].reconnect -> "open"
      [] ws[s].state = "closed" /\ ~ws[s].heartbeat /\ ws[s].reconnect -> "waiting"
      [] OTHER -> "broken"

Link(a) ==
    IF Live(a) = {}
    THEN IF connections[a] # NoSocket THEN "dead"
         ELSE IF a \in accountIds THEN "rejected" ELSE "none"
    ELSE IF Cardinality(Live(a)) = 1 THEN Status(CHOOSE s \in Live(a) : TRUE) ELSE "several"

\* Whatever sockets the browser still holds, at most one thing acts for an account, and
\* only for an account the page wants; a lost link is retried, a rejected one is not
\* until the list changes.  After the page is gone nothing acts at all.
Links == INSTANCE ChatLinks WITH wanted <- accountIds, link <- [a \in Account |-> Link(a)]
LinksAreKept == Links!Spec

\* A wanted account gets its events in the end, unless the server rejected it.
WantedOpens ==
    \A a \in Account :
        a \in accountIds ~> Link(a) \in {"open", "rejected"} \/ a \notin accountIds
================================================================================
