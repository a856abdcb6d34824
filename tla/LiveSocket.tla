----------------------------- MODULE LiveSocket -----------------------------
(***************************************************************************)
(* The web UI's live connection (useLiveSocket): one WebSocket to a topic, *)
(* kept open over server restarts, network changes, machine sleep and      *)
(* changes of topic.  Every action is one browser event with the handler   *)
(* it runs.  close() only begins to close: the socket's onclose comes      *)
(* later, over a dead link much later, and finds refs and timers that may  *)
(* by then belong to another socket.                                       *)
(*                                                                         *)
(* Durations (backoff, timeouts) are left out: an armed timer may fire at  *)
(* any time, except that a handshake the server answers is answered within *)
(* its timeout.                                                            *)
(***************************************************************************)
EXTENDS Naturals, FiniteSets

CONSTANTS
    Sock,            \* socket slots, reused once closed
    Topic,
    Nothing,
    MaxUpsets        \* bound: sleeps, network losses, restarts, topic changes,
                     \* nudges, unmounting

ASSUME SocketAssumption == Nothing \notin Sock \cup Topic

VARIABLES
    sock,          \* sock[s]: readyState, link, topic and unanswered ping, or ClosedSocket
    socketRef,     \* the socket the hook works with, or Nothing
    handshake,     \* sockets whose handshake timer is armed
    connectTimer,  \* the socket whose handshake timer the ref names, or Nothing
    retry,         \* topic of the reconnect timer the ref names, or Nothing
    strays,        \* topics of armed reconnect timers no ref names any more
    probe,         \* a probe timer is armed
    status,        \* "live", "connecting" or "down"
    topic,         \* the topic the page asks for
    wasLive,       \* status as the current effect's closures captured it
    disposed,      \* unmounted
    online,        \* navigator.onLine
    serverRuns,
    wakeDue,       \* the machine slept and no wake-up check has run since
    upsets         \* spent bound

timers == <<handshake, connectTimer, retry, strays, probe>>
page == <<topic, wasLive, disposed>>
world == <<online, serverRuns, wakeDue, upsets>>
hookVars == <<sock, socketRef, timers, status, page, world>>

ClosedSocket == [state |-> "closed"]
NewSocket(t) == [state |-> "connecting", link |-> "up", topic |-> t, pinged |-> FALSE]

\* connect returns early on an existing socket in one of these states.
Busy(s, sk) == s # Nothing /\ sk[s].state \in {"open", "connecting"}

\* close(): from either state the socket is closing until onclose has run.
Closing(s, sk) ==
    IF s # Nothing /\ sk[s].state \in {"open", "connecting"}
    THEN [sk EXCEPT ![s].state = "closing"] ELSE sk

\* The server answers on this socket's link.
Reached(s) == sock[s].link = "up" /\ serverRuns /\ online

HookInit ==
    /\ topic \in Topic /\ wasLive = FALSE /\ disposed = FALSE
    /\ socketRef \in Sock /\ handshake = {socketRef} /\ connectTimer = socketRef
    /\ sock = [s \in Sock |-> IF s = socketRef THEN NewSocket(topic) ELSE ClosedSocket]
    /\ retry = Nothing /\ strays = {} /\ probe = FALSE /\ status = "connecting"
    /\ online = TRUE /\ serverRuns = TRUE /\ wakeDue = FALSE /\ upsets = 0

-----------------------------------------------------------------------------
(* The hook's functions.                                                   *)

\* Mutant: a timer that fires after unmounting connects.
RefusesNever == FALSE

Refuses == disposed

\* connect, in the closure of an effect for topic t that captured `was`; sk and r are
\* the sockets and the reconnect timer as the caller leaves them.
connect(t, was, ref, sk, r) ==
    IF Refuses \/ Busy(ref, sk)
    THEN /\ sock' = sk /\ socketRef' = ref /\ retry' = r
         /\ UNCHANGED <<handshake, connectTimer, probe, status>>
    ELSE LET s == CHOOSE x \in Sock : sk[x] = ClosedSocket
         IN  /\ sock' = [sk EXCEPT ![s] = NewSocket(t)]
             /\ socketRef' = s /\ connectTimer' = s
             /\ handshake' = handshake \cup {s}
             /\ retry' = Nothing /\ probe' = FALSE
             /\ status' = IF was THEN status ELSE "connecting"

\* Mutant: an open socket is trusted.
ProbesNever == FALSE

\* An open socket is probed unless a probe is under way.
Probes == sock[socketRef].state = "open" /\ ~probe

checkConnection ==
    IF disposed THEN UNCHANGED <<sock, socketRef, timers, status>>
    ELSE /\ UNCHANGED strays
         /\ IF Busy(socketRef, sock)
            THEN /\ IF Probes
                    THEN sock' = [sock EXCEPT ![socketRef].pinged = TRUE] /\ probe' = TRUE
                    ELSE UNCHANGED <<sock, probe>>
                 /\ UNCHANGED <<socketRef, handshake, connectTimer, retry, status>>
            ELSE connect(topic, wasLive, socketRef, sock, retry)

-----------------------------------------------------------------------------
(* Events of a socket.                                                     *)

onopen(s) ==
    /\ sock[s].state = "connecting" /\ Reached(s)
    /\ sock' = [sock EXCEPT ![s].state = "open"]
    /\ handshake' = handshake \ {connectTimer}
    /\ status' = "live"
    /\ UNCHANGED <<socketRef, connectTimer, retry, strays, probe, page, world>>

\* The pong of the probe; other frames concern the page only.
onmessage(s) ==
    /\ sock[s].state = "open" /\ Reached(s) /\ sock[s].pinged
    /\ sock' = [sock EXCEPT ![s].pinged = FALSE]
    /\ probe' = FALSE
    /\ UNCHANGED <<socketRef, handshake, connectTimer, retry, strays, status, page, world>>

\* Whichever socket this is: the timers the refs name are cleared and a reconnect is
\* scheduled over the one that may be armed already.
onclose(s) ==
    /\ sock[s].state = "closing"
    /\ sock' = [sock EXCEPT ![s] = ClosedSocket]
    /\ handshake' = handshake \ {connectTimer, s}
    /\ probe' = FALSE
    /\ status' = IF online THEN "connecting" ELSE "down"
    /\ IF disposed THEN UNCHANGED <<retry, strays>>
       ELSE /\ retry' = sock[s].topic
            /\ strays' = strays \cup ({retry} \ {Nothing})
    /\ UNCHANGED <<socketRef, connectTimer, page, world>>

\* The browser ends a handshake that cannot succeed, and a connection whose ping TCP
\* retransmitted in vain.
Fails(s) ==
    /\ sock[s].state \in {"connecting", "open"} /\ ~Reached(s)
    /\ sock[s].state = "open" => sock[s].pinged
    /\ sock' = Closing(s, sock)
    /\ UNCHANGED <<socketRef, timers, status, page, world>>

-----------------------------------------------------------------------------
(* Timers.                                                                 *)

HandshakeTimeout(s) ==
    /\ s \in handshake
    /\ sock[s].state = "connecting" => ~Reached(s)
    /\ handshake' = handshake \ {s}
    /\ sock' = IF sock[s].state = "connecting" THEN Closing(s, sock) ELSE sock
    /\ UNCHANGED <<socketRef, connectTimer, retry, strays, probe, status, page, world>>

\* No pong in time, whatever socket the ping was sent on.
ProbeTimeout ==
    /\ probe /\ probe' = FALSE
    /\ sock' = Closing(socketRef, sock)
    /\ UNCHANGED <<socketRef, handshake, connectTimer, retry, strays, status, page, world>>

\* The closure of an earlier topic's effect captured its own status; only that it may
\* differ matters.
Retry ==
    \/ /\ retry # Nothing
       /\ \E was \in IF retry = topic THEN {wasLive} ELSE BOOLEAN :
             connect(retry, was, socketRef, sock, Nothing)
       /\ UNCHANGED <<strays, page, world>>
    \/ \E t \in strays :
          /\ \E was \in IF t = topic THEN {wasLive} ELSE BOOLEAN :
                connect(t, was, socketRef, sock, retry)
          /\ strays' = strays \ {t}
          /\ UNCHANGED <<page, world>>

-----------------------------------------------------------------------------
(* The machine, the network, the server and the page.                      *)

Upset == upsets < MaxUpsets /\ upsets' = upsets + 1

\* The machine sleeps: links may be dead when it resumes.
Sleep ==
    /\ Upset /\ wakeDue' = TRUE
    /\ sock' \in {sock, [s \in Sock |-> IF sock[s] = ClosedSocket THEN ClosedSocket
                                        ELSE [sock[s] EXCEPT !.link = "dead"]]}
    /\ UNCHANGED <<socketRef, timers, status, page, online, serverRuns>>

\* onWake on visibilitychange, focus or pageshow, or the watchdog that saw the gap.
Wake ==
    /\ wakeDue /\ wakeDue' = FALSE /\ checkConnection
    /\ UNCHANGED <<page, online, serverRuns, upsets>>

\* Focus without a sleep, or a resync click (reconnectSignal).
Nudge ==
    /\ Upset /\ ~disposed /\ checkConnection
    /\ UNCHANGED <<page, online, serverRuns, wakeDue>>

onOffline ==
    /\ Upset /\ online /\ online' = FALSE
    /\ IF disposed THEN UNCHANGED <<sock, status>>
       ELSE sock' = Closing(socketRef, sock) /\ status' = "down"
    /\ UNCHANGED <<socketRef, timers, page, serverRuns, wakeDue>>

Online ==
    /\ ~online /\ online' = TRUE /\ checkConnection
    /\ UNCHANGED <<page, serverRuns, wakeDue, upsets>>

\* The server goes away: connections it could still reach are closed.
ServerGoes ==
    /\ Upset /\ serverRuns /\ serverRuns' = FALSE
    /\ sock' = [s \in Sock |-> IF sock[s].state = "open" /\ Reached(s)
                               THEN [sock[s] EXCEPT !.state = "closing"] ELSE sock[s]]
    /\ UNCHANGED <<socketRef, timers, status, page, online, wakeDue>>

ServerReturns ==
    /\ ~serverRuns /\ serverRuns' = TRUE
    /\ UNCHANGED <<sock, socketRef, timers, status, page, online, wakeDue, upsets>>

\* The effect's cleanup: the timers the refs name, the socket and its ref.
Cleanup ==
    [sock |-> Closing(socketRef, sock), handshake |-> handshake \ {connectTimer}]

Unmount ==
    /\ Upset /\ ~disposed /\ disposed' = TRUE
    /\ sock' = Cleanup.sock /\ socketRef' = Nothing
    /\ handshake' = Cleanup.handshake /\ retry' = Nothing /\ probe' = FALSE
    /\ UNCHANGED <<connectTimer, strays, status, topic, wasLive, online, serverRuns, wakeDue>>

\* Another topic: cleanup, then the effect runs again and connects.
ChangeTopic ==
    /\ Upset /\ ~disposed
    /\ \E t \in Topic \ {topic} :
          LET s == CHOOSE x \in Sock : Cleanup.sock[x] = ClosedSocket
          IN  /\ topic' = t
              /\ sock' = [Cleanup.sock EXCEPT ![s] = NewSocket(t)]
              /\ socketRef' = s /\ connectTimer' = s
              /\ handshake' = Cleanup.handshake \cup {s}
    /\ wasLive' = (status = "live")
    /\ status' = IF status = "live" THEN status ELSE "connecting"
    /\ retry' = Nothing /\ probe' = FALSE
    /\ UNCHANGED <<strays, disposed, online, serverRuns, wakeDue>>

HookNext ==
    \/ \E s \in Sock : onopen(s) \/ onmessage(s) \/ onclose(s) \/ Fails(s)
                       \/ HandshakeTimeout(s)
    \/ ProbeTimeout \/ Retry
    \/ Sleep \/ Wake \/ Nudge \/ onOffline \/ Online
    \/ ServerGoes \/ ServerReturns \/ Unmount \/ ChangeTopic

HookSpec == HookInit /\ [][HookNext]_hookVars

\* Events of a socket come, armed timers fire, the network and the server return,
\* and a machine that slept is looked at again.
FairHookSpec ==
    /\ HookSpec
    /\ \A s \in Sock : /\ WF_hookVars(onopen(s)) /\ WF_hookVars(onmessage(s))
                       /\ WF_hookVars(onclose(s)) /\ WF_hookVars(Fails(s))
    /\ WF_hookVars(ProbeTimeout) /\ WF_hookVars(Retry)
    /\ WF_hookVars(Wake) /\ WF_hookVars(Online) /\ WF_hookVars(ServerReturns)

-----------------------------------------------------------------------------
Socket == [state : {"connecting", "open", "closing"}, link : {"up", "dead"},
           topic : Topic, pinged : BOOLEAN]

HookTypeOK ==
    /\ sock \in [Sock -> Socket \cup {ClosedSocket}]
    /\ socketRef \in Sock \cup {Nothing} /\ connectTimer \in Sock \cup {Nothing}
    /\ handshake \subseteq Sock /\ retry \in Topic \cup {Nothing} /\ strays \subseteq Topic
    /\ {probe, wasLive, disposed, online, serverRuns, wakeDue} \subseteq BOOLEAN
    /\ status \in {"live", "connecting", "down"} /\ topic \in Topic

\* useLiveSocket.ts (connect, cleanup): the hook never holds two connections, whatever
\* timers of earlier sockets and earlier topics still fire, and holds none once the page
\* is gone: a socket that is open or handshaking is the one socketRef names.
OneSocket ==
    /\ \A s \in Sock : sock[s].state \in {"open", "connecting"} => s = socketRef
    /\ disposed => socketRef = Nothing

\* useLiveSocket.ts:41: "a woken tab never shows stale data behind a dead-but-OPEN
\* socket".  Once sleeps, outages and clicks end, a mounted page ends up on a
\* connection that the server answers.
EventuallyLive ==
    <>[](disposed \/ (socketRef # Nothing /\ sock[socketRef].state = "open"
                     /\ Reached(socketRef)))

\* useLiveSocket.ts:39: "Subscription to a server live-update topic".  The connection a
\* page ends up on is one to the topic it asks for.
TopicFollowsPage ==
    <>[](disposed \/ socketRef = Nothing \/ sock[socketRef] = ClosedSocket
         \/ sock[socketRef].topic = topic)

\* useLiveSocket.ts:21: "live -- socket open and just verified/streaming", "connecting --
\* no live socket, actively (re)connecting".  Once everything is quiet the status of a
\* page with a working connection says so.
StatusSettles ==
    <>[](disposed \/ status = "live")
=============================================================================
