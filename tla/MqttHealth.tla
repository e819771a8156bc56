------------------------------- MODULE MqttHealth -------------------------------
(***************************************************************************)
(* The publisher of retained health topics (mqtt_health.py), for one life  *)
(* of the service.  Each topic group has a client of its own, with a last  *)
(* will, and each client a network thread whose connect callback publishes *)
(* for all of them; the event loop publishes heartbeats and the shutdown.  *)
(* Of a value it is kept only whether a running service says it (active,   *)
(* running, clear) or a stopping one (inactive, dead, unknown).            *)
(* Left out: a library call that raises, which ends the making of clients  *)
(* or the publication of the shutdown half-way.                            *)
(***************************************************************************)
EXTENDS Naturals, Sequences, SequencesExt

CONSTANT LastClient   \* clients are numbered from 0; the last is 2 in the code

Parameters == LastClient \in Nat

VARIABLES
  service,    \* where the publisher is
  turn,       \* the client that shutdown has come to
  library,    \* per client: what its library knows of the connection
  connected,  \* _connected_clients
  thread,     \* per client: whom its connect callback publishes for next, or Idle
  out,        \* per client: publications the broker has not received
  session,    \* per client: whether the broker has a session
  retained,   \* per client: what the broker keeps of its topics
  overlap     \* a connect callback ran while the service was stopping

vars == <<service, turn, library, connected, thread, out, session, retained, overlap>>

Clients == 0..LastClient
Idle == LastClient + 1

Init ==
  /\ service = "starting"
  /\ turn = 0
  /\ library = [c \in Clients |-> "down"]
  /\ connected = {}
  /\ thread = [c \in Clients |-> Idle]
  /\ out = [c \in Clients |-> <<>>]
  /\ session = [c \in Clients |-> FALSE]
  /\ retained = [c \in Clients |-> "nothing"]
  /\ overlap = FALSE

\* Publications that say the same one after the other count as one.
Queued(queue, value) ==
  IF queue # <<>> /\ Last(queue) = value THEN queue ELSE Append(queue, value)

\* Nothing is sent by a client after its disconnect.
Published(c, value) ==
  IF c \in connected /\ library[c] # "off"
  THEN [out EXCEPT ![c] = Queued(@, value)]
  ELSE out

Running == {"run", "publish", "wait", "disconnect", "join"}

-------------------------------------------------------------------------------
(* Broker and network.                                                       *)

\* The broker misses the client and publishes its last will.
Will(c) ==
  /\ session[c]
  /\ session' = [session EXCEPT ![c] = FALSE]
  /\ retained' = [retained EXCEPT ![c] = "unknown"]
  /\ UNCHANGED <<service, turn, library, connected, thread, out, overlap>>

Deliver(c) ==
  /\ session[c] /\ library[c] = "up" /\ out[c] # <<>>
  /\ retained' = [retained EXCEPT ![c] = Head(out[c])]
  /\ out' = [out EXCEPT ![c] = Tail(@)]
  /\ UNCHANGED <<service, turn, library, connected, thread, session, overlap>>

\* A client connects; a session that the broker still has of it ends with its will.
\* Then its callback starts.
OnConnect(c) ==
  /\ service \in Running /\ library[c] = "down" /\ thread[c] = Idle
  /\ library' = [library EXCEPT ![c] = "up"]
  /\ session' = [session EXCEPT ![c] = TRUE]
  /\ retained' = [retained EXCEPT ![c] = IF session[c] THEN "unknown" ELSE @]
  /\ connected' = connected \cup {c}
  /\ thread' = [thread EXCEPT ![c] = 0]
  /\ overlap' = (overlap \/ service # "run")
  /\ UNCHANGED <<service, turn, out>>

\* The broker refuses: the callback, which does not look at the reason, runs as well.
OnRefused(c) ==
  /\ service \in Running /\ library[c] = "down" /\ thread[c] = Idle
  /\ library' = [library EXCEPT ![c] = "refused"]
  /\ connected' = connected \cup {c}
  /\ thread' = [thread EXCEPT ![c] = 0]
  /\ overlap' = (overlap \/ service # "run")
  /\ UNCHANGED <<service, turn, out, session, retained>>

\* The library gives up its connection, which the broker may not know yet.
OnDisconnect(c) ==
  /\ service \in Running /\ library[c] \in {"up", "refused"} /\ thread[c] = Idle
  /\ library' = [library EXCEPT ![c] = "down"]
  /\ connected' = connected \ {c}
  /\ UNCHANGED <<service, turn, thread, out, session, retained, overlap>>

\* _publish_startup_state in the thread of c: for one client after the other.
StartupState(c) ==
  /\ service \in Running /\ thread[c] # Idle
  /\ out' = Published(thread[c], "live")
  /\ thread' = [thread EXCEPT ![c] = @ + 1]
  /\ UNCHANGED <<service, turn, library, connected, session, retained, overlap>>

-------------------------------------------------------------------------------
(* The event loop.                                                           *)

\* The clients are made, at the start or by the loop that tries again.
Connect ==
  /\ service = "starting"
  /\ service' = "run"
  /\ UNCHANGED <<turn, library, connected, thread, out, session, retained, overlap>>

\* Mutant of Publish: the loop is cancelled after the shutdown is published.
PublishUntilTheEnd ==
  /\ service \in {"run", "wait"}
  /\ out' = [c \in Clients |-> Published(c, "live")[c]]
  /\ UNCHANGED <<service, turn, library, connected, thread, session, retained, overlap>>

\* A heartbeat publishes for all clients without a pause.
Publish ==
  /\ service = "run"
  /\ out' = [c \in Clients |-> Published(c, "live")[c]]
  /\ UNCHANGED <<service, turn, library, connected, thread, session, retained, overlap>>

\* The loop is cancelled before anything is published of the shutdown.
Close ==
  /\ service \in {"starting", "run"}
  /\ service' = IF service = "run" THEN "publish" ELSE "stopped"
  /\ overlap' = \E c \in Clients : thread[c] # Idle
  /\ UNCHANGED <<turn, library, connected, thread, out, session, retained>>

Forth(next) ==
  IF turn = LastClient
  THEN turn' = 0 /\ service' = next
  ELSE turn' = turn + 1 /\ UNCHANGED service

ShutdownState ==
  /\ service = "publish"
  /\ out' = Published(turn, "final")
  /\ Forth("wait")
  /\ UNCHANGED <<library, connected, thread, session, retained, overlap>>

\* The publications are awaited, for three seconds at most.
Waited ==
  /\ service = "wait"
  /\ service' = "disconnect"
  /\ UNCHANGED <<turn, library, connected, thread, out, session, retained, overlap>>

\* What is queued goes out before the DISCONNECT, after which the broker forgets the
\* last will; without a connection nothing goes out.
Disconnect ==
  /\ service = "disconnect"
  /\ service' = "join"
  /\ library' = [library EXCEPT ![turn] = "off"]
  /\ out' = [out EXCEPT ![turn] = <<>>]
  /\ IF library[turn] = "up" /\ session[turn]
     THEN /\ session' = [session EXCEPT ![turn] = FALSE]
          /\ retained' = [retained EXCEPT ![turn] =
                            IF out[turn] = <<>> THEN @ ELSE Last(out[turn])]
     ELSE UNCHANGED <<session, retained>>
  /\ UNCHANGED <<turn, connected, thread, overlap>>

\* loop_stop waits for the thread, and for its callback with it.
LoopStop ==
  /\ service = "join" /\ thread[turn] = Idle
  /\ IF turn = LastClient
     THEN service' = "stopped" /\ connected' = {} /\ UNCHANGED turn
     ELSE service' = "disconnect" /\ turn' = turn + 1 /\ UNCHANGED connected
  /\ UNCHANGED <<library, thread, out, session, retained, overlap>>

\* The process dies; its connections are the broker's to end.
Crash ==
  /\ service \in Running
  /\ service' = "stopped"
  /\ library' = [c \in Clients |-> "off"]
  /\ out' = [c \in Clients |-> <<>>]
  /\ thread' = [c \in Clients |-> Idle]
  /\ connected' = {}
  /\ UNCHANGED <<turn, session, retained, overlap>>

Next ==
  \/ Connect \/ Publish \/ Close \/ ShutdownState \/ Waited \/ Disconnect \/ LoopStop
  \/ Crash
  \/ \E c \in Clients :
       Will(c) \/ Deliver(c) \/ OnConnect(c) \/ OnRefused(c) \/ OnDisconnect(c)
         \/ StartupState(c)

Spec == Init /\ [][Next]_vars

-------------------------------------------------------------------------------

TypeOK ==
  /\ service \in Running \cup {"starting", "stopped"}
  /\ turn \in Clients
  /\ library \in [Clients -> {"down", "up", "refused", "off"}]
  /\ connected \subseteq Clients
  /\ thread \in [Clients -> Clients \cup {Idle}]
  /\ \A c \in Clients : out[c] \in Seq({"live", "final"}) /\ Len(out[c]) <= 4
  /\ session \in [Clients -> BOOLEAN]
  /\ retained \in [Clients -> {"nothing", "live", "final", "unknown"}]
  /\ overlap \in BOOLEAN

\* "A controlled stop publishes inactive and dead; an unexpected process or
\* connection loss publishes the retained fallback unknown": once the service is
\* stopped and the broker knows, no topic says that it runs, whichever clients were
\* connected and whatever was on its way.  Not so if a connect callback runs beside
\* the shutdown: it may publish its "active" behind the "inactive".
StopIsTold ==
  service = "stopped" /\ ~ overlap =>
    \A c \in Clients : session[c] \/ retained[c] # "live"
-------------------------------------------------------------------------------
(***************************************************************************)
(* Why it holds: what the theorem about it rests on.                       *)
(***************************************************************************)

HealthTypes ==
  /\ service \in Running \cup {"starting", "stopped"}
  /\ turn \in Clients
  /\ library \in [Clients -> {"down", "up", "refused", "off"}]
  /\ thread \in [Clients -> Clients \cup {Idle}]
  /\ out \in [Clients -> Seq({"live", "final"})]
  /\ session \in [Clients -> BOOLEAN]
  /\ retained \in [Clients -> {"nothing", "live", "final", "unknown"}]
  /\ overlap \in BOOLEAN

Stopping == {"publish", "wait", "disconnect", "join"}

\* Who has a connection, or thinks so, is published for.
PublishedFor ==
  service # "stopped" => \A c \in Clients : library[c] \in {"up", "refused"} => c \in connected

BeforeTheEnd == service \in {"starting", "run"} => turn = 0 /\ ~ overlap

\* No callback runs beside the shutdown, unless it is noted.
QuietThreads ==
  service \in Stopping \cup {"starting"} /\ ~ overlap => \A c \in Clients : thread[c] = Idle

\* The last thing that the client says is that it stops.
Told(c) ==
  library[c] = "up" /\ session[c] =>
    IF out[c] = <<>> THEN retained[c] # "live" ELSE Last(out[c]) = "final"

\* So it is with those whose shutdown has been published.
Announced(c) ==
  \/ service = "publish" /\ c < turn
  \/ service \in Stopping \ {"publish"}
TheirLastWord == ~ overlap => \A c \in Clients : Announced(c) => Told(c)

\* Without a session the last will, or the shutdown, has been received.
NoneLeft == ~ overlap => \A c \in Clients : session[c] \/ retained[c] # "live"

HealthInv ==
  HealthTypes /\ PublishedFor /\ BeforeTheEnd /\ QuietThreads /\ TheirLastWord /\ NoneLeft
===============================================================================
