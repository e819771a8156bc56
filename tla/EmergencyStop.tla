----------------------------- MODULE EmergencyStop -----------------------------
(***************************************************************************)
(* The emergency stop: a task of the service follows one Virtual Status of *)
(* the Miniserver over a session of its own (emergency_stop.py), and a     *)
(* middleware asks it before every tool call (server.py).  The session     *)
(* may break at any stage, and be lost without the client noticing.        *)
(***************************************************************************)
EXTENDS Naturals, Sequences

CONSTANTS
  Calls,      \* requests that are posted to /mcp
  MaxWire     \* bound: values of the signal on their way at a time

Parameters == MaxWire \in Nat \ {0}

VARIABLES
  selected,   \* a Virtual Status is selected in the configuration
  signal,     \* its value in the Miniserver
  visible,    \* whether the structure shows it, with one state
  stage,      \* where the task of the monitor is
  session,    \* its connection to the Miniserver
  wire,       \* values of the signal that are on their way to it
  status,     \* what the monitor says
  heard,      \* the last value it was given over this subscription
  call        \* per request where it is, and what was heard as it was let in

vars == <<selected, signal, visible, stage, session, wire, status, heard, call>>

Signals == {"one", "zero", "other"}
Stages == {"off", "credentials", "token", "structure", "subscription", "events", "pause"}
Connected == {"structure", "subscription", "events"}
NoCall == [at |-> "none", heard |-> "none"]

\* No selection means enabled; a selected signal is unknown at first.
Unheard == IF selected' THEN "unknown" ELSE "enabled"

Init ==
  /\ selected \in BOOLEAN
  /\ signal \in Signals
  /\ visible = TRUE
  /\ stage = IF selected THEN "credentials" ELSE "off"
  /\ session = "none"
  /\ wire = <<>>
  /\ status = IF selected THEN "unknown" ELSE "enabled"
  /\ heard = "none"
  /\ call = [c \in Calls |-> NoCall]

-------------------------------------------------------------------------------

\* The Miniserver: the signal changes, which goes to whoever has subscribed.
Change ==
  /\ signal' \in Signals \ {signal}
  /\ IF stage = "events" /\ session = "open"
     THEN Len(wire) < MaxWire /\ wire' = Append(wire, signal')
     ELSE UNCHANGED wire
  /\ UNCHANGED <<selected, visible, stage, session, status, heard, call>>

\* It loads another configuration, and closes its connections for that.
Reload ==
  /\ visible' \in BOOLEAN
  /\ session' = IF session = "open" THEN "lost" ELSE session
  /\ UNCHANGED <<selected, signal, stage, wire, status, heard, call>>

\* The connection is lost, with the last of what was on its way; the client may
\* learn of it much later.
Lose ==
  /\ session = "open"
  /\ session' = "lost"
  /\ \E n \in 0..Len(wire) : wire' = SubSeq(wire, 1, n)
  /\ UNCHANGED <<selected, signal, visible, stage, status, heard, call>>

-------------------------------------------------------------------------------

Credentials ==
  /\ stage = "credentials"
  /\ stage' = "token"
  /\ UNCHANGED <<selected, signal, visible, session, wire, status, heard, call>>

\* Token and session, in one turn of the coordinator.
Connect ==
  /\ stage = "token"
  /\ stage' = "structure"
  /\ session' = "open"
  /\ UNCHANGED <<selected, signal, visible, wire, status, heard, call>>

Select ==
  /\ stage = "structure" /\ session = "open" /\ visible
  /\ stage' = "subscription"
  /\ UNCHANGED <<selected, signal, visible, session, wire, status, heard, call>>

\* The Miniserver begins with the present values of all states.
Subscribe ==
  /\ stage = "subscription" /\ session = "open"
  /\ stage' = "events"
  /\ wire' = <<signal>>
  /\ UNCHANGED <<selected, signal, visible, session, status, heard, call>>

Meaning(value) ==
  CASE value = "one" -> "enabled"
    [] value = "zero" -> "disabled"
    [] OTHER -> "unknown"

\* A batch: its values are applied one after the other, and nothing comes between.
Events ==
  /\ stage = "events"
  /\ \E n \in 1..Len(wire) :
       /\ heard' = wire[n]
       /\ status' = Meaning(wire[n])
       /\ wire' = SubSeq(wire, n + 1, Len(wire))
  /\ UNCHANGED <<selected, signal, visible, stage, session, call>>

\* Mutant of Fail: the monitor says on what it heard last.
FailKeepsStatus ==
  /\ stage \notin {"off", "pause"}
  /\ stage' = "pause"
  /\ heard' = "none"
  /\ wire' = <<>>
  /\ UNCHANGED <<selected, signal, visible, session, status, call>>

\* Whatever fails, wherever: credentials, the coordinator, the session, a signal
\* that the structure does not show, a keepalive without an answer.
Fail ==
  /\ stage \notin {"off", "pause"}
  /\ stage' = "pause"
  /\ status' = "unknown"
  /\ heard' = "none"
  /\ wire' = <<>>
  /\ UNCHANGED <<selected, signal, visible, session, call>>

\* After five seconds the old connection is closed, and all begins anew.
Again ==
  /\ stage = "pause"
  /\ stage' = "credentials"
  /\ session' = "none"
  /\ UNCHANGED <<selected, signal, visible, wire, status, heard, call>>

\* The service stops when no request is left, and is started again, with another
\* selection perhaps.
Restart ==
  /\ \A c \in Calls : call[c] = NoCall
  /\ selected' \in BOOLEAN
  /\ stage' = IF selected' THEN "credentials" ELSE "off"
  /\ session' = "none"
  /\ wire' = <<>>
  /\ status' = Unheard
  /\ heard' = "none"
  /\ UNCHANGED <<signal, visible, call>>

-------------------------------------------------------------------------------

AllowsToolCalls == status = "enabled"

\* A request is let in, or its body is read to see what it asks for.
Post(c) ==
  /\ call[c].at = "none"
  /\ call' = [call EXCEPT ![c] = IF AllowsToolCalls
                                 THEN [at |-> "in", heard |-> heard]
                                 ELSE [at |-> "body", heard |-> "none"]]
  /\ UNCHANGED <<selected, signal, visible, stage, session, wire, status, heard>>

\* What the body asks for: a tool call is refused, everything else goes on.
Body(c) ==
  /\ call[c].at = "body"
  /\ \E at \in {"refused", "other"} : call' = [call EXCEPT ![c].at = at]
  /\ UNCHANGED <<selected, signal, visible, stage, session, wire, status, heard>>

Answer(c) ==
  /\ call[c].at \in {"in", "refused", "other"}
  /\ call' = [call EXCEPT ![c] = NoCall]
  /\ UNCHANGED <<selected, signal, visible, stage, session, wire, status, heard>>

Next ==
  \/ Change \/ Reload \/ Lose
  \/ Credentials \/ Connect \/ Select \/ Subscribe \/ Events \/ Fail \/ Again
  \/ Restart
  \/ \E c \in Calls : Post(c) \/ Body(c) \/ Answer(c)

Spec == Init /\ [][Next]_vars

-------------------------------------------------------------------------------

TypeOK ==
  /\ selected \in BOOLEAN /\ visible \in BOOLEAN
  /\ signal \in Signals
  /\ stage \in Stages
  /\ session \in {"none", "open", "lost"}
  /\ session # "none" => stage \in Connected \cup {"pause"}
  /\ wire \in Seq(Signals) /\ Len(wire) <= MaxWire
  /\ status \in {"enabled", "disabled", "unknown"}
  /\ heard \in Signals \cup {"none"}
  /\ call \in [Calls -> [at : {"none", "in", "body", "refused", "other"},
                         heard : Signals \cup {"none"}]]

\* "Value 1 permits MCP tool calls ... loss of the connection also blocks calls
\* fail closed": with a signal selected the monitor says what the signal says once
\* everything that was sent has arrived, it knows nothing unless it is subscribed,
\* and no request was let in but on a one heard over the subscription of that time.
StopHonoured ==
  selected =>
    /\ status # "unknown" => stage = "events" /\ heard # "none"
    /\ stage = "events" /\ session = "open" /\ wire = <<>> => status = Meaning(signal)
    /\ \A c \in Calls : call[c].at = "in" => call[c].heard = "one"

(***************************************************************************)
(* Why it holds: what the theorem about it rests on.                       *)
(***************************************************************************)

\* The monitor says what it heard last; without a selection it is off.
SaysWhatItHeard ==
  IF selected
  THEN stage # "off" /\ status = IF heard = "none" THEN "unknown" ELSE Meaning(heard)
  ELSE stage = "off" /\ status = "enabled"

\* It hears only over a subscription.
HearsSubscribed == stage # "events" => heard = "none" /\ wire = <<>>

\* The last value that was sent over an open connection is that of the signal.
LastIsSignal ==
  stage = "events" /\ session = "open" =>
    signal = IF wire = <<>> THEN heard ELSE wire[Len(wire)]

\* Whoever is in was let in on a one.
LetInOnOne == \A c \in Calls : selected /\ call[c].at = "in" => call[c].heard = "one"

StopInv == TypeOK /\ SaysWhatItHeard /\ HearsSubscribed /\ LastIsSignal /\ LetInOnOne
===============================================================================
