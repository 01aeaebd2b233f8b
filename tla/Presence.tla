------------------------------- MODULE Presence -------------------------------
(***************************************************************************)
(* The WebSocket server (app/services/websocket_server.py): PCs connect    *)
(* and register with their token, the portal connects and has messages     *)
(* routed to a PC, and a sweep stamps pcs.last_seen of the PCs listed in   *)
(* connected_pcs.                                                          *)
(*                                                                         *)
(* The server is one eventlet hub that is not monkey-patched: database     *)
(* calls block it, so a handler runs to its end.  What interleaves is when *)
(* handlers run: python-socketio calls connect and disconnect where the    *)
(* packet is read, and spawns a greenlet for every other event, so that a  *)
(* register may run after the disconnect of its own connection.            *)
(*                                                                         *)
(* One unit of now is long compared to a handler: nothing that was spawned *)
(* waits for the next.                                                     *)
(***************************************************************************)
EXTENDS Integers, FiniteSets, Sequences

CONSTANTS
  Pc,           \* pcs rows
  Sid,          \* Engine.IO session ids, never used twice
  None,
  Interval,     \* WS_LAST_SEEN_SWEEP_SECONDS
  PongTimeout,  \* ping_interval + ping_timeout
  MaxTime,      \* bound of the clock
  MaxSpawned,   \* bound: handlers spawned and not yet run
  MaxFaults     \* bound: database errors and restarts of the server

ASSUME PresenceAssumption ==
  /\ None \notin Pc \cup Sid
  /\ Interval \in Nat \ {0}
  /\ PongTimeout \in Nat \ {0}
  /\ MaxTime \in Nat
  /\ MaxSpawned \in Nat
  /\ MaxFaults \in Nat

VARIABLES
  link,         \* [Sid -> LinkState], the connection as it is
  silentSince,  \* when the client of a silent link was last heard of
  session,      \* session_data: the pc_id of each entry
  connected,    \* connected_pcs: [Pc -> Sid], None where there is no key
  spawned,      \* greenlets not yet run, oldest first
  row,          \* pcs rows: last_connected and last_seen
  now,
  swept,        \* when the sweep ran last
  latest,       \* history: the connection whose register was last for a PC
  presented,    \* history: valid tokens a connection has shown
  routed,       \* history: messages for a PC handed to a connection
  faults

serverVars == <<link, silentSince, session, connected, spawned>>
historyVars == <<latest, presented, routed>>
presenceVars == <<serverVars, row, now, swept, historyVars, faults>>

-----------------------------------------------------------------------------
(* Types *)

\* "silent": the client is gone and Engine.IO has not noticed yet.
LinkState == {"unused", "open", "silent", "closed"}

\* An entry of session_data is absent (None) or has a pc_id, None at first.
SessionData == [pc : Pc \cup {None}]

ASSUME NoneIsNoSession == None \notin SessionData

\* A call of register: the pc_id of the valid token and the one in the data.
Registration == [event : {"register"}, sid : Sid, token : Pc, pc : Pc]

\* A call of message: its targetId.
Message == [event : {"message"}, sid : Sid, target : Pc]

\* The columns of pcs the server writes come down to last_seen;
\* last_connected is written with it by register.
PcRow == [seen : 0..MaxTime]

ASSUME NoneIsNoPcRow == None \notin PcRow

PresenceTypeOK ==
  /\ link \in [Sid -> LinkState]
  /\ silentSince \in [Sid -> 0..MaxTime]
  /\ session \in [Sid -> SessionData \cup {None}]
  /\ connected \in [Pc -> Sid \cup {None}]
  /\ spawned \in Seq(Registration \cup Message)
  /\ row \in [Pc -> PcRow \cup {None}]
  /\ now \in 0..MaxTime
  /\ swept \in 0..MaxTime
  /\ latest \in [Pc -> Sid \cup {None}]
  /\ presented \subseteq Sid \X Pc
  /\ routed \subseteq Sid \X Pc
  /\ faults \in 0..MaxFaults

-----------------------------------------------------------------------------
(* Helpers *)

Fault == faults < MaxFaults /\ faults' = faults + 1

Listed == {p \in Pc : connected[p] # None}

SessionOf(s, p) == session[s] # None /\ session[s].pc = p

Spawn(call) == Len(spawned) < MaxSpawned /\ spawned' = Append(spawned, call)

\* The greenlet spawned first runs.
Runs(event) == spawned # <<>> /\ Head(spawned).event = event /\ spawned' = Tail(spawned)

PresenceInit ==
  /\ link = [s \in Sid |-> "unused"]
  /\ silentSince = [s \in Sid |-> 0]
  /\ session = [s \in Sid |-> None]
  /\ connected = [p \in Pc |-> None]
  /\ spawned = <<>>
  /\ row = [p \in Pc |-> [seen |-> 0]]
  /\ now = 0
  /\ swept = 0
  /\ latest = [p \in Pc |-> None]
  /\ presented = {}
  /\ routed = {}
  /\ faults = 0

-----------------------------------------------------------------------------
(* connect, disconnect *)

Connect(s) ==
  /\ link[s] = "unused"
  /\ link' = [link EXCEPT ![s] = "open"]
  /\ session' = [session EXCEPT ![s] = [pc |-> None]]
  /\ UNCHANGED <<silentSince, connected, spawned, row, now, swept, historyVars, faults>>

\* Mutant: the entry of a PC goes whatever connection it names.
UnlistAny(s) ==
  connected' = [p \in Pc |-> IF SessionOf(s, p) THEN None ELSE connected[p]]

\* A PC that has registered on another connection in between keeps its entry.
Unlist(s) ==
  connected' = [p \in Pc |->
    IF SessionOf(s, p) /\ connected[p] = s THEN None ELSE connected[p]]

\* The client closes, or Engine.IO closes a link that missed its pong.
Disconnect(s) ==
  /\ link[s] \in {"open", "silent"}
  /\ link' = [link EXCEPT ![s] = "closed"]
  /\ session' = [session EXCEPT ![s] = None]
  /\ silentSince' = [silentSince EXCEPT ![s] = 0]
  /\ Unlist(s)
  /\ UNCHANGED <<spawned, row, now, swept, historyVars, faults>>

-----------------------------------------------------------------------------
(* register *)

\* The packet is read.  A call without or with an invalid token only answers
\* and is left out.
SendRegister(s, token, p) ==
  /\ link[s] = "open"
  /\ Spawn([event |-> "register", sid |-> s, token |-> token, pc |-> p])
  /\ UNCHANGED <<link, silentSince, session, connected, row, now, swept, historyVars, faults>>

\* Mutant: the pc_id of the data is taken, not that of the token.
AuthoritativeClaimed(call) == call.pc

Authoritative(call) == call.token

\* Mutant: session_data gets an entry where it has none.
EnlistSetDefault(call) ==
  LET p == call.token IN
  /\ connected' = [connected EXCEPT ![p] = call.sid]
  /\ session' = [session EXCEPT ![call.sid] = [pc |-> p]]
  /\ latest' = [latest EXCEPT ![p] = call.sid]
  /\ presented' = presented \cup {<<call.sid, call.token>>}

\* connected_pcs is written first; without an entry in session_data the next
\* line raises, and the handler answers with an error.
Enlist(call) ==
  LET p == Authoritative(call) IN
  /\ connected' = [connected EXCEPT ![p] = call.sid]
  /\ session' = IF session[call.sid] = None THEN session
                ELSE [session EXCEPT ![call.sid] = [pc |-> p]]
  /\ latest' = [latest EXCEPT ![p] = call.sid]
  /\ presented' = presented \cup {<<call.sid, call.token>>}

\* Mutant: last_seen is left to the sweep.
StampConnectedOnly(p) == p \in Pc /\ UNCHANGED row

\* last_connected and last_seen of a PC that has a row.
StampConnected(p) ==
  row' = IF row[p] = None THEN row ELSE [row EXCEPT ![p] = [seen |-> now]]

Register ==
  LET call == Head(spawned) IN
  /\ Runs("register")
  /\ Enlist(call)
  /\ IF session[call.sid] = None THEN UNCHANGED row ELSE StampConnected(Authoritative(call))
  /\ UNCHANGED <<link, silentSince, now, swept, routed, faults>>

\* The update of the row fails and is logged.
RegisterDbFails ==
  LET call == Head(spawned) IN
  /\ Runs("register")
  /\ session[call.sid] # None
  /\ Fault
  /\ Enlist(call)
  /\ UNCHANGED <<link, silentSince, row, now, swept, routed>>

-----------------------------------------------------------------------------
(* message *)

SendMessage(s, p) ==
  /\ link[s] = "open"
  /\ Spawn([event |-> "message", sid |-> s, target |-> p])
  /\ UNCHANGED <<link, silentSince, session, connected, row, now, swept, historyVars, faults>>

\* To the connection listed for the target, or an error to the sender.
RouteMessage ==
  LET p == Head(spawned).target IN
  /\ Runs("message")
  /\ routed' = IF p \in Listed THEN routed \cup {<<connected[p], p>>} ELSE routed
  /\ UNCHANGED <<link, silentSince, session, connected, row, now, swept,
                 latest, presented, faults>>

-----------------------------------------------------------------------------
(* _last_seen_sweep *)

SweepDue == now = swept + Interval

Sweep ==
  /\ SweepDue
  /\ swept' = now
  /\ row' = [p \in Pc |->
       IF p \in Listed /\ row[p] # None THEN [seen |-> now] ELSE row[p]]
  /\ UNCHANGED <<serverVars, now, historyVars, faults>>

\* Rolled back and swallowed: the next tick is an interval later.
SweepFails ==
  /\ SweepDue
  /\ Listed # {}
  /\ Fault
  /\ swept' = now
  /\ UNCHANGED <<serverVars, row, now, historyVars>>

-----------------------------------------------------------------------------
(* Environment *)

\* A PC loses power or network.
GoSilent(s) ==
  /\ link[s] = "open"
  /\ link' = [link EXCEPT ![s] = "silent"]
  /\ silentSince' = [silentSince EXCEPT ![s] = now]
  /\ UNCHANGED <<session, connected, spawned, row, now, swept, historyVars, faults>>

\* Time passes: not over a sweep that is due, a spawned handler, or a silent
\* link Engine.IO has to close.
Tick ==
  /\ now < MaxTime
  /\ ~SweepDue
  /\ spawned = <<>>
  /\ \A s \in Sid : link[s] = "silent" => now < silentSince[s] + PongTimeout
  /\ now' = now + 1
  /\ UNCHANGED <<serverVars, row, swept, historyVars, faults>>

\* The container restarts: memory and connections are gone.
Restart ==
  /\ Fault
  /\ link' = [s \in Sid |-> IF link[s] = "unused" THEN "unused" ELSE "closed"]
  /\ session' = [s \in Sid |-> None]
  /\ connected' = [p \in Pc |-> None]
  /\ latest' = [p \in Pc |-> None]
  /\ spawned' = <<>>
  /\ silentSince' = [s \in Sid |-> 0]
  /\ swept' = now
  /\ UNCHANGED <<row, now, presented, routed>>

\* DELETE /pcs/{id}; the server is not told.
DeletePc(p) ==
  /\ row[p] # None
  /\ row' = [row EXCEPT ![p] = None]
  /\ UNCHANGED <<serverVars, now, swept, historyVars, faults>>

-----------------------------------------------------------------------------
PresenceNext ==
  \/ \E s \in Sid :
       \/ Connect(s) \/ Disconnect(s) \/ GoSilent(s)
       \/ \E p \in Pc : SendMessage(s, p) \/ \E token \in Pc : SendRegister(s, token, p)
  \/ Register \/ RegisterDbFails \/ RouteMessage
  \/ Sweep \/ SweepFails
  \/ Tick \/ Restart
  \/ \E p \in Pc : DeletePc(p)

PresenceSpec == PresenceInit /\ [][PresenceNext]_presenceVars

-----------------------------------------------------------------------------
(* Properties *)

\* A PC that reconnects stays listed: the late disconnect of its old
\* connection does not remove the entry of the new one (disconnect).
NewestRegistrationListed ==
  \A p \in Pc : \A s \in Sid :
    latest[p] = s /\ SessionOf(s, p) => connected[p] = s

\* A configuration is only handed to a connection that has shown the token of
\* the PC it is for, however connections and entries came and went.
RoutedToItsPc == routed \subseteq presented

\* While the database answers, a registered PC was seen within the last
\* interval: register seeds last_seen because the next sweep may be a whole
\* interval away.
SeenIsFresh ==
  faults = 0 =>
    \A p \in Pc :
      p \in Listed /\ SessionOf(connected[p], p) /\ row[p] # None
      => now <= row[p].seen + Interval

\* session_data has an entry for every connection Engine.IO has not closed.
SessionsLinked ==
  \A s \in Sid : session[s] # None <=> link[s] \in {"open", "silent"}

\* An entry of connected_pcs was written with the token of its PC.
EntriesPresented == \A p \in Listed : <<connected[p], p>> \in presented

\* The sweep is never overdue, and what is registered was stamped since.
StampedSinceSweep ==
  /\ swept <= now /\ now <= swept + Interval
  /\ faults = 0 =>
       \A p \in Listed :
         SessionOf(connected[p], p) /\ row[p] # None => swept <= row[p].seen

\* Inductive: what makes the three properties above true.
PresenceInv ==
  /\ PresenceTypeOK
  /\ SessionsLinked
  /\ EntriesPresented
  /\ StampedSinceSweep
  /\ NewestRegistrationListed
  /\ RoutedToItsPc

==============================================================================
