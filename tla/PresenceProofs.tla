---------------------------- MODULE PresenceProofs ----------------------------
(***************************************************************************)
(* Theorems of Presence: the inductive invariant, and with it the three    *)
(* properties of the listing of connected PCs, for any number of PCs,      *)
(* connections and waiting handlers.                                       *)
(***************************************************************************)
EXTENDS Presence, TLAPS

Call == Registration \cup Message

-----------------------------------------------------------------------------
(* The queue of spawned handlers *)

\* Running the oldest greenlet leaves a queue of calls, and it was a call.
LEMMA RunTyped ==
  ASSUME spawned \in Seq(Call), NEW event, Runs(event)
  PROVE  /\ spawned' \in Seq(Call)
         /\ Head(spawned) \in Call
         /\ Head(spawned).event = event
  BY DEF Runs

\* Spawning a handler leaves a queue of calls.
LEMMA SpawnTyped ==
  ASSUME spawned \in Seq(Call), NEW call \in Call, Spawn(call)
  PROVE  spawned' \in Seq(Call)
  BY DEF Spawn

\* A register that runs is a registration: it has a PC for its token.
LEMMA RegisterCall ==
  ASSUME PresenceTypeOK, Runs("register")
  PROVE  /\ spawned' \in Seq(Call)
         /\ Head(spawned) \in Registration
         /\ Head(spawned).sid \in Sid
         /\ Head(spawned).token \in Pc
  <1>1. spawned \in Seq(Call)
    BY DEF PresenceTypeOK, Call
  <1>2. spawned' \in Seq(Call) /\ Head(spawned) \in Call /\ Head(spawned).event = "register"
    BY <1>1, RunTyped
  <1>3. Head(spawned) \notin Message
    BY <1>2 DEF Message
  <1> QED
    BY <1>2, <1>3 DEF Call, Registration

-----------------------------------------------------------------------------
(* Steps of the handlers *)

\* The invariant holds when the server starts.
LEMMA InitPresence == PresenceInit => PresenceInv
  <1> SUFFICES ASSUME PresenceInit PROVE PresenceInv
    OBVIOUS
  <1> USE PresenceAssumption DEF PresenceInit
  <1>1. PresenceTypeOK
    BY DEF PresenceTypeOK, LinkState, PcRow
  <1>2. SessionsLinked
    BY DEF SessionsLinked
  <1>3. EntriesPresented
    BY DEF EntriesPresented, Listed
  <1>4. StampedSinceSweep
    BY DEF StampedSinceSweep, Listed
  <1>5. NewestRegistrationListed
    BY DEF NewestRegistrationListed
  <1>6. RoutedToItsPc
    BY DEF RoutedToItsPc
  <1> QED
    BY <1>1, <1>2, <1>3, <1>4, <1>5, <1>6 DEF PresenceInv

\* A new connection is no PC's yet.
LEMMA ConnectKeeps ==
  ASSUME PresenceInv, NEW s \in Sid, Connect(s)
  PROVE  PresenceInv'
  <1> USE DEF PresenceInv, Connect, historyVars
  <1>1. PresenceTypeOK'
    BY DEF PresenceTypeOK, LinkState, SessionData
  <1>2. SessionsLinked'
    BY NoneIsNoSession DEF SessionsLinked, SessionData, PresenceTypeOK
  <1>3. \A t \in Sid, p \in Pc : SessionOf(t, p)' => SessionOf(t, p)
    BY PresenceAssumption DEF SessionOf, PresenceTypeOK
  <1>4. EntriesPresented'
    BY DEF EntriesPresented, Listed
  <1>5. StampedSinceSweep'
    BY <1>3 DEF StampedSinceSweep, Listed, PresenceTypeOK
  <1>6. NewestRegistrationListed'
    BY <1>3 DEF NewestRegistrationListed
  <1>7. RoutedToItsPc'
    BY DEF RoutedToItsPc
  <1> QED
    BY <1>1, <1>2, <1>4, <1>5, <1>6, <1>7

\* A connection that ends takes only its own entry with it.
LEMMA DisconnectKeeps ==
  ASSUME PresenceInv, NEW s \in Sid, Disconnect(s)
  PROVE  PresenceInv'
  <1> USE DEF PresenceInv, Disconnect, Unlist, historyVars
  <1>1. PresenceTypeOK'
    BY PresenceAssumption DEF PresenceTypeOK, LinkState, SessionData
  <1>2. SessionsLinked'
    BY DEF SessionsLinked, PresenceTypeOK
  <1>3. \A t \in Sid, p \in Pc : SessionOf(t, p)' => t # s /\ SessionOf(t, p)
    BY DEF SessionOf, PresenceTypeOK
  <1>4. \A p \in Pc : connected'[p] \in {None, connected[p]}
    BY DEF PresenceTypeOK
  <1>5. \A p \in Pc : connected[p] # s => connected'[p] = connected[p]
    BY DEF PresenceTypeOK
  <1>6. EntriesPresented'
    BY <1>4 DEF EntriesPresented, Listed
  <1>7. StampedSinceSweep'
    BY <1>3, <1>4 DEF StampedSinceSweep, Listed, PresenceTypeOK
  <1>8. NewestRegistrationListed'
    BY <1>3, <1>5 DEF NewestRegistrationListed
  <1>9. RoutedToItsPc'
    BY DEF RoutedToItsPc
  <1> QED
    BY <1>1, <1>2, <1>6, <1>7, <1>8, <1>9

\* What a packet that is read only adds: a handler to run.
LEMMA SpawnKeeps ==
  ASSUME PresenceInv, spawned' \in Seq(Call),
         UNCHANGED <<link, silentSince, session, connected, row, now, swept, historyVars, faults>>
  PROVE  PresenceInv'
  <1> USE DEF PresenceInv, historyVars
  <1>1. PresenceTypeOK'
    BY DEF PresenceTypeOK, Call
  <1>2. SessionsLinked' /\ EntriesPresented' /\ StampedSinceSweep'
    BY DEF SessionsLinked, EntriesPresented, StampedSinceSweep, Listed, SessionOf
  <1>3. NewestRegistrationListed' /\ RoutedToItsPc'
    BY DEF NewestRegistrationListed, RoutedToItsPc, SessionOf
  <1> QED
    BY <1>1, <1>2, <1>3

\* What the first lines of register do to all but the stamps, also when they
\* raise for want of an entry.
LEMMA EnlistKeeps ==
  ASSUME PresenceInv, Runs("register"), Enlist(Head(spawned)),
         row' \in [Pc -> PcRow \cup {None}], faults' \in 0..MaxFaults,
         UNCHANGED <<link, silentSince, now, swept, routed>>
  PROVE  /\ PresenceTypeOK' /\ SessionsLinked' /\ EntriesPresented'
         /\ NewestRegistrationListed' /\ RoutedToItsPc'
  <1> DEFINE s == Head(spawned).sid
             p == Head(spawned).token
  <1> USE DEF PresenceInv
  <1>1. s \in Sid /\ p \in Pc /\ spawned' \in Seq(Call)
    BY RegisterCall
  <1>2. /\ connected' = [connected EXCEPT ![p] = s]
        /\ session' = IF session[s] = None THEN session ELSE [session EXCEPT ![s] = [pc |-> p]]
        /\ latest' = [latest EXCEPT ![p] = s]
        /\ presented' = presented \cup {<<s, p>>}
    BY DEF Enlist, Authoritative
  <1> HIDE DEF s, p
  <1>3. [pc |-> p] \in SessionData /\ [pc |-> p] # None
    BY <1>1, NoneIsNoSession DEF SessionData
  <1>4. PresenceTypeOK'
    BY <1>1, <1>2, <1>3 DEF PresenceTypeOK, Call
  <1>5. \A t \in Sid : session'[t] = None <=> session[t] = None
    BY <1>1, <1>2, <1>3 DEF PresenceTypeOK
  <1>6. SessionsLinked'
    BY <1>5 DEF SessionsLinked
  <1>7. EntriesPresented'
    BY <1>1, <1>2 DEF EntriesPresented, Listed, PresenceTypeOK
  <1>8. \A t \in Sid, q \in Pc : q # p /\ SessionOf(t, q)' => SessionOf(t, q)
    BY <1>1, <1>2 DEF SessionOf, PresenceTypeOK
  <1>9. NewestRegistrationListed'
    <2> SUFFICES ASSUME NEW q \in Pc, NEW t \in Sid, latest'[q] = t, SessionOf(t, q)'
                 PROVE  connected'[q] = t
      BY DEF NewestRegistrationListed
    <2>1. CASE q = p
      BY <1>1, <1>2, <2>1 DEF PresenceTypeOK
    <2>2. CASE q # p
      BY <1>1, <1>2, <1>8, <2>2 DEF PresenceTypeOK, NewestRegistrationListed
    <2> QED
      BY <2>1, <2>2
  <1>10. RoutedToItsPc'
    BY <1>2 DEF RoutedToItsPc
  <1> QED
    BY <1>4, <1>6, <1>7, <1>9, <1>10

\* A PC that registers is stamped with the present time.
LEMMA RegisterKeeps ==
  ASSUME PresenceInv, Register
  PROVE  PresenceInv'
  <1> DEFINE s == Head(spawned).sid
             p == Head(spawned).token
  <1>1. s \in Sid /\ p \in Pc
    BY RegisterCall DEF Register, PresenceInv
  <1>2. /\ connected' = [connected EXCEPT ![p] = s]
        /\ session' = IF session[s] = None THEN session ELSE [session EXCEPT ![s] = [pc |-> p]]
        /\ row' = IF session[s] = None \/ row[p] = None THEN row
                  ELSE [row EXCEPT ![p] = [seen |-> now]]
        /\ Runs("register") /\ Enlist(Head(spawned))
        /\ UNCHANGED <<link, silentSince, now, swept, routed, faults>>
    BY DEF Register, Enlist, Authoritative, StampConnected
  <1> HIDE DEF s, p
  <1>3. [seen |-> now] \in PcRow /\ [seen |-> now] # None
    BY NoneIsNoPcRow DEF PcRow, PresenceInv, PresenceTypeOK
  <1>4. row' \in [Pc -> PcRow \cup {None}]
    BY <1>2, <1>3 DEF PresenceInv, PresenceTypeOK
  <1>5. faults' \in 0..MaxFaults
    BY <1>2 DEF PresenceInv, PresenceTypeOK
  <1>6. /\ PresenceTypeOK' /\ SessionsLinked' /\ EntriesPresented'
        /\ NewestRegistrationListed' /\ RoutedToItsPc'
    BY <1>2, <1>4, <1>5, EnlistKeeps
  <1>7. StampedSinceSweep'
    <2>1. swept' <= now' /\ now' <= swept' + Interval
      BY <1>2 DEF PresenceInv, StampedSinceSweep
    <2>2. ASSUME faults' = 0, NEW q \in Pc, q \in Listed', SessionOf(connected[q], q)', row'[q] # None
          PROVE  swept' <= row'[q].seen
      <3>1. CASE q = p
        <4>1. connected'[q] = s
          BY <1>1, <1>2, <3>1 DEF PresenceInv, PresenceTypeOK
        <4>2. session'[s] # None
          BY <2>2, <4>1 DEF SessionOf
        <4>3. session[s] # None
          BY <1>2, <4>2
        <4>4. row[p] # None
          BY <1>2, <2>2, <3>1
        <4>5. row'[q].seen = now
          BY <1>1, <1>2, <3>1, <4>3, <4>4 DEF PresenceInv, PresenceTypeOK
        <4> QED
          BY <1>2, <2>1, <4>5
      <3>2. CASE q # p
        <4>1. q \in Listed /\ connected'[q] = connected[q] /\ row'[q] = row[q]
          BY <1>1, <1>2, <2>2, <3>2 DEF Listed, PresenceInv, PresenceTypeOK
        <4>2. SessionOf(connected[q], q)
          BY <1>1, <1>2, <2>2, <3>2, <4>1 DEF SessionOf, Listed, PresenceInv, PresenceTypeOK
        <4> QED
          BY <1>2, <2>2, <4>1, <4>2 DEF PresenceInv, StampedSinceSweep
      <3> QED
        BY <3>1, <3>2
    <2> QED
      BY <2>1, <2>2 DEF StampedSinceSweep, Listed
  <1> QED
    BY <1>6, <1>7 DEF PresenceInv

\* A failed update is a fault, and freshness is claimed without faults.
LEMMA RegisterDbFailsKeeps ==
  ASSUME PresenceInv, RegisterDbFails
  PROVE  PresenceInv'
  <1>1. /\ Runs("register") /\ Enlist(Head(spawned))
        /\ faults' \in 0..MaxFaults /\ faults' # 0
        /\ UNCHANGED <<link, silentSince, row, now, swept, routed>>
    BY PresenceAssumption DEF RegisterDbFails, Fault, PresenceInv, PresenceTypeOK
  <1>2. row' \in [Pc -> PcRow \cup {None}]
    BY <1>1 DEF PresenceInv, PresenceTypeOK
  <1>3. /\ PresenceTypeOK' /\ SessionsLinked' /\ EntriesPresented'
        /\ NewestRegistrationListed' /\ RoutedToItsPc'
    BY <1>1, <1>2, EnlistKeeps
  <1>4. StampedSinceSweep'
    BY <1>1 DEF PresenceInv, StampedSinceSweep
  <1> QED
    BY <1>3, <1>4 DEF PresenceInv

\* A message goes to the connection listed, which has shown the token.
LEMMA RouteMessageKeeps ==
  ASSUME PresenceInv, RouteMessage
  PROVE  PresenceInv'
  <1> DEFINE p == Head(spawned).target
  <1>1. spawned' \in Seq(Call)
    BY RunTyped DEF RouteMessage, PresenceInv, PresenceTypeOK, Call
  <1>2. /\ routed' = IF p \in Listed THEN routed \cup {<<connected[p], p>>} ELSE routed
        /\ UNCHANGED <<link, silentSince, session, connected, row, now, swept,
                       latest, presented, faults>>
    BY DEF RouteMessage
  <1> HIDE DEF p
  <1> USE DEF PresenceInv
  <1>3. routed' \subseteq presented
    BY <1>2 DEF EntriesPresented, RoutedToItsPc
  <1>4. PresenceTypeOK'
    BY <1>1, <1>2, <1>3 DEF PresenceTypeOK, Call
  <1>5. SessionsLinked' /\ EntriesPresented' /\ StampedSinceSweep'
    BY <1>2 DEF SessionsLinked, EntriesPresented, StampedSinceSweep, Listed, SessionOf
  <1>6. NewestRegistrationListed' /\ RoutedToItsPc'
    BY <1>2, <1>3 DEF NewestRegistrationListed, RoutedToItsPc, SessionOf
  <1> QED
    BY <1>4, <1>5, <1>6

-----------------------------------------------------------------------------
(* The sweep and the environment *)

\* The sweep stamps every PC that is listed.
LEMMA SweepKeeps ==
  ASSUME PresenceInv, Sweep
  PROVE  PresenceInv'
  <1> USE DEF PresenceInv, Sweep, serverVars, historyVars
  <1>1. [seen |-> now] \in PcRow /\ [seen |-> now].seen = now
    BY DEF PcRow, PresenceTypeOK
  <1>2. PresenceTypeOK'
    BY <1>1 DEF PresenceTypeOK
  <1>3. SessionsLinked' /\ EntriesPresented'
    BY DEF SessionsLinked, EntriesPresented, Listed
  <1>4. \A p \in Listed : row[p] # None => row'[p].seen = now
    BY <1>1 DEF Listed
  <1>5. \A p \in Pc : row[p] = None => row'[p] = None
    OBVIOUS
  <1>6. StampedSinceSweep'
    BY <1>4, <1>5, PresenceAssumption DEF StampedSinceSweep, Listed, PresenceTypeOK
  <1>7. NewestRegistrationListed' /\ RoutedToItsPc'
    BY DEF NewestRegistrationListed, RoutedToItsPc, SessionOf
  <1> QED
    BY <1>2, <1>3, <1>6, <1>7

\* A sweep that fails is a fault.
LEMMA SweepFailsKeeps ==
  ASSUME PresenceInv, SweepFails
  PROVE  PresenceInv'
  <1> USE DEF PresenceInv, SweepFails, Fault, serverVars, historyVars
  <1>1. PresenceTypeOK'
    BY PresenceAssumption DEF PresenceTypeOK
  <1>2. SessionsLinked' /\ EntriesPresented'
    BY DEF SessionsLinked, EntriesPresented, Listed
  <1>3. StampedSinceSweep'
    BY PresenceAssumption DEF StampedSinceSweep, PresenceTypeOK
  <1>4. NewestRegistrationListed' /\ RoutedToItsPc'
    BY DEF NewestRegistrationListed, RoutedToItsPc, SessionOf
  <1> QED
    BY <1>1, <1>2, <1>3, <1>4

\* Time does not pass over a sweep that is due.
LEMMA TickKeeps ==
  ASSUME PresenceInv, Tick
  PROVE  PresenceInv'
  <1> USE DEF PresenceInv, Tick, serverVars, historyVars
  <1>1. PresenceTypeOK'
    BY PresenceAssumption DEF PresenceTypeOK
  <1>2. SessionsLinked' /\ EntriesPresented'
    BY DEF SessionsLinked, EntriesPresented, Listed
  <1>3. StampedSinceSweep'
    BY PresenceAssumption DEF StampedSinceSweep, SweepDue, Listed, SessionOf, PresenceTypeOK
  <1>4. NewestRegistrationListed' /\ RoutedToItsPc'
    BY DEF NewestRegistrationListed, RoutedToItsPc, SessionOf
  <1> QED
    BY <1>1, <1>2, <1>3, <1>4

\* A client that falls silent keeps its session until Engine.IO notices.
LEMMA GoSilentKeeps ==
  ASSUME PresenceInv, NEW s \in Sid, GoSilent(s)
  PROVE  PresenceInv'
  <1> USE DEF PresenceInv, GoSilent, historyVars
  <1>1. PresenceTypeOK'
    BY DEF PresenceTypeOK, LinkState
  <1>2. SessionsLinked'
    BY DEF SessionsLinked, PresenceTypeOK
  <1>3. EntriesPresented' /\ StampedSinceSweep'
    BY DEF EntriesPresented, StampedSinceSweep, Listed, SessionOf
  <1>4. NewestRegistrationListed' /\ RoutedToItsPc'
    BY DEF NewestRegistrationListed, RoutedToItsPc, SessionOf
  <1> QED
    BY <1>1, <1>2, <1>3, <1>4

\* A restart forgets connections, sessions and entries together.
LEMMA RestartKeeps ==
  ASSUME PresenceInv, Restart
  PROVE  PresenceInv'
  <1> USE DEF PresenceInv, Restart, Fault
  <1>1. PresenceTypeOK'
    BY PresenceAssumption DEF PresenceTypeOK, LinkState
  <1>2. SessionsLinked' /\ EntriesPresented'
    BY DEF SessionsLinked, EntriesPresented, Listed
  <1>3. StampedSinceSweep'
    BY PresenceAssumption DEF StampedSinceSweep, Listed, PresenceTypeOK
  <1>4. NewestRegistrationListed' /\ RoutedToItsPc'
    BY PresenceAssumption DEF NewestRegistrationListed, RoutedToItsPc, SessionOf
  <1> QED
    BY <1>1, <1>2, <1>3, <1>4

\* A row that is gone is not stamped, and nobody asks.
LEMMA DeletePcKeeps ==
  ASSUME PresenceInv, NEW p \in Pc, DeletePc(p)
  PROVE  PresenceInv'
  <1> USE DEF PresenceInv, DeletePc, serverVars, historyVars
  <1>1. PresenceTypeOK'
    BY DEF PresenceTypeOK
  <1>2. SessionsLinked' /\ EntriesPresented'
    BY DEF SessionsLinked, EntriesPresented, Listed
  <1>3. \A q \in Pc : row'[q] = None \/ row'[q] = row[q]
    BY DEF PresenceTypeOK
  <1>4. StampedSinceSweep'
    BY <1>3 DEF StampedSinceSweep, Listed, SessionOf
  <1>5. NewestRegistrationListed' /\ RoutedToItsPc'
    BY DEF NewestRegistrationListed, RoutedToItsPc, SessionOf
  <1> QED
    BY <1>1, <1>2, <1>4, <1>5

-----------------------------------------------------------------------------
(* Theorems *)

\* Every step of the server, its clients and the clock keeps the invariant.
LEMMA NextPresence == PresenceInv /\ [PresenceNext]_presenceVars => PresenceInv'
  <1> SUFFICES ASSUME PresenceInv, [PresenceNext]_presenceVars PROVE PresenceInv'
    OBVIOUS
  <1>1. ASSUME NEW s \in Sid, NEW token \in Pc, NEW p \in Pc, SendRegister(s, token, p)
        PROVE  PresenceInv'
    <2>1. [event |-> "register", sid |-> s, token |-> token, pc |-> p] \in Call
      BY DEF Call, Registration
    <2>2. spawned' \in Seq(Call)
      BY <1>1, <2>1, SpawnTyped DEF SendRegister, PresenceInv, PresenceTypeOK, Call
    <2> QED
      BY <1>1, <2>2, SpawnKeeps DEF SendRegister
  <1>2. ASSUME NEW s \in Sid, NEW p \in Pc, SendMessage(s, p)
        PROVE  PresenceInv'
    <2>1. [event |-> "message", sid |-> s, target |-> p] \in Call
      BY DEF Call, Message
    <2>2. spawned' \in Seq(Call)
      BY <1>2, <2>1, SpawnTyped DEF SendMessage, PresenceInv, PresenceTypeOK, Call
    <2> QED
      BY <1>2, <2>2, SpawnKeeps DEF SendMessage
  <1>3. CASE UNCHANGED presenceVars
    <2>1. spawned' \in Seq(Call)
      BY <1>3 DEF presenceVars, serverVars, PresenceInv, PresenceTypeOK, Call
    <2> QED
      BY <1>3, <2>1, SpawnKeeps DEF presenceVars, serverVars
  <1> QED
    BY <1>1, <1>2, <1>3, ConnectKeeps, DisconnectKeeps, GoSilentKeeps, RegisterKeeps,
       RegisterDbFailsKeeps, RouteMessageKeeps, SweepKeeps, SweepFailsKeeps, TickKeeps,
       RestartKeeps, DeletePcKeeps
    DEF PresenceNext

\* The inductive invariant of the WebSocket server.
THEOREM PresenceInvariant == PresenceSpec => []PresenceInv
  BY InitPresence, NextPresence, PTL DEF PresenceSpec

\* A PC that reconnects stays listed, for any number of connections.
THEOREM ReconnectedStaysListed == PresenceSpec => []NewestRegistrationListed
  <1>1. PresenceInv => NewestRegistrationListed
    BY DEF PresenceInv
  <1> QED
    BY <1>1, PresenceInvariant, PTL

\* A message for a PC only reaches connections that have shown its token.
THEOREM RoutingIsPresented == PresenceSpec => []RoutedToItsPc
  <1>1. PresenceInv => RoutedToItsPc
    BY DEF PresenceInv
  <1> QED
    BY <1>1, PresenceInvariant, PTL

\* While the database answers, last_seen of a registered PC is at most one
\* sweep interval old.
THEOREM RegisteredIsFresh == PresenceSpec => []SeenIsFresh
  <1>1. PresenceInv => SeenIsFresh
    <2> SUFFICES ASSUME PresenceInv, faults = 0,
                        NEW p \in Pc, p \in Listed, SessionOf(connected[p], p), row[p] # None
                 PROVE  now <= row[p].seen + Interval
      BY DEF SeenIsFresh
    <2>1. row[p] \in PcRow
      BY DEF PresenceInv, PresenceTypeOK
    <2>2. swept <= row[p].seen /\ now <= swept + Interval
      BY DEF PresenceInv, StampedSinceSweep
    <2> QED
      BY <2>1, <2>2, PresenceAssumption DEF PcRow, PresenceInv, PresenceTypeOK
  <1> QED
    BY <1>1, PresenceInvariant, PTL
==============================================================================
