---------------------------- MODULE ServerProofs ----------------------------
(***************************************************************************)
(* The server's limits and its ownership of sessions, for any connections, *)
(* hosts, exemptions and limits.                                           *)
(*                                                                         *)
(* The limits are looked at before the session exists and used when it is  *)
(* inserted.  Room is what makes that right: between the two, nobody else  *)
(* inserts, and of the unbound sessions of the address only one whose      *)
(* outbind failed comes back, which then finds its place taken.            *)
(***************************************************************************)
EXTENDS Server, FiniteSetTheorems, TLAPS

\* The sessions UnboundLimit counts.
Counted(h) == unboundFrom(h) \ over

\* There is room for the connection in the accept loop's hands.
Room ==
    apc \in {"new", "insert"} /\ MaxUnboundPerIP > 0 /\ Host[aconn] \notin Exempt =>
        Cardinality(Counted(Host[aconn])) < MaxUnboundPerIP

\* The connection being accepted is nobody else's, and known ones are past accepting.
Places ==
    /\ IsFiniteSet(sessions)
    /\ aconn \notin sessions \cup closing
    /\ \A c \in sessions \cup closing : sstate[c] \notin {"none", "accepted"}
    /\ apc \in {"check", "new"} => sstate[aconn] = "accepted"
    /\ apc = "insert" => sstate[aconn] \notin {"none", "accepted"}

Inv == LiveIsOwned /\ Places /\ SessionLimit /\ Room /\ UnboundLimit

(***************************************************************************)
(* Types, ownership and places.                                            *)
(***************************************************************************)
\* Every step keeps the owners.
LEMMA PlacesStep ==
    ASSUME LiveIsOwned, Places, [Next]_vars
    PROVE  LiveIsOwned' /\ Places'
<1> USE ServerAssumption DEF LiveIsOwned, TypeOK, Places
<1>1. CASE Serve
  BY <1>1 DEF Serve
<1>2. ASSUME NEW c \in Conns, Accept(c) PROVE LiveIsOwned' /\ Places'
  BY <1>2 DEF Accept, Set
<1>3. CASE AcceptFails
  BY <1>3 DEF AcceptFails
<1>4. CASE Check
  BY <1>4 DEF Check, Set
<1>5. CASE NewSession
  BY <1>5 DEF NewSession, Set
<1>6. CASE Insert
  <2>1. IsFiniteSet(sessions')
    BY <1>6, FS_AddElement DEF Insert
  <2>2. CASE sessions' = sessions /\ Set(aconn, "ended")
    BY <1>6, <2>2 DEF Insert, Set
  <2>3. CASE sessions' = sessions \cup {aconn} /\ UNCHANGED sstate
    <3>1. aconn \in Conns /\ sstate[aconn] \notin {"none", "accepted"}
      BY <1>6 DEF Insert
    <3> QED BY <1>6, <2>1, <2>3, <3>1 DEF Insert
  <2> QED BY <1>6, <2>2, <2>3 DEF Insert
<1>7. CASE Close
  BY <1>7 DEF Close
<1>8. CASE CloseListener
  BY <1>8 DEF CloseListener
<1>9. ASSUME NEW c \in Conns, Watch(c) PROVE LiveIsOwned' /\ Places'
  <2>1. IsFiniteSet(sessions')
    BY <1>9, FS_Subset DEF Watch
  <2> QED BY <1>9, <2>1 DEF Watch
<1>10. ASSUME NEW c \in Conns, SessionEnds(c) PROVE LiveIsOwned' /\ Places'
  BY <1>10 DEF SessionEnds, Set
<1>11. ASSUME NEW c \in Conns, SessionBinds(c) PROVE LiveIsOwned' /\ Places'
  BY <1>11 DEF SessionBinds, Set
<1>12. ASSUME NEW c \in Conns, Outbind(c) PROVE LiveIsOwned' /\ Places'
  BY <1>12 DEF Outbind, Set
<1>13. ASSUME NEW c \in Conns, OutbindFails(c) PROVE LiveIsOwned' /\ Places'
  BY <1>13 DEF OutbindFails, Set
<1>14. ASSUME NEW c \in Conns, CloseSession(c) PROVE LiveIsOwned' /\ Places'
  BY <1>14 DEF CloseSession, Set
<1>15. CASE UNCHANGED vars
  BY <1>15 DEF vars
<1> QED BY <1>1, <1>2, <1>3, <1>4, <1>5, <1>6, <1>7, <1>8, <1>9, <1>10, <1>11, <1>12, <1>13, <1>14, <1>15
        DEF Next, AcceptLoop

(***************************************************************************)
(* The limits.                                                             *)
(***************************************************************************)
\* A set that has not grown has not become larger.
LEMMA Shrinks ==
    ASSUME NEW S, NEW T, IsFiniteSet(S), T \subseteq S
    PROVE  Cardinality(T) \in Nat /\ Cardinality(S) \in Nat /\ Cardinality(T) <= Cardinality(S)
  BY FS_Subset, FS_CardinalityType

\* Only Insert adds a session, and then the one at hand; every other step but a failed
\* outbind can only take sessions out of those counted for an address.
LEMMA OnlyInsertAdds ==
    ASSUME LiveIsOwned, Places, [Next]_vars, ~Insert, ~\E c \in Conns : OutbindFails(c)
    PROVE  sessions' \subseteq sessions /\ \A h \in Hosts : Counted(h)' \subseteq Counted(h)
<1> USE DEF LiveIsOwned, TypeOK, Places, Counted, unboundFrom
<1>1. CASE Serve \/ AcceptFails \/ Close \/ CloseListener \/ UNCHANGED vars
  BY <1>1 DEF Serve, AcceptFails, Close, CloseListener, vars
<1>2. CASE Check \/ NewSession \/ \E c \in Conns : Accept(c)
  BY <1>2 DEF Check, NewSession, Accept, Set
<1>3. ASSUME NEW c \in Conns, Watch(c) \/ SessionEnds(c) \/ SessionBinds(c) \/ CloseSession(c)
      PROVE  sessions' \subseteq sessions /\ \A h \in Hosts : Counted(h)' \subseteq Counted(h)
  BY <1>3 DEF Watch, SessionEnds, SessionBinds, CloseSession, Set
<1>4. ASSUME NEW c \in Conns, Outbind(c)
      PROVE  sessions' \subseteq sessions /\ \A h \in Hosts : Counted(h)' \subseteq Counted(h)
  BY <1>4 DEF Outbind, Set
<1> QED BY <1>1, <1>2, <1>3, <1>4 DEF Next, AcceptLoop

\* A failed outbind adds one session to those counted for its address, and none when the
\* places of the address are taken.
LEMMA FailedOutbindAdds ==
    ASSUME LiveIsOwned, Places, NEW c \in Conns, OutbindFails(c), NEW h \in Hosts
    PROVE  /\ sessions' = sessions /\ apc' = apc /\ aconn' = aconn
           /\ Counted(h)' \subseteq Counted(h) \cup {c}
           /\ h # Host[c] \/ PlaceTaken(h) => Counted(h)' \subseteq Counted(h)
  BY DEF LiveIsOwned, TypeOK, Places, Counted, unboundFrom, OutbindFails, Set

\* Check leaves room for the connection it lets pass, and nothing takes it away.
LEMMA RoomStep ==
    ASSUME Inv, [Next]_vars
    PROVE  Room'
<1> USE ServerAssumption DEF Inv
<1>1. \A h : IsFiniteSet(unboundFrom(h)) /\ IsFiniteSet(Counted(h))
  BY FS_Subset DEF Places, Counted, unboundFrom
<1>2. CASE Insert
  BY <1>2 DEF Insert, Room
<1>3. CASE Check
  <2>1. UNCHANGED <<sessions, over>>
    BY <1>3 DEF Check
  <2> SUFFICES ASSUME apc' = "new", Host[aconn'] \notin Exempt, MaxUnboundPerIP > 0
               PROVE  Cardinality(Counted(Host[aconn])') < MaxUnboundPerIP /\ aconn' = aconn
    BY <1>3 DEF Check, Room, Counted, unboundFrom
  <2>2. aconn' = aconn /\ sstate' = sstate /\ ~tooManyUnbound(Host[aconn])
    BY <1>3 DEF Check
  <2>3. Cardinality(unboundFrom(Host[aconn])) < MaxUnboundPerIP
    BY <1>1, <2>2, FS_CardinalityType DEF tooManyUnbound
  <2>4. Cardinality(Counted(Host[aconn])) < MaxUnboundPerIP
    BY <1>1, <2>3, Shrinks DEF Counted
  <2> QED BY <2>1, <2>2, <2>4 DEF Counted, unboundFrom
<1>4. CASE ~Insert /\ ~Check /\ ~\E c \in Conns : OutbindFails(c)
  <2>1. apc' \in {"new", "insert"} => apc \in {"new", "insert"} /\ aconn' = aconn
    BY <1>4 DEF Next, AcceptLoop, vars, Serve, Accept, AcceptFails, NewSession, Watch, SessionEnds, SessionBinds,
                Outbind, OutbindFails, Close, CloseListener, CloseSession
  <2> SUFFICES ASSUME apc' \in {"new", "insert"}, MaxUnboundPerIP > 0, Host[aconn] \notin Exempt
               PROVE  Cardinality(Counted(Host[aconn])') < MaxUnboundPerIP
    BY <2>1 DEF Room, Counted, unboundFrom
  <2>2. aconn \in Conns /\ Host[aconn] \in Hosts
    BY <2>1 DEF LiveIsOwned, TypeOK
  <2>3. Counted(Host[aconn])' \subseteq Counted(Host[aconn])
    <3>1. \A h \in Hosts : Counted(h)' \subseteq Counted(h)
      BY <1>4, OnlyInsertAdds
    <3> QED BY <2>1, <2>2, <3>1 DEF Counted, unboundFrom
  <2>4. Cardinality(Counted(Host[aconn])) < MaxUnboundPerIP
    BY <2>1 DEF Room
  <2> QED BY <1>1, <2>3, <2>4, Shrinks
<1>5. ASSUME NEW c \in Conns, OutbindFails(c) PROVE Room'
  <2> SUFFICES ASSUME apc \in {"new", "insert"}, MaxUnboundPerIP > 0, Host[aconn] \notin Exempt
               PROVE  Cardinality(Counted(Host[aconn])') < MaxUnboundPerIP
    BY <1>5 DEF Room, OutbindFails, Counted, unboundFrom
  <2>1. aconn \in Conns /\ Host[aconn] \in Hosts
    BY DEF LiveIsOwned, TypeOK
  <2>2. PlaceTaken(Host[aconn])
    BY DEF PlaceTaken
  <2>3. Counted(Host[aconn])' \subseteq Counted(Host[aconn])
    <3>1. \A h \in Hosts : PlaceTaken(h) => Counted(h)' \subseteq Counted(h)
      BY <1>5, FailedOutbindAdds
    <3>2. aconn' = aconn
      BY <1>5 DEF OutbindFails
    <3> QED BY <2>1, <2>2, <3>1, <3>2 DEF Counted, unboundFrom
  <2>4. Cardinality(Counted(Host[aconn])) < MaxUnboundPerIP
    BY DEF Room
  <2> QED BY <1>1, <2>3, <2>4, Shrinks
<1> QED BY <1>2, <1>3, <1>4, <1>5

\* Every step keeps both limits.
LEMMA LimitStep ==
    ASSUME Inv, [Next]_vars
    PROVE  SessionLimit' /\ UnboundLimit'
<1> USE ServerAssumption DEF Inv
<1>1. \A h : IsFiniteSet(Counted(h))
  BY FS_Subset DEF Places, Counted, unboundFrom
<1>2. CASE sessions' \subseteq sessions /\ \A h \in Hosts : Counted(h)' \subseteq Counted(h)
  <2>1. SessionLimit'
    BY <1>2, Shrinks DEF Places, SessionLimit
  <2>2. ASSUME MaxUnboundPerIP > 0, NEW h \in Hosts \ Exempt
        PROVE  Cardinality(Counted(h)') <= MaxUnboundPerIP
    <3>1. Cardinality(Counted(h)) <= MaxUnboundPerIP
      BY <2>2 DEF UnboundLimit, Counted
    <3>2. /\ Cardinality(Counted(h)') \in Nat /\ Cardinality(Counted(h)) \in Nat
          /\ Cardinality(Counted(h)') <= Cardinality(Counted(h))
      BY <1>1, <1>2, Shrinks
    <3> QED BY <3>1, <3>2
  <2> QED BY <2>1, <2>2 DEF UnboundLimit, Counted
<1>3. CASE Insert /\ sessions' = sessions \cup {aconn} /\ ~atLimit
  <2>1. aconn \in Conns /\ Host[aconn] \in Hosts /\ aconn \notin sessions /\ apc = "insert"
    BY <1>3 DEF Insert, LiveIsOwned, TypeOK, Places
  <2>2. SessionLimit'
    <3>1. Cardinality(sessions') = Cardinality(sessions) + 1 /\ Cardinality(sessions) \in Nat
      BY <1>3, <2>1, FS_AddElement, FS_CardinalityType DEF Places
    <3>2. MaxSessions > 0 => Cardinality(sessions) < MaxSessions
      BY <1>3, <3>1 DEF atLimit
    <3> QED BY <3>1, <3>2 DEF SessionLimit
  <2>3. UNCHANGED <<sstate, over>>
    BY <1>3, <2>1 DEF Insert
  <2>4. ASSUME MaxUnboundPerIP > 0, NEW h \in Hosts \ Exempt
        PROVE  Cardinality(Counted(h)') <= MaxUnboundPerIP
    <3>1. CASE h # Host[aconn]
      <4>1. Counted(h)' = Counted(h)
        BY <1>3, <2>3, <3>1 DEF Counted, unboundFrom
      <4> QED BY <2>4, <4>1 DEF UnboundLimit, Counted
    <3>2. CASE h = Host[aconn]
      <4>1. Cardinality(Counted(h)) < MaxUnboundPerIP
        BY <2>1, <2>4, <3>2 DEF Room
      <4>2. Counted(h)' \subseteq Counted(h) \cup {aconn}
        BY <1>3, <2>3 DEF Counted, unboundFrom
      <4>3. aconn \notin Counted(h)
        BY <2>1 DEF Counted, unboundFrom
      <4>4. /\ IsFiniteSet(Counted(h) \cup {aconn})
            /\ Cardinality(Counted(h) \cup {aconn}) = Cardinality(Counted(h)) + 1
        BY <1>1, <4>3, FS_AddElement
      <4>5. Cardinality(Counted(h)) \in Nat
        BY <1>1, FS_CardinalityType
      <4>6. Cardinality(Counted(h)') <= Cardinality(Counted(h)) + 1 /\ Cardinality(Counted(h)') \in Nat
        BY <4>2, <4>4, Shrinks
      <4> QED BY <4>1, <4>5, <4>6
    <3> QED BY <3>1, <3>2
  <2> QED BY <2>2, <2>4 DEF UnboundLimit, Counted
<1>4. CASE Insert /\ sessions' = sessions
  <2>1. sstate' = [sstate EXCEPT ![aconn] = "ended"] /\ UNCHANGED over
    BY <1>4 DEF Insert, Set, LiveIsOwned, TypeOK, Places
  <2>2. \A h \in Hosts : Counted(h)' \subseteq Counted(h)
    BY <1>4, <2>1 DEF Counted, unboundFrom, LiveIsOwned, TypeOK
  <2> QED BY <1>2, <1>4, <2>2
<1>5. CASE ~Insert /\ ~\E c \in Conns : OutbindFails(c)
  BY <1>2, <1>5, OnlyInsertAdds
<1>6. ASSUME NEW c \in Conns, OutbindFails(c) PROVE SessionLimit' /\ UnboundLimit'
  <2>1. SessionLimit'
    BY <1>6 DEF OutbindFails, SessionLimit
  <2>2. ASSUME MaxUnboundPerIP > 0, NEW h \in Hosts \ Exempt
        PROVE  Cardinality(Counted(h)') <= MaxUnboundPerIP
    <3>1. CASE Counted(h)' \subseteq Counted(h)
      <4>1. Cardinality(Counted(h)) <= MaxUnboundPerIP
        BY <2>2 DEF UnboundLimit, Counted
      <4> QED BY <1>1, <3>1, <4>1, Shrinks
    <3>2. CASE ~PlaceTaken(h)
      <4>1. IsFiniteSet(unboundFrom(h)) /\ Counted(h) \subseteq unboundFrom(h)
        BY FS_Subset DEF Places, Counted, unboundFrom
      <4>2. Cardinality(unboundFrom(h)) \in Nat /\ Cardinality(unboundFrom(h)) < MaxUnboundPerIP
        BY <3>2, <4>1, FS_CardinalityType DEF PlaceTaken
      <4>3. c \notin unboundFrom(h)
        BY <1>6 DEF OutbindFails, unboundFrom
      <4>4. /\ IsFiniteSet(unboundFrom(h) \cup {c})
            /\ Cardinality(unboundFrom(h) \cup {c}) = Cardinality(unboundFrom(h)) + 1
        BY <4>1, <4>3, FS_AddElement
      <4>5. Counted(h)' \subseteq unboundFrom(h) \cup {c}
        BY <1>6, <2>2, <4>1, FailedOutbindAdds
      <4>6. /\ Cardinality(Counted(h)') \in Nat
            /\ Cardinality(Counted(h)') <= Cardinality(unboundFrom(h)) + 1
        BY <4>4, <4>5, Shrinks
      <4> QED BY <4>2, <4>6
    <3> QED BY <1>6, <2>2, <3>1, <3>2, FailedOutbindAdds
  <2> QED BY <2>1, <2>2 DEF UnboundLimit, Counted
<1> QED BY <1>3, <1>4, <1>5, <1>6 DEF Insert

\* The empty server satisfies everything.
LEMMA InvInit == Init => Inv
<1> SUFFICES ASSUME Init PROVE Inv
  OBVIOUS
<1>1. LiveIsOwned /\ Places
  BY ServerAssumption, FS_EmptySet DEF Init, LiveIsOwned, TypeOK, Places
<1>2. \A h : unboundFrom(h) \ over = {}
  BY DEF Init, unboundFrom
<1>3. Cardinality({}) = 0
  BY FS_EmptySet
<1>4. SessionLimit /\ UnboundLimit /\ Room
  BY <1>2, <1>3, ServerAssumption DEF Init, SessionLimit, UnboundLimit, Room
<1> QED BY <1>1, <1>4 DEF Inv

\* The invariant of the server.
LEMMA Invariant == Spec => []Inv
<1>1. Inv /\ [Next]_vars => Inv'
  BY PlacesStep, RoomStep, LimitStep DEF Inv
<1> QED BY InvInit, <1>1, PTL DEF Spec

\* Serve never holds more than MaxSessions sessions, although it drops the lock
\* between the two looks at the limit.
THEOREM SessionsBounded == Spec => []SessionLimit
<1> QED BY Invariant, PTL DEF Inv

\* The cap on unbound sessions of an address, looked at once before the session is
\* created, holds when it is inserted and ever after, but for the sessions a failed
\* outbind brings back after their place was given away.
THEOREM UnboundBounded == Spec => []UnboundLimit
<1> QED BY Invariant, PTL DEF Inv

\* No session runs that neither the server's map nor the accept loop knows, so Close
\* reaches every one.
THEOREM LiveSessionsOwned == Spec => []LiveIsOwned
<1> QED BY Invariant, PTL DEF Inv
=============================================================================
