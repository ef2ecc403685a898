---------------------- MODULE ConnectionManagerProofs ----------------------
(* Proofs about ConnectionManager, for any sessions, groups and            *)
(* connections, in a worker as in the API.                                 *)
EXTENDS ConnectionManager, TLAPS

(* Closing the clients of a set of pairs keeps what the cache and the open *)
(* clients say of each other, whatever set it is.                          *)
LEMMA CloseKeeps ==
  ASSUME IndInv, NEW D \in SUBSET (Groups \X Connections), Close(D),
         UNCHANGED opened
  PROVE  /\ conns' \in [Groups -> [Connections -> Clients \cup {NoClient}]]
         /\ open' \subseteq open
         /\ OpenNumbered' /\ CachedOpen' /\ CachedOnce' /\ NothingForgotten'
         /\ \A g \in Groups, c \in Connections :
               conns'[g][c] = IF <<g, c>> \in D THEN NoClient ELSE conns[g][c]
<1>1. conns \in [Groups -> [Connections -> Clients \cup {NoClient}]]
  BY DEF IndInv, TypeOK
<1>2. conns' = [g \in Groups |-> [c \in Connections |->
                    IF <<g, c>> \in D THEN NoClient ELSE conns[g][c]]]
  BY DEF Close
<1>3. \A g \in Groups, c \in Connections :
         conns'[g][c] = IF <<g, c>> \in D THEN NoClient ELSE conns[g][c]
  BY <1>2
<1>4. conns' \in [Groups -> [Connections -> Clients \cup {NoClient}]]
  BY <1>1, <1>2
<1>5. open' = open \ {conns[p[1]][p[2]] : p \in D}
  BY DEF Close, StaysOpen
<1>6. OpenNumbered'
  BY <1>5 DEF IndInv, OpenNumbered
<1>7. CachedOnce'
  <2> SUFFICES ASSUME NEW g \in Groups, NEW h \in Groups, NEW c \in Connections,
                      NEW d \in Connections, conns'[g][c] # NoClient,
                      conns'[g][c] = conns'[h][d]
               PROVE  g = h /\ c = d
    BY DEF CachedOnce
  <2>1. conns[g][c] # NoClient /\ conns[g][c] = conns[h][d]
    BY <1>3
  <2>2. CachedOnce
    BY DEF IndInv
  <2> QED BY <2>1, <2>2 DEF CachedOnce
<1>8. CachedOpen'
  <2> SUFFICES ASSUME NEW g \in Groups, NEW c \in Connections, conns'[g][c] # NoClient
               PROVE  conns'[g][c] \in open'
    BY DEF CachedOpen
  <2>1. <<g, c>> \notin D /\ conns'[g][c] = conns[g][c] /\ conns[g][c] # NoClient
    BY <1>3
  <2>2. conns[g][c] \in open
    BY <2>1 DEF IndInv, CachedOpen
  <2>3. ASSUME NEW p \in D, conns[p[1]][p[2]] = conns[g][c] PROVE FALSE
    <3>1. p[1] \in Groups /\ p[2] \in Connections /\ p = <<p[1], p[2]>>
      OBVIOUS
    <3>2. p[1] = g /\ p[2] = c
      BY <3>1, <2>1, <2>3 DEF IndInv, CachedOnce
    <3> QED BY <3>1, <3>2, <2>1
  <2>4. conns[g][c] \notin {conns[p[1]][p[2]] : p \in D}
    BY <2>3
  <2> QED BY <2>1, <2>2, <2>4, <1>5
<1>9. NothingForgotten'
  <2> SUFFICES ASSUME NEW k \in open'
               PROVE  \E g \in Groups, c \in Connections : conns'[g][c] = k
    BY DEF NothingForgotten
  <2>1. PICK g \in Groups, c \in Connections : conns[g][c] = k
    BY <1>5 DEF IndInv, NothingForgotten
  <2>2. <<g, c>> \notin D
    <3>1. SUFFICES ASSUME <<g, c>> \in D PROVE k \in {conns[p[1]][p[2]] : p \in D}
      BY <1>5
    <3> QED BY <3>1, <2>1
  <2> QED BY <2>1, <2>2, <1>3
<1> QED BY <1>3, <1>4, <1>5, <1>6, <1>7, <1>8, <1>9

LEMMA InitInv == Init => IndInv
<1> SUFFICES ASSUME Init PROVE IndInv
  OBVIOUS
<1>1. TypeOK
  <2>1. 0 \in 0..MaxClients
    BY MaxClientsAssumption
  <2>2. NoClients \in [Connections -> Clients \cup {NoClient}]
    BY DEF NoClients
  <2>3. reaper \in {"off", "starting", "waiting", "cleaning", "closing", "ended"}
    BY DEF Init
  <2> QED BY <2>1, <2>2, <2>3 DEF Init, TypeOK
<1>2. \A g \in Groups, c \in Connections : conns[g][c] = NoClient
  BY DEF Init, NoClients
<1>3. HeldBound
  BY DEF Init, HeldBound, NoClients
<1> QED BY <1>1, <1>2, <1>3 DEF Init, IndInv, OpenNumbered, CachedOpen, CachedOnce,
             NothingForgotten, ReleaseClosesUnused

(* A session takes up a client that is cached, or the one just cached.     *)
LEMMA GetCachedInv ==
  ASSUME IndInv, NEW s \in Sessions, NEW c \in Connections, GetCached(s, c)
  PROVE  IndInv'
<1> DEFINE k == conns[GroupOf[s]][c]
<1>1. GroupOf[s] \in Groups /\ k \in Clients \cup {NoClient} /\ k # NoClient
  BY GroupOfAssumption DEF IndInv, TypeOK, GetCached
<1>2. /\ bound' = [bound EXCEPT ![s] = @ \cup {c}]
      /\ held' = [held EXCEPT ![s][c] = k]
      /\ UNCHANGED <<conns, open, opened, closeOnRelease, reaper, isReaping, shutdown, hardClosed>>
  BY DEF GetCached, Bind, Hand, control
<1>3. TypeOK'
  BY <1>1, <1>2 DEF IndInv, TypeOK
<1>4. OpenNumbered' /\ CachedOpen' /\ CachedOnce' /\ NothingForgotten'
  BY <1>2 DEF IndInv, OpenNumbered, CachedOpen, CachedOnce, NothingForgotten
<1>5. HeldBound'
  BY <1>1, <1>2 DEF IndInv, TypeOK, HeldBound
<1>6. ReleaseClosesUnused'
  BY <1>2 DEF IndInv, TypeOK, ReleaseClosesUnused, BoundIn
<1> QED BY <1>3, <1>4, <1>5, <1>6 DEF IndInv

LEMMA GetNewInv ==
  ASSUME IndInv, NEW s \in Sessions, NEW c \in Connections, GetNew(s, c)
  PROVE  IndInv'
<1> DEFINE g == GroupOf[s]
           k == opened + 1
<1>1. g \in Groups /\ k \in Clients /\ k # NoClient /\ k \notin open /\ conns[g][c] = NoClient
  BY GroupOfAssumption, MaxClientsAssumption, NoClientAssumption
     DEF IndInv, TypeOK, OpenNumbered, GetNew, Clients
<1>2. /\ bound' = [bound EXCEPT ![s] = @ \cup {c}]
      /\ held' = [held EXCEPT ![s][c] = k]
      /\ conns' = [conns EXCEPT ![g][c] = k]
      /\ open' = open \cup {k} /\ opened' = k
      /\ UNCHANGED <<closeOnRelease, reaper, isReaping, shutdown, hardClosed>>
  BY DEF GetNew, Bind, Hand, control
<1>a. conns \in [Groups -> [Connections -> Clients \cup {NoClient}]]
  BY DEF IndInv, TypeOK
<1>b. k \in 0..MaxClients /\ opened \in Nat
  BY MaxClientsAssumption DEF IndInv, TypeOK, GetNew, Clients
<1> HIDE DEF k, g
<1>3. TypeOK'
  BY <1>1, <1>2, <1>b DEF IndInv, TypeOK
<1>4. conns'[g][c] = k /\ \A h \in Groups, d \in Connections :
         (h # g \/ d # c) => conns'[h][d] = conns[h][d]
  BY <1>1, <1>2, <1>a
<1>5. OpenNumbered'
  <2>1. \A j \in open : j <= opened
    BY DEF IndInv, OpenNumbered
  <2>2. open \subseteq Nat
    BY MaxClientsAssumption DEF IndInv, TypeOK, Clients
  <2> QED BY <1>2, <1>b, <2>1, <2>2 DEF OpenNumbered, k
<1>6. CachedOpen'
  BY <1>1, <1>2, <1>4 DEF IndInv, CachedOpen
<1>7. CachedOnce'
  <2>1. \A h \in Groups, d \in Connections : conns[h][d] # k
    BY <1>1 DEF IndInv, CachedOpen
  <2> QED BY <1>1, <1>4, <2>1 DEF IndInv, CachedOnce
<1>8. NothingForgotten'
  <2>a. open \subseteq Nat
    BY MaxClientsAssumption DEF IndInv, TypeOK, Clients
  <2>0. NoClient \notin open
    BY <2>a, NoClientAssumption
  <2>1. \A h \in Groups, d \in Connections : conns[h][d] \in open => conns'[h][d] = conns[h][d]
    BY <1>1, <1>4, <2>0
  <2> QED BY <1>1, <1>2, <1>4, <2>1 DEF IndInv, NothingForgotten
<1>9. HeldBound'
  <2> SUFFICES ASSUME ~hardClosed, NEW t \in Sessions, NEW d \in Connections,
                      held'[t][d] # NoClient
               PROVE  d \in bound'[t] /\ conns'[GroupOf[t]][d] = held'[t][d]
    BY <1>2 DEF HeldBound
  <2>1. held \in [Sessions -> [Connections -> Clients \cup {NoClient}]]
        /\ bound \in [Sessions -> SUBSET Connections] /\ GroupOf[t] \in Groups
    BY GroupOfAssumption DEF IndInv, TypeOK
  <2>2. CASE t = s /\ d = c
    <3>1. c \in bound'[s] /\ held'[s][c] = k
      BY <1>2, <2>1
    <3> QED BY <3>1, <1>4, <2>2 DEF g
  <2>3. CASE ~(t = s /\ d = c)
    <3>1. held'[t][d] = held[t][d] /\ d \in bound[t] /\ conns[GroupOf[t]][d] = held[t][d]
      BY <1>2, <2>1, <2>3 DEF IndInv, HeldBound
    <3>2. ~(GroupOf[t] = g /\ d = c)
      BY <1>1, <3>1
    <3> QED BY <1>2, <1>4, <2>1, <3>1, <3>2
  <2> QED BY <2>2, <2>3
<1>10. ReleaseClosesUnused'
  BY <1>1, <1>2, <1>4 DEF IndInv, TypeOK, ReleaseClosesUnused, BoundIn, g
<1> QED BY <1>3, <1>5, <1>6, <1>7, <1>8, <1>9, <1>10 DEF IndInv

LEMMA ReleaseInv ==
  ASSUME IndInv, NEW s \in Sessions, ReleaseSession(s)
  PROVE  IndInv'
<1> DEFINE D == {GroupOf[s]} \X Unused(s)
<1>1. /\ bound \in [Sessions -> SUBSET Connections]
      /\ held \in [Sessions -> [Connections -> Clients \cup {NoClient}]]
      /\ GroupOf \in [Sessions -> Groups]
  BY GroupOfAssumption DEF IndInv, TypeOK
<1>2. /\ bound' = [bound EXCEPT ![s] = {}]
      /\ held' = [held EXCEPT ![s] = NoClients]
      /\ Close(D)
      /\ UNCHANGED <<opened, closeOnRelease, reaper, isReaping, shutdown, hardClosed>>
  BY DEF ReleaseSession, control
<1>3. D \in SUBSET (Groups \X Connections)
  BY <1>1 DEF Unused
<1>4. /\ conns' \in [Groups -> [Connections -> Clients \cup {NoClient}]]
      /\ open' \subseteq open
      /\ OpenNumbered' /\ CachedOpen' /\ CachedOnce' /\ NothingForgotten'
      /\ \A g \in Groups, c \in Connections :
            conns'[g][c] = IF <<g, c>> \in D THEN NoClient ELSE conns[g][c]
  BY <1>2, <1>3, CloseKeeps
<1>5. TypeOK'
  BY <1>1, <1>2, <1>4 DEF IndInv, TypeOK, NoClients
<1>6. \A t \in Sessions \ {s} : bound'[t] = bound[t] /\ held'[t] = held[t]
  BY <1>1, <1>2
<1>7. bound'[s] = {} /\ \A c \in Connections : held'[s][c] = NoClient
  BY <1>1, <1>2 DEF NoClients
<1>8. HeldBound'
  <2> SUFFICES ASSUME ~hardClosed, NEW t \in Sessions, NEW d \in Connections,
                      held'[t][d] # NoClient
               PROVE  d \in bound'[t] /\ conns'[GroupOf[t]][d] = held'[t][d]
    BY <1>2 DEF HeldBound
  <2>1. t # s
    BY <1>7
  <2>2. d \in bound[t] /\ conns[GroupOf[t]][d] = held[t][d]
    BY <1>6, <2>1 DEF IndInv, HeldBound
  <2>3. <<GroupOf[t], d>> \notin D
    BY <2>1, <2>2 DEF Unused, BoundIn
  <2> QED BY <1>1, <1>4, <1>6, <2>1, <2>2, <2>3
<1>9. ReleaseClosesUnused'
  <2> SUFFICES ASSUME closeOnRelease, NEW g \in Groups, NEW c \in Connections,
                      conns'[g][c] # NoClient
               PROVE  c \in BoundIn(g, Sessions)'
    BY <1>2 DEF ReleaseClosesUnused
  <2>1. <<g, c>> \notin D /\ conns[g][c] # NoClient
    BY <1>4
  <2>2. PICK t \in Sessions : GroupOf[t] = g /\ c \in bound[t]
    BY <2>1 DEF IndInv, ReleaseClosesUnused, BoundIn
  <2>3. CASE t # s
    BY <2>2, <2>3, <1>6 DEF BoundIn
  <2>4. CASE t = s
    <3>1. c \notin Unused(s)
      BY <2>1, <2>2, <2>4
    <3>2. PICK u \in Sessions \ {s} : GroupOf[u] = g /\ c \in bound[u]
      BY <3>1, <2>2, <2>4 DEF Unused, BoundIn
    <3> QED BY <3>2, <1>6 DEF BoundIn
  <2> QED BY <2>3, <2>4
<1> QED BY <1>4, <1>5, <1>8, <1>9 DEF IndInv

LEMMA CleanUnusedInv ==
  ASSUME IndInv, CleanUnused
  PROVE  IndInv'
<1> DEFINE D == {p \in Groups \X Connections : p[2] \in Idle(p[1])}
<1>1. /\ Close(D) /\ reaper' = "waiting"
      /\ UNCHANGED <<bound, opened, held, closeOnRelease, isReaping, shutdown, hardClosed>>
  BY DEF CleanUnused
<1>2. /\ conns' \in [Groups -> [Connections -> Clients \cup {NoClient}]]
      /\ open' \subseteq open
      /\ OpenNumbered' /\ CachedOpen' /\ CachedOnce' /\ NothingForgotten'
      /\ \A g \in Groups, c \in Connections :
            conns'[g][c] = IF <<g, c>> \in D THEN NoClient ELSE conns[g][c]
  BY <1>1, CloseKeeps
<1>3. TypeOK'
  BY <1>1, <1>2 DEF IndInv, TypeOK
<1>4. \A g \in Groups : \A c \in BoundIn(g, Sessions) : <<g, c>> \notin D
  BY DEF Idle
<1>5. HeldBound'
  <2> SUFFICES ASSUME ~hardClosed, NEW t \in Sessions, NEW d \in Connections,
                      held[t][d] # NoClient
               PROVE  d \in bound[t] /\ conns'[GroupOf[t]][d] = held[t][d]
    BY <1>1 DEF HeldBound
  <2>1. d \in bound[t] /\ conns[GroupOf[t]][d] = held[t][d] /\ GroupOf[t] \in Groups
    BY GroupOfAssumption DEF IndInv, HeldBound
  <2>2. d \in BoundIn(GroupOf[t], Sessions)
    BY <2>1 DEF BoundIn
  <2>3. <<GroupOf[t], d>> \notin D
    BY <2>1, <2>2, <1>4
  <2> QED BY <1>2, <2>1, <2>3
<1>6. ReleaseClosesUnused'
  <2>1. \A g \in Groups, c \in Connections : conns'[g][c] # NoClient => conns[g][c] # NoClient
    BY <1>2
  <2>2. \A g \in Groups : BoundIn(g, Sessions)' = BoundIn(g, Sessions)
    BY <1>1 DEF BoundIn
  <2> QED BY <1>1, <2>1, <2>2 DEF IndInv, ReleaseClosesUnused
<1> QED BY <1>2, <1>3, <1>5, <1>6 DEF IndInv

LEMMA HardCloseInv ==
  ASSUME IndInv, HardClose,
         reaper' \in {"off", "starting", "waiting", "cleaning", "closing", "ended"},
         isReaping' \in BOOLEAN, shutdown' \in {"none", "sending", "closing", "done"}
  PROVE  IndInv'
<1>1. /\ Close(Groups \X Connections) /\ hardClosed' = TRUE
      /\ bound' = [s \in Sessions |-> {}] /\ UNCHANGED <<opened, held, closeOnRelease>>
  BY DEF HardClose
<1>2. /\ conns' \in [Groups -> [Connections -> Clients \cup {NoClient}]]
      /\ open' \subseteq open
      /\ OpenNumbered' /\ CachedOpen' /\ CachedOnce' /\ NothingForgotten'
      /\ \A g \in Groups, c \in Connections : conns'[g][c] = NoClient
  <2>1. Groups \X Connections \in SUBSET (Groups \X Connections)
    OBVIOUS
  <2>2. \A g \in Groups, c \in Connections : <<g, c>> \in Groups \X Connections
    OBVIOUS
  <2>3. \A g \in Groups, c \in Connections :
           conns'[g][c] = IF <<g, c>> \in Groups \X Connections THEN NoClient ELSE conns[g][c]
    BY <1>1, <2>1, CloseKeeps
  <2> QED BY <1>1, <2>1, <2>2, <2>3, CloseKeeps
<1>3. TypeOK'
  BY <1>1, <1>2 DEF IndInv, TypeOK
<1> QED BY <1>1, <1>2, <1>3 DEF IndInv, HeldBound, ReleaseClosesUnused

(* The reaper and the shutdown, as long as they close nothing.             *)
LEMMA ControlInv ==
  ASSUME IndInv, UNCHANGED <<conns, bound, open, opened, held, closeOnRelease, hardClosed>>,
         reaper' \in {"off", "starting", "waiting", "cleaning", "closing", "ended"},
         isReaping' \in BOOLEAN, shutdown' \in {"none", "sending", "closing", "done"}
  PROVE  IndInv'
BY DEF IndInv, TypeOK, OpenNumbered, CachedOpen, CachedOnce, NothingForgotten,
       HeldBound, ReleaseClosesUnused, BoundIn

LEMMA NextInv == IndInv /\ [Next]_vars => IndInv'
<1> SUFFICES ASSUME IndInv, [Next]_vars PROVE IndInv'
  OBVIOUS
<1>0. /\ reaper \in {"off", "starting", "waiting", "cleaning", "closing", "ended"}
      /\ isReaping \in BOOLEAN /\ shutdown \in {"none", "sending", "closing", "done"}
  BY DEF IndInv, TypeOK
<1>1. ASSUME NEW s \in Sessions, NEW c \in Connections, GetCached(s, c) PROVE IndInv'
  BY <1>1, GetCachedInv
<1>2. ASSUME NEW s \in Sessions, NEW c \in Connections, GetNew(s, c) PROVE IndInv'
  BY <1>2, GetNewInv
<1>3. ASSUME NEW s \in Sessions, ReleaseSession(s) PROVE IndInv'
  BY <1>3, ReleaseInv
<1>4. CASE CleanUnused
  BY <1>4, CleanUnusedInv
<1>5. CASE ReaperCloses
  BY <1>0, <1>5, HardCloseInv DEF ReaperCloses
<1>6. CASE ShutdownCloses
  BY <1>0, <1>6, HardCloseInv DEF ShutdownCloses
<1>7. CASE ReaperStarts
  BY <1>0, <1>7, ControlInv DEF ReaperStarts
<1>8. CASE ReaperWakes
  BY <1>0, <1>8, ControlInv DEF ReaperWakes
<1>9. CASE ShutdownStarts
  BY <1>0, <1>9, ControlInv DEF ShutdownStarts
<1>10. CASE SignalReaper
  BY <1>0, <1>10, ControlInv DEF SignalReaper
<1>11. CASE SignalTimesOut
  BY <1>0, <1>11, ControlInv DEF SignalTimesOut
<1>12. CASE UNCHANGED vars
  BY <1>0, <1>12, ControlInv DEF vars
<1> QED
  BY <1>1, <1>2, <1>3, <1>4, <1>5, <1>6, <1>7, <1>8, <1>9, <1>10, <1>11, <1>12
     DEF Next, Reap, Shut

LEMMA Invariance == Spec => []IndInv
BY InitInv, NextInv, PTL DEF Spec

(* The state of the manager is well typed, for any configuration.          *)
THEOREM TypeCorrect == Spec => []TypeOK
<1>1. IndInv => TypeOK
  BY DEF IndInv
<1> QED BY <1>1, Invariance, PTL

(* No client is closed under a session that has it, but by a shutdown.     *)
THEOREM NoneClosedInUse == Spec => []InUseStaysOpen
<1>1. IndInv => InUseStaysOpen
  <2> SUFFICES ASSUME IndInv, ~hardClosed, NEW s \in Sessions, NEW c \in Connections,
                      held[s][c] # NoClient
               PROVE  held[s][c] \in open
    BY DEF InUseStaysOpen
  <2>1. conns[GroupOf[s]][c] = held[s][c] /\ GroupOf[s] \in Groups
    BY GroupOfAssumption DEF IndInv, HeldBound
  <2> QED BY <2>1 DEF IndInv, CachedOpen
<1> QED BY <1>1, Invariance, PTL

(* The sessions of a group share the one client of a connection.           *)
THEOREM ClientsAreShared == Spec => []OneClientPerConnection
<1>1. IndInv => OneClientPerConnection
  BY DEF IndInv, HeldBound, OneClientPerConnection
<1> QED BY <1>1, Invariance, PTL

(* Every open client can still be closed: the manager knows it.            *)
THEOREM NoneForgotten == Spec => []NothingForgotten
<1>1. IndInv => NothingForgotten
  BY DEF IndInv
<1> QED BY <1>1, Invariance, PTL

(* With the closing at the release, no client waits for a reaper.          *)
THEOREM NoneLeftByRelease == Spec => []ReleaseClosesUnused
<1>1. IndInv => ReleaseClosesUnused
  BY DEF IndInv
<1> QED BY <1>1, Invariance, PTL
=============================================================================
