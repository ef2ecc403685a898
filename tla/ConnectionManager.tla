-------------------------- MODULE ConnectionManager --------------------------
(***************************************************************************)
(* The connection manager (internal/connection-manager/manager.go):        *)
(* sessions of one group share the clients of their connections.  A client *)
(* is closed when a session is released (the API), or by the reaper and at *)
(* the shutdown (the worker).  Every method holds the lock from its first  *)
(* statement to its last, so each is one step here; the reaper and the     *)
(* shutdown meet outside the lock, on a channel without a buffer, and by a *)
(* flag.                                                                   *)
(***************************************************************************)
EXTENDS Naturals

CONSTANTS
    Sessions, Groups, Connections,
    GroupOf,            \* the group of each session
    MaxClients,         \* bound on the clients opened
    NoClient

Clients == 1..MaxClients

ASSUME GroupOfAssumption == GroupOf \in [Sessions -> Groups]
ASSUME MaxClientsAssumption == MaxClients \in Nat
ASSUME NoClientAssumption == NoClient \notin Nat

VARIABLES
    conns,      \* groupConnMap: the client of each connection of a group
    bound,      \* groupSessionMap: the connections each session is bound to
    open,       \* the clients that are open
    opened,     \* how many were ever opened; clients are numbered
    held,       \* the clients a session was given, and may use
    closeOnRelease, \* WithCloseOnRelease: of the API, not of a worker
    reaper, isReaping, shutdown,
    hardClosed  \* history: all connections were closed at once
vars == <<conns, bound, open, opened, held, closeOnRelease, reaper, isReaping, shutdown,
          hardClosed>>
control == <<closeOnRelease, reaper, isReaping, shutdown, hardClosed>>

TypeOK ==
    /\ conns \in [Groups -> [Connections -> Clients \cup {NoClient}]]
    /\ bound \in [Sessions -> SUBSET Connections]
    /\ open \subseteq Clients
    /\ opened \in 0..MaxClients
    /\ held \in [Sessions -> [Connections -> Clients \cup {NoClient}]]
    /\ closeOnRelease \in BOOLEAN
    /\ reaper \in {"off", "starting", "waiting", "cleaning", "closing", "ended"}
    /\ isReaping \in BOOLEAN
    /\ shutdown \in {"none", "sending", "closing", "done"}
    /\ hardClosed \in BOOLEAN

NoClients == [c \in Connections |-> NoClient]

\* A worker runs the reaper in a goroutine; the API has none.
Init ==
    /\ conns = [g \in Groups |-> NoClients]
    /\ bound = [s \in Sessions |-> {}]
    /\ open = {} /\ opened = 0
    /\ held = [s \in Sessions |-> NoClients]
    /\ closeOnRelease \in BOOLEAN
    /\ reaper = IF closeOnRelease THEN "off" ELSE "starting"
    /\ isReaping = FALSE /\ shutdown = "none" /\ hardClosed = FALSE
-----------------------------------------------------------------------------
(* The sessions.                                                           *)

Bind(s, c) == bound' = [bound EXCEPT ![s] = @ \cup {c}]
Hand(s, c, k) == held' = [held EXCEPT ![s][c] = k]

GetCached(s, c) ==
    /\ conns[GroupOf[s]][c] # NoClient
    /\ Bind(s, c)
    /\ Hand(s, c, conns[GroupOf[s]][c])
    /\ UNCHANGED <<conns, open, opened, control>>

\* Wrong: opens a client whether one is cached or not.
GetAlways(s, c) ==
    /\ opened < MaxClients
    /\ opened' = opened + 1
    /\ conns' = [conns EXCEPT ![GroupOf[s]][c] = opened + 1]
    /\ open' = open \cup {opened + 1}
    /\ Bind(s, c)
    /\ Hand(s, c, opened + 1)
    /\ UNCHANGED control

\* A client that cannot be opened leaves everything as it was.
GetNew(s, c) ==
    /\ opened < MaxClients
    /\ conns[GroupOf[s]][c] = NoClient
    /\ opened' = opened + 1
    /\ conns' = [conns EXCEPT ![GroupOf[s]][c] = opened + 1]
    /\ open' = open \cup {opened + 1}
    /\ Bind(s, c)
    /\ Hand(s, c, opened + 1)
    /\ UNCHANGED control

\* The connections of a group that a session of S is bound to.
BoundIn(g, S) == UNION {bound[s] : s \in {t \in S : GroupOf[t] = g}}

\* Wrong: forgotten without being closed.
ForgottenOnly(D) == open

\* Closes, and forgets, the clients of the pairs D of a group and a connection.
\* One that fails to close is logged, and forgotten all the same.
StaysOpen(D) == open \ {conns[p[1]][p[2]] : p \in D}
Close(D) ==
    /\ conns' = [g \in Groups |-> [c \in Connections |->
                    IF <<g, c>> \in D THEN NoClient ELSE conns[g][c]]]
    /\ open' = StaysOpen(D)

\* Wrong: what remains is looked up before the session is taken out.
UnusedBeforehand(s) ==
    IF closeOnRelease
    THEN bound[s] \ BoundIn(GroupOf[s], Sessions)
    ELSE {}

\* What a release closes: whatever no session of the group is bound to any
\* more, while sessions remain in it as well as with the last of them.
Unused(s) ==
    IF closeOnRelease
    THEN bound[s] \ BoundIn(GroupOf[s], Sessions \ {s})
    ELSE {}

\* A session that is bound to nothing is not known, and nothing is done.
ReleaseSession(s) ==
    /\ bound[s] # {}
    /\ bound' = [bound EXCEPT ![s] = {}]
    /\ held' = [held EXCEPT ![s] = NoClients]
    /\ Close({GroupOf[s]} \X Unused(s))
    /\ UNCHANGED <<opened, control>>
-----------------------------------------------------------------------------
(* The reaper and the shutdown.                                            *)

ReaperStarts ==
    /\ reaper = "starting"
    /\ isReaping' = TRUE
    /\ reaper' = "waiting"
    /\ UNCHANGED <<conns, bound, open, opened, held, closeOnRelease, shutdown, hardClosed>>

\* The timer fires; the lock may take its time to come.
ReaperWakes ==
    /\ reaper = "waiting"
    /\ reaper' = "cleaning"
    /\ UNCHANGED <<conns, bound, open, opened, held, closeOnRelease, isReaping, shutdown,
                   hardClosed>>

\* Wrong: not bound by every session; or only looked for in groups with one.
IdleForSome(g) ==
    {c \in Connections : \E s \in Sessions : GroupOf[s] = g /\ c \notin bound[s]}
IdleBesideSessions(g) ==
    IF BoundIn(g, Sessions) = {} THEN {} ELSE Connections \ BoundIn(g, Sessions)

Idle(g) == Connections \ BoundIn(g, Sessions)

CleanUnused ==
    /\ reaper = "cleaning"
    /\ Close({p \in Groups \X Connections : p[2] \in Idle(p[1])})
    /\ reaper' = "waiting"
    /\ UNCHANGED <<bound, opened, held, closeOnRelease, isReaping, shutdown, hardClosed>>

ShutdownStarts ==
    /\ shutdown = "none"
    /\ shutdown' = IF isReaping THEN "sending" ELSE "closing"
    /\ UNCHANGED <<conns, bound, open, opened, held, closeOnRelease, reaper, isReaping,
                   hardClosed>>

\* The channel has no buffer: the signal is sent when the reaper takes it.
SignalReaper ==
    /\ shutdown = "sending" /\ reaper = "waiting"
    /\ shutdown' = "done"
    /\ reaper' = "closing"
    /\ UNCHANGED <<conns, bound, open, opened, held, closeOnRelease, isReaping, hardClosed>>

\* Wrong: gives up, and closes nothing.
SignalGivesUp ==
    /\ shutdown = "sending" /\ reaper = "cleaning"
    /\ shutdown' = "done"
    /\ UNCHANGED <<conns, bound, open, opened, held, closeOnRelease, reaper, isReaping,
                   hardClosed>>

\* Five seconds while the reaper closes clients, or waits for the lock.
SignalTimesOut ==
    /\ shutdown = "sending" /\ reaper = "cleaning"
    /\ shutdown' = "closing"
    /\ UNCHANGED <<conns, bound, open, opened, held, closeOnRelease, reaper, isReaping,
                   hardClosed>>

HardClose ==
    /\ Close(Groups \X Connections)
    /\ bound' = [s \in Sessions |-> {}]
    /\ hardClosed' = TRUE
    /\ UNCHANGED <<opened, held, closeOnRelease>>

ShutdownCloses ==
    /\ shutdown = "closing"
    /\ HardClose
    /\ shutdown' = "done"
    /\ UNCHANGED <<reaper, isReaping>>

ReaperCloses ==
    /\ reaper = "closing"
    /\ HardClose
    /\ reaper' = "ended" /\ isReaping' = FALSE
    /\ UNCHANGED shutdown

Reap == ReaperStarts \/ ReaperWakes \/ CleanUnused \/ ReaperCloses
Shut == SignalReaper \/ SignalTimesOut \/ ShutdownCloses

Next ==
    \/ \E s \in Sessions, c \in Connections : GetCached(s, c) \/ GetNew(s, c)
    \/ \E s \in Sessions : ReleaseSession(s)
    \/ Reap \/ ShutdownStarts \/ Shut

\* The goroutines of the reaper and of the shutdown are scheduled; sessions
\* and the shutdown come when they like.  While a shutdown waits, its signal
\* is a ready case of the reaper's select each time it comes back to it.
Fairness == WF_vars(Reap) /\ WF_vars(Shut)

Spec == Init /\ [][Next]_vars /\ Fairness
-----------------------------------------------------------------------------
(* Properties.                                                             *)

\* A client that was handed to a session is open until the session is
\* released, whichever sessions of its group are released meanwhile and
\* whenever the reaper cleans; only the hard close of a shutdown takes it.
InUseStaysOpen ==
    ~hardClosed => \A s \in Sessions, c \in Connections :
                       held[s][c] # NoClient => held[s][c] \in open

\* Sessions of a group that use one connection use one client.
OneClientPerConnection ==
    ~hardClosed => \A s, t \in Sessions, c \in Connections :
        (GroupOf[s] = GroupOf[t] /\ held[s][c] # NoClient /\ held[t][c] # NoClient)
            => held[s][c] = held[t][c]

\* The manager forgets no client it has not closed, the ones opened after a
\* shutdown included: what is open can still be closed.
NothingForgotten ==
    \A k \in open : \E g \in Groups, c \in Connections : conns[g][c] = k

\* With WithCloseOnRelease a client nobody is bound to any more is closed by
\* the release itself, also while other sessions of the group remain, as
\* Test_ConnectionManager_CloseOnRelease_Option expects: no reaper runs in the
\* API.  The comment of WithCloseOnRelease (manager.go:62-63) says that such a
\* connection stays open until a shutdown or a reaper, which is not what
\* ReleaseSession does.
ReleaseClosesUnused ==
    closeOnRelease => \A g \in Groups, c \in Connections :
        conns[g][c] # NoClient => c \in BoundIn(g, Sessions)

\* Client k serves a connection that a session is bound to.
InUse(k) == \E g \in Groups : \E c \in BoundIn(g, Sessions) : conns[g][c] = k

\* With a reaper, a client no session is bound to is closed, unless a session
\* takes it up again; the reaper of a shutdown that has ended closes no more.
UnusedCloses ==
    ~closeOnRelease => \A k \in Clients :
        k \in open ~> (k \notin open \/ InUse(k) \/ reaper = "ended")

\* A shutdown closes every client that was open when it began, whether the
\* reaper hears it, is busy, or has not started.
ShutdownClosesAll ==
    \A k \in Clients : (k \in open /\ shutdown \in {"sending", "closing"}) ~> k \notin open

-----------------------------------------------------------------------------
(* The inductive invariant: what the two maps, and the clients that are    *)
(* open, say of each other.                                                *)

\* Clients are numbered as they are opened.
OpenNumbered == \A k \in open : k <= opened

\* What is cached is open, and cached once.
CachedOpen ==
    \A g \in Groups, c \in Connections : conns[g][c] # NoClient => conns[g][c] \in open
CachedOnce ==
    \A g, h \in Groups, c, d \in Connections :
        conns[g][c] # NoClient /\ conns[g][c] = conns[h][d] => g = h /\ c = d

\* What a session holds is the cached client of a connection it is bound to.
HeldBound ==
    ~hardClosed => \A s \in Sessions, c \in Connections :
        held[s][c] # NoClient => c \in bound[s] /\ conns[GroupOf[s]][c] = held[s][c]

IndInv ==
    /\ TypeOK /\ OpenNumbered /\ CachedOpen /\ CachedOnce /\ NothingForgotten
    /\ HeldBound /\ ReleaseClosesUnused
=============================================================================
