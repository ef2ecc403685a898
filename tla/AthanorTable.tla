---------------------------- MODULE AthanorTable ----------------------------
(***************************************************************************)
(* A table written by the Athanor runner (worker/pkg/athanor/runner): an   *)
(* insert pass that gives its rows new keys and publishes them in Redis,   *)
(* an update pass that fills in the reference of a row to another of the   *)
(* table, and the insert of a table that references it.  Each page is      *)
(* written in a transaction of the destination; Redis is outside of it.    *)
(* An attempt that Temporal has given up on may go on beside its retry.    *)
(***************************************************************************)
EXTENDS Integers, Sequences, FiniteSets

CONSTANTS
    MaxRow,         \* the rows of the table, numbered in the order read
    Boss,           \* the row a row references, or 0
    MaxChild,       \* the rows of the other table, numbered as well
    ParentOf,       \* the row each of them references
    Nullable,       \* those whose reference may be cleared
    Keys, None,     \* new keys, and none
    Transforms,     \* what a transformer may make of the key of each row
    Missing,        \* what each mandatory foreign key finds no parent for
    Policies,       \* OnConflict: "none" fails, "nothing" skips
    PageLimit, BatchSize,
    Workers, MaxFaults

Rows == 1..MaxRow
Children == 1..MaxChild

ASSUME TableAssumption ==
    /\ MaxRow \in Nat /\ Boss \in [Rows -> 0..MaxRow]
    /\ MaxChild \in Nat /\ ParentOf \in [Children -> Rows] /\ Nullable \subseteq Children
ASSUME KeysAssumption ==
    /\ None \notin Keys /\ None \notin Workers /\ "absent" \notin Keys \cup {None}
    /\ Transforms \subseteq [Rows -> SUBSET Keys]
    /\ Missing \subseteq Seq(SUBSET Rows) /\ Policies \subseteq {"none", "nothing"}
ASSUME PageAssumption ==
    PageLimit \in Nat \ {0} /\ BatchSize \in Nat \ {0} /\ MaxFaults \in Nat

VARIABLES
    become, missing, onConflict,    \* the job: chosen once
    pass,       \* "insert", "update", "children", or "done"
    after,      \* the last row read by the pages done
    discarded,  \* rows the pages of the insert pass left out
    awaited,    \* the worker whose answer the workflow waits for
    tries,      \* attempts of the page that failed
    attempt,    \* what each worker runs
    store,      \* Redis: the key published for each row
    dest,       \* the table: the row each key holds, and its reference
    childDest,  \* the other table: the reference of each row written
    refused,    \* history: an insert met a key that was there
    faults
job == <<become, missing, onConflict>>
workflow == <<pass, after, discarded, awaited, tries>>
destination == <<dest, childDest>>
vars == <<job, workflow, attempt, store, destination, refused, faults>>

\* An attempt of a page: the last row it read and how many, the rows it left
\* out, the keys to publish of its batch, and what it wrote.
NoKeys == [r \in Rows |-> None]
Idle == [pc |-> "off", pass |-> "insert", retry |-> FALSE, after |-> 0, read |-> 0,
         discarded |-> 0, keys |-> NoKeys, tx |-> {}]

AttemptType ==
    [pc : {"off", "page", "publish", "answer"}, pass : {"insert", "update", "children"},
     retry : BOOLEAN, after : Nat, read : 0..PageLimit, discarded : Nat,
     keys : [Rows -> Keys \cup {None}],
     tx : SUBSET ((Keys \cup Children) \X (Rows \cup Keys \cup {None}))]
TypeOK ==
    /\ become \in Transforms /\ missing \in Missing /\ onConflict \in Policies
    /\ pass \in {"insert", "update", "children", "done"}
    /\ after \in Nat /\ discarded \in Nat /\ tries \in Nat /\ faults \in 0..MaxFaults
    /\ awaited \in Workers \cup {None}
    /\ attempt \in [Workers -> AttemptType]
    /\ store \in [Rows -> Keys \cup {None}]
    /\ dest \in [Keys -> [row : 0..MaxRow, boss : Keys \cup {None}]]
    /\ childDest \in [Children -> Keys \cup {None, "absent"}]
    /\ refused \in BOOLEAN

Init ==
    /\ become \in Transforms /\ missing \in Missing /\ onConflict \in Policies
    /\ pass = "insert" /\ after = 0 /\ discarded = 0 /\ awaited = None /\ tries = 0
    /\ attempt = [w \in Workers |-> Idle]
    /\ store = NoKeys
    /\ dest = [k \in Keys |-> [row |-> 0, boss |-> None]]
    /\ childDest = [c \in Children |-> "absent"]
    /\ refused = FALSE /\ faults = 0
-----------------------------------------------------------------------------
(* The page an attempt reads.                                              *)

LastOf(p) == IF p = "children" THEN MaxChild ELSE MaxRow
Least(m, n) == IF m < n THEN m ELSE n

\* Wrong: the query of the page has no limit.
BatchLenUnlimited(a) == Least(BatchSize, LastOf(a.pass) - a.after)

\* How many rows the next batch takes: the page, or the table, may end first.
BatchLen(a) == Least(Least(BatchSize, PageLimit - a.read), LastOf(a.pass) - a.after)
Batch(a) == (a.after + 1)..(a.after + BatchLen(a))

Becomes(w, a) == attempt' = [attempt EXCEPT ![w] = a]

\* The page of the attempt is through, and its transaction commits.
ReadAll(a) == a.pc = "page" /\ BatchLen(a) = 0
Reads(a, p) == a.pc = "page" /\ a.pass = p /\ BatchLen(a) > 0
ReadOn(a) == [a EXCEPT !.after = @ + BatchLen(a), !.read = @ + BatchLen(a)]
-----------------------------------------------------------------------------
(* The writers of the insert pass.                                         *)

\* The position of x in S, and of row r in the batch that follows row `after`.
Rank(S, x) == Cardinality({y \in S : y <= x})

\* Wrong: the positions are taken to be those of the batch.
DroppedByRow(surviving, D) == surviving \ D

\* keyPublisher.dropped: a writer left out the rows at the positions D of
\* those it was given, which are the ones that were left.
Dropped(surviving, D) == {i \in surviving : Rank(surviving, i) \notin D}

MissingIn(rows, miss) == {Rank(rows, r) : r \in rows \cap miss}

\* Wrong: the count is set where it should be raised.
CheckCountsLast(st, miss) ==
    [rows |-> st.rows \ miss,
     surviving |-> Dropped(st.surviving, MissingIn(st.rows, miss)),
     discarded |-> Cardinality(MissingIn(st.rows, miss))]

\* Each foreign key in its turn: the rows that are left and their positions,
\* and the count of those left out.
Check(st, miss) ==
    [rows |-> st.rows \ miss,
     surviving |-> Dropped(st.surviving, MissingIn(st.rows, miss)),
     discarded |-> st.discarded + Cardinality(MissingIn(st.rows, miss))]
Checked(a) ==
    LET st[n \in 0..Len(missing)] ==
          IF n = 0 THEN [rows |-> Batch(a), surviving |-> 1..BatchLen(a),
                         discarded |-> a.discarded]
          ELSE Check(st[n - 1], missing[n])
    IN  st[Len(missing)]

\* Wrong: a retry inserts as the first attempt does.
PolicyAsConfigured(a) == onConflict

\* A retry leaves the rows that are there as they are.
Policy(a) == IF a.retry THEN "nothing" ELSE onConflict

\* The rows an insert puts in: their key is not there, nor in the transaction,
\* nor that of a row before.
Inserted(tx, rows, keys) ==
    {r \in rows : /\ dest[keys[r]].row = 0 /\ \A p \in tx : p[1] # keys[r]
                  /\ \A s \in rows : s < r => keys[s] # keys[r]}

\* A key that another transaction is about to insert is waited for.
Locked(w, k) == \E x \in Workers \ {w} : attempt[x].pass = "insert"
                    /\ \E p \in attempt[x].tx : p[1] = k

\* The keys of a batch, as the transformers make them.
InsertBatch(w, keys) ==
    LET a == attempt[w]
        kept == Checked(a)
        new == Inserted(a.tx, kept.rows, keys)
    IN  /\ Reads(a, "insert")
        /\ \A r \in Batch(a) : keys[r] \in become[r]
        /\ \A r \in kept.rows : ~Locked(w, keys[r])
        /\ \/ /\ Policy(a) = "nothing" \/ new = kept.rows
              /\ Becomes(w, [ReadOn(a) EXCEPT
                    !.pc = "publish", !.discarded = kept.discarded,
                    !.tx = @ \cup {<<keys[r], r>> : r \in new},
                    !.keys = [r \in Rows |-> IF r \in Batch(a) /\ r - a.after \in kept.surviving
                                            THEN keys[r] ELSE None]])
              /\ UNCHANGED <<awaited, tries, refused>>
           \/ /\ Policy(a) = "none" /\ new # kept.rows
              /\ Becomes(w, Idle)
              /\ refused' = (refused \/ awaited = w)
              /\ awaited' = IF awaited = w THEN None ELSE awaited
              /\ tries' = IF awaited = w THEN tries + 1 ELSE tries
        /\ UNCHANGED <<job, pass, after, discarded, store, destination, faults>>

\* keyPublisher: once the writers under it are through, and before the commit.
Publish(w) ==
    LET a == attempt[w]
    IN  /\ a.pc = "publish"
        /\ store' = [r \in Rows |-> IF a.keys[r] # None THEN a.keys[r] ELSE store[r]]
        /\ Becomes(w, [a EXCEPT !.pc = "page", !.keys = NoKeys])
        /\ UNCHANGED <<job, workflow, destination, refused, faults>>
-----------------------------------------------------------------------------
(* The update pass, and the table that references this one.                *)

\* The row by the key it was given, unless it has none or nothing to fill in.
UpdateBatch(w) ==
    LET a == attempt[w]
        filled == {r \in Batch(a) : Boss[r] # 0 /\ store[r] # None /\ store[Boss[r]] # None}
    IN  /\ Reads(a, "update")
        /\ Becomes(w, [ReadOn(a) EXCEPT !.tx = @ \cup {<<store[r], store[Boss[r]]>> : r \in filled}])
        /\ UNCHANGED <<job, workflow, store, destination, refused, faults>>

\* Wrong: a mandatory reference is written although its parent is not known.
WrittenAnyway(c) == TRUE

\* A row whose mandatory parent was never published is left out.
Written(c) == c \in Nullable \/ store[ParentOf[c]] # None

ChildBatch(w) ==
    LET a == attempt[w]
        written == {c \in Batch(a) : Written(c)}
    IN  /\ Reads(a, "children")
        /\ Becomes(w, [ReadOn(a) EXCEPT !.tx = @ \cup {<<c, store[ParentOf[c]]>> : c \in written}])
        /\ UNCHANGED <<job, workflow, store, destination, refused, faults>>
-----------------------------------------------------------------------------
(* The transaction and the answer.                                         *)

Commit(w) ==
    LET a == attempt[w]
        Has(x) == \E p \in a.tx : p[1] = x
        Put(x) == (CHOOSE p \in a.tx : p[1] = x)[2]
    IN  /\ ReadAll(a)
        /\ dest' = [k \in Keys |->
              IF a.pass = "insert" /\ Has(k) THEN [row |-> Put(k), boss |-> None]
              ELSE IF a.pass = "update" /\ Has(k) /\ dest[k].row # 0
              THEN [dest[k] EXCEPT !.boss = Put(k)]
              ELSE dest[k]]
        /\ childDest' = [c \in Children |->
              IF a.pass = "children" /\ Has(c) /\ childDest[c] = "absent"
              THEN Put(c) ELSE childDest[c]]
        /\ Becomes(w, [a EXCEPT !.pc = "answer", !.tx = {}])
        /\ UNCHANGED <<job, workflow, store, refused, faults>>

\* Wrong: a page that is just full is taken to be the last.
HasMoreThanFull(a) == a.read > PageLimit

\* A page that is full is followed by another, which may be empty.
HasMore(a) == a.read >= PageLimit

NextPass == [insert |-> "update", update |-> "children", children |-> "done"]

Answer(w) ==
    LET a == attempt[w]
    IN  /\ awaited = w /\ a.pc = "answer"
        /\ IF HasMore(a) THEN after' = a.after /\ UNCHANGED pass
                         ELSE after' = 0 /\ pass' = NextPass[pass]
        /\ discarded' = discarded + a.discarded
        /\ awaited' = None /\ tries' = 0
        /\ Becomes(w, Idle)
        /\ UNCHANGED <<job, store, destination, refused, faults>>
-----------------------------------------------------------------------------
(* Temporal.                                                               *)

StartAttempt(w) ==
    /\ pass # "done" /\ awaited = None /\ attempt[w].pc = "off"
    /\ awaited' = w
    /\ Becomes(w, [Idle EXCEPT !.pc = "page", !.pass = pass, !.after = after,
                               !.retry = (tries > 0)])
    /\ UNCHANGED <<job, pass, after, discarded, tries, store, destination, refused, faults>>

\* An attempt fails, times out, or its answer is lost: it has ended, which
\* rolls its transaction back, or it goes on.
AttemptFails ==
    /\ awaited # None /\ faults < MaxFaults
    /\ awaited' = None /\ tries' = tries + 1 /\ faults' = faults + 1
    /\ Becomes(awaited, Idle) \/ UNCHANGED attempt
    /\ UNCHANGED <<job, pass, after, discarded, store, destination, refused>>

\* An attempt nobody waits for ends.
AttemptEnds(w) ==
    /\ awaited # w /\ attempt[w].pc # "off"
    /\ Becomes(w, Idle)
    /\ UNCHANGED <<job, workflow, store, destination, refused, faults>>

InsertSome(w) ==
    \E keys \in [Batch(attempt[w]) -> Keys] : InsertBatch(w, keys)

Next ==
    \/ AttemptFails
    \/ \E w \in Workers :
          \/ StartAttempt(w) \/ AttemptEnds(w) \/ Answer(w) \/ Commit(w)
          \/ InsertSome(w) \/ Publish(w) \/ UpdateBatch(w) \/ ChildBatch(w)

Spec == Init /\ [][Next]_vars
-----------------------------------------------------------------------------
(* Properties.                                                             *)

Deterministic == \A r \in Rows : \E k \in Keys : become[r] = {k}
\* No two rows may be given one key.
KeepsApart == \A r, s \in Rows : r # s => become[r] \cap become[s] = {}

LeftOut == UNION {missing[i] : i \in 1..Len(missing)}
Held(r) == {k \in Keys : dest[k].row = r}

\* A reference in the destination is to a row that is there, whatever page
\* fails, is tried again, or is still written by an attempt given up on; the
\* transformer has to be deterministic, or that attempt publishes other keys.
ReferencesHold ==
    Deterministic =>
        /\ \A k \in Keys : dest[k].boss # None => dest[dest[k].boss].row # 0
        /\ \A c \in Children : childDest[c] \in Keys => dest[childDest[c]].row # 0

\* It is to the row it was to in the source, as long as the transformer keeps
\* keys apart, and a reference is cleared only when that row was left out.
ReferencesFollow ==
    Deterministic /\ KeepsApart =>
        /\ \A k \in Keys : dest[k].boss # None => dest[dest[k].boss].row = Boss[dest[k].row]
        /\ pass \in {"children", "done"} =>
             \A k \in Keys : dest[k].row # 0 /\ Boss[dest[k].row] \in Rows \ LeftOut
                               => dest[k].boss # None
        /\ \A c \in Children :
             childDest[c] \in Keys => dest[childDest[c]].row = ParentOf[c]
        /\ pass = "done" => \A c \in Children :
             /\ ParentOf[c] \notin LeftOut => childDest[c] \in Keys
             /\ ParentOf[c] \in LeftOut =>
                  childDest[c] = IF c \in Nullable THEN None ELSE "absent"

\* Once its insert pass is through, the destination has each row of the table
\* once, and none of those that were to be left out.
RowsWhole ==
    Deterministic /\ KeepsApart /\ pass # "insert" =>
        \A r \in Rows : Cardinality(Held(r)) = IF r \in LeftOut THEN 0 ELSE 1

\* The count of the rows left out is theirs, whatever was tried again.
DiscardedIsExact ==
    pass # "insert" => discarded = Cardinality(LeftOut)

\* No page fails on the rows an attempt before it has written.
RetriesGoThrough == KeepsApart => ~refused
-----------------------------------------------------------------------------
(* The inductive invariant behind them.                                    *)

Runs(a, p) == a.pc # "off" /\ a.pass = p
IsThere(k) == dest[k].row # 0

\* An attempt writes for the pass it was started for, which may be over; one
\* of a later pass than the insert's only runs once that is over.
WritesOf(p) == IF p = "insert" THEN Keys \X Rows
               ELSE IF p = "update" THEN Keys \X Keys
               ELSE Children \X (Keys \cup {None})
AttemptFacts(a) ==
    /\ a.tx \subseteq WritesOf(a.pass)
    /\ a.read <= a.after /\ a.after <= LastOf(a.pass)
    /\ a.pc = "off" => a = Idle
    /\ a.pc = "publish" => a.pass = "insert"
    /\ a.pc # "publish" => a.keys = NoKeys
    /\ a.pc = "answer" => a.tx = {} /\ BatchLen(a) = 0
    /\ a.pass # "insert" => a.discarded = 0 /\ pass # "insert"
    /\ a.pass = "children" => pass \in {"children", "done"}

\* The attempt the workflow waits for is of the page it is at.
AwaitedFacts ==
    /\ pass # "done" => after <= LastOf(pass)
    /\ awaited # None =>
          LET a == attempt[awaited]
          IN  Runs(a, pass) /\ a.after - a.read = after /\ (~a.retry => tries = 0)

\* Keys and references are those of rows that were not left out.
Kept(r) == r \in Rows \ LeftOut
KeyOf(k, r) == Kept(r) /\ k \in become[r]
Refers(k, b) == \E r \in Rows : KeyOf(k, r) /\ Boss[r] # 0 /\ KeyOf(b, Boss[r])
ChildRefers(c, b) == IF b = None THEN c \in Nullable /\ ~Kept(ParentOf[c])
                     ELSE KeyOf(b, ParentOf[c])
AttemptTrue(a) ==
    /\ \A r \in Rows : a.keys[r] # None => KeyOf(a.keys[r], r)
    /\ a.pass = "insert" => \A p \in a.tx : KeyOf(p[1], p[2]) /\ p[2] <= a.after
    /\ a.pass = "update" => \A p \in a.tx : Refers(p[1], p[2])
    /\ a.pass = "children" => \A p \in a.tx : ChildRefers(p[1], p[2])
StoreTrue == \A r \in Rows : store[r] # None => KeyOf(store[r], r)
RowsTrue == \A k \in Keys : IsThere(k) => KeyOf(k, dest[k].row)
BossesTrue ==
    \A k \in Keys : dest[k].boss # None => pass # "insert" /\ IsThere(k) /\ Refers(k, dest[k].boss)
ChildrenTrue ==
    \A c \in Children : childDest[c] # "absent" => pass # "insert" /\ ChildRefers(c, childDest[c])

\* Two transactions never hold one key, nor one that is there.
FreshKeys ==
    \A w \in Workers : attempt[w].pass = "insert" =>
        \A p \in attempt[w].tx :
            /\ ~IsThere(p[1]) /\ ~Locked(w, p[1])

\* How far the pages done, and the attempt waited for, have come in a pass.
Through(p, r) ==
    \/ pass = p /\ r <= after
    \/ p = "insert" /\ pass # "insert"
    \/ p = "update" /\ pass \in {"children", "done"}
    \/ p = "children" /\ pass = "done"
InHand(p, r) == /\ awaited # None /\ attempt[awaited].pass = p
                /\ after < r /\ r <= attempt[awaited].after
Wrote(x) == \E p \in attempt[awaited].tx : p[1] = x

Published ==
    \A r \in Rows \ LeftOut :
        /\ Through("insert", r) => store[r] # None
        /\ InHand("insert", r) => store[r] # None \/ attempt[awaited].keys[r] # None
WrittenRows ==
    Deterministic => \A r \in Rows \ LeftOut : \A k \in become[r] :
        /\ Through("insert", r) => IsThere(k)
        /\ InHand("insert", r) => IsThere(k) \/ Wrote(k)
WrittenBosses ==
    Deterministic => \A r \in Rows \ LeftOut : Boss[r] \in Rows \ LeftOut => \A k \in become[r] :
        /\ Through("update", r) => dest[k].boss # None
        /\ InHand("update", r) => dest[k].boss # None \/ Wrote(k)
WrittenChildren ==
    \A c \in Children : c \in Nullable \/ Kept(ParentOf[c]) =>
        /\ Through("children", c) => childDest[c] # "absent"
        /\ InHand("children", c) => childDest[c] # "absent" \/ Wrote(c)

\* The count of the rows left out up to there.
LeftOutIn(first, last) == Cardinality(LeftOut \cap (first + 1)..last)
Counted ==
    /\ pass = "insert" => discarded = LeftOutIn(0, after)
    /\ pass # "insert" => discarded = Cardinality(LeftOut)
    /\ pass = "insert" /\ awaited # None =>
          attempt[awaited].discarded = LeftOutIn(after, attempt[awaited].after)

\* An attempt given up on is of an earlier page, or its page is tried again;
\* no row is ahead of the first attempt of a page, nor of a page tried again.
Stale ==
    pass = "insert" => \A w \in Workers :
        LET a == attempt[w]
        IN  Runs(a, "insert") /\ w # awaited =>
              \/ a.after - a.read + PageLimit <= after
              \/ a.after - a.read = after /\ tries > 0
Reach == IF tries > 0 THEN after + PageLimit
         ELSE IF awaited # None THEN attempt[awaited].after ELSE after
NotAhead == pass = "insert" => \A k \in Keys : dest[k].row <= Reach

TypeInv == TypeOK /\ (\A w \in Workers : AttemptFacts(attempt[w])) /\ AwaitedFacts
KeyInv ==
    /\ \A w \in Workers : AttemptTrue(attempt[w])
    /\ StoreTrue /\ RowsTrue /\ BossesTrue /\ ChildrenTrue /\ FreshKeys
DoneInv == Published /\ WrittenRows /\ WrittenBosses /\ WrittenChildren
CountInv == Counted /\ Stale /\ NotAhead /\ RetriesGoThrough
IndInv == TypeInv /\ KeyInv /\ DoneInv /\ CountInv
=============================================================================
