------------------------------ MODULE TableSync ------------------------------
(***************************************************************************)
(* The sync of one table (tablesync/workflow/workflow.go): a workflow that *)
(* runs an activity per page, and continues as new after some pages, and   *)
(* the blocks of identity values that the attempts of the activity ask it  *)
(* for, by an update, while they run                                       *)
(* (tablesync/shared/identity-allocator.go).  An attempt given up by       *)
(* Temporal, because it timed out or its worker was lost, may still run.   *)
(***************************************************************************)
EXTENDS Naturals, Sequences

CONSTANTS
    Columns,        \* the columns with a cursor
    Workers, None,  \* what runs an attempt, and no one
    Rows,           \* how many rows each page of the table has
    BlockSize,      \* values in a block, 1000 in the code
    MaxIterations,  \* pages a run of the workflow syncs, 100 in the code
    MaxTries,       \* MaximumAttempts of the activity
    MaxValue        \* bound on the values the cursors reach

Pages == 1..Len(Rows)
Values == 1..MaxValue

ASSUME RowsAssumption == Rows \in Seq(Nat) /\ Rows # <<>>
ASSUME BoundsAssumption ==
    /\ BlockSize \in Nat \ {0} /\ MaxIterations \in Nat \ {0}
    /\ MaxTries \in Nat \ {0} /\ MaxValue \in Nat
ASSUME WorkersAssumption == None \notin Workers /\ None \notin Columns

VARIABLES
    phase,      \* of the table: its pages, or how they ended
    run,        \* how many runs of the workflow went before this one
    iterations, \* pages this run has started
    page,       \* the page the continuation token stands for
    sums,       \* rows and retries so far, and whether a page was not counted
    cursor,     \* the cursor of each column
    awaited,    \* the attempt the workflow waits for
    tries,      \* attempts of the page that failed
    attempt,    \* what each worker runs
    given       \* history: the values given to each column
vars == <<phase, run, iterations, page, sums, cursor, awaited, tries, attempt,
          given>>
table == <<phase, run, iterations, page, sums, awaited, tries>>

\* An attempt: its allocators, one per column, and the update it waits for.
Attempt == [on : BOOLEAN, run : Nat,
            block : [Columns -> SUBSET Values], used : [Columns -> SUBSET Values],
            asks : Columns \cup {None}, reply : SUBSET Values]

NoBlocks == [c \in Columns |-> {}]
Gone == [on |-> FALSE, run |-> 0, block |-> NoBlocks, used |-> NoBlocks,
         asks |-> None, reply |-> {}]

TypeOK ==
    /\ phase \in {"pages", "done", "failed"}
    /\ run \in Nat /\ iterations \in 0..MaxIterations /\ page \in Pages
    /\ sums \in [rows : Nat, retries : Nat, uncounted : BOOLEAN]
    /\ cursor \in [Columns -> 0..(MaxValue + 1)]
    /\ awaited \in Workers \cup {None} /\ tries \in 0..MaxTries
    /\ attempt \in [Workers -> Attempt]
    /\ given \in [Columns -> SUBSET Values]

Init ==
    /\ phase = "pages" /\ run = 0 /\ iterations = 0 /\ page = 1
    /\ sums = [rows |-> 0, retries |-> 0, uncounted |-> FALSE]
    /\ cursor = [c \in Columns |-> 0]
    /\ awaited = None /\ tries = 0
    /\ attempt = [w \in Workers |-> Gone]
    /\ given = [c \in Columns |-> {}]
-----------------------------------------------------------------------------
(* The activity.                                                           *)

Becomes(w, a) == attempt' = [attempt EXCEPT ![w] = a]

\* The workflow asks for a page, or Temporal for it again; an attempt starts
\* with allocators that have no block, and addresses the run that asked.
StartAttempt(w) ==
    /\ phase = "pages" /\ awaited = None
    /\ ~attempt[w].on
    /\ iterations' = IF tries = 0 THEN iterations + 1 ELSE iterations
    /\ Becomes(w, [Gone EXCEPT !.on = TRUE, !.run = run])
    /\ awaited' = w
    /\ UNCHANGED <<phase, run, page, sums, tries, cursor, given>>

\* Wrong: every retry is the first.
AttemptFailsAgain ==
    /\ awaited # None
    /\ awaited' = None
    /\ tries' = 1
    /\ UNCHANGED <<phase, run, iterations, page, sums, cursor, attempt, given>>

\* Temporal gives up on the attempt, which may not know.
AttemptFails ==
    /\ awaited # None
    /\ awaited' = None
    /\ tries' = tries + 1
    /\ phase' = IF tries + 1 = MaxTries THEN "failed" ELSE phase
    /\ UNCHANGED <<run, iterations, page, sums, cursor, attempt, given>>

\* An attempt nobody waits for ends, or an update refused or unanswered, or a
\* value not found in two blocks, ends it.
AttemptEnds(w) ==
    /\ attempt[w].on
    /\ Becomes(w, Gone)
    /\ UNCHANGED <<table, cursor, given>>

\* Wrong: what was read by the attempts that failed counts too.
CountedEachTry(rows, counted) ==
    [rows |-> sums.rows + (IF counted THEN rows * (tries + 1) ELSE 0),
     retries |-> sums.retries + tries,
     uncounted |-> sums.uncounted \/ ~counted]

\* Athanor counts the rows a page read; Benthos does not.
Counted(rows, counted) ==
    [rows |-> sums.rows + (IF counted THEN rows ELSE 0),
     retries |-> sums.retries + tries,
     uncounted |-> sums.uncounted \/ ~counted]

\* The answer of the attempt the workflow waits for: the token of the next
\* page, and what was counted.
Answered(w, counted) ==
    /\ awaited = w /\ attempt[w].on /\ attempt[w].asks = None
    /\ sums' = Counted(Rows[page], counted)
    /\ Becomes(w, Gone)
    /\ awaited' = None /\ tries' = 0
    /\ UNCHANGED <<cursor, given>>

LastPage(w, counted) ==
    /\ page + 1 \notin Pages
    /\ Answered(w, counted)
    /\ phase' = "done"
    /\ UNCHANGED <<run, iterations, page>>

NextPage(w, counted) ==
    /\ page + 1 \in Pages /\ iterations < MaxIterations
    /\ Answered(w, counted)
    /\ page' = page + 1
    /\ UNCHANGED <<phase, run, iterations>>

\* The next run takes the token, the sums and the cursors over.  The handler
\* of an update never waits, so that none is left when the run ends.
ContinueAsNew(w, counted) ==
    /\ page + 1 \in Pages /\ iterations = MaxIterations
    /\ Answered(w, counted)
    /\ page' = page + 1
    /\ run' = run + 1 /\ iterations' = 0
    /\ UNCHANGED phase
-----------------------------------------------------------------------------
(* The values.                                                             *)

\* A row wants a value other than its own, and the allocator has no block,
\* has used it up, or drew, by chance, only used values and the row's own.
AskBlock(w, c) ==
    /\ attempt[w].on /\ attempt[w].asks = None
    /\ Becomes(w, [attempt[w] EXCEPT !.asks = c])
    /\ UNCHANGED <<table, cursor, given>>

\* The first block starts at 1.
StartValue(c) == IF cursor[c] = 0 THEN 1 ELSE cursor[c]

\* Wrong: the end of a block is in it.
BlockWithEnd(c) == StartValue(c)..(StartValue(c) + BlockSize)

Block(c) == StartValue(c)..(StartValue(c) + BlockSize - 1)
NextCursor(c) == StartValue(c) + BlockSize

\* The update reaches the run it is addressed to, as long as that is open.  An
\* update is sent without an id of its own (GetNextBlock), so that the one of
\* an attempt tried again is another update, and raises the cursor again.
AllocateBlock(w) ==
    /\ attempt[w].on /\ attempt[w].asks # None /\ attempt[w].reply = {}
    /\ phase = "pages" /\ attempt[w].run = run
    /\ NextCursor(attempt[w].asks) <= MaxValue + 1
    /\ cursor' = [cursor EXCEPT ![attempt[w].asks] = NextCursor(attempt[w].asks)]
    /\ Becomes(w, [attempt[w] EXCEPT !.reply = Block(attempt[w].asks)])
    /\ UNCHANGED <<table, given>>

TakeBlock(w) ==
    /\ attempt[w].on /\ attempt[w].reply # {}
    /\ Becomes(w, [attempt[w] EXCEPT
            !.block = [attempt[w].block EXCEPT ![attempt[w].asks] = attempt[w].reply],
            !.used = [attempt[w].used EXCEPT ![attempt[w].asks] = {}],
            !.asks = None,
            !.reply = {}])
    /\ UNCHANGED <<table, cursor, given>>

\* A value of the block that was not used, and is not the input.
GiveValue(w, c) ==
    /\ attempt[w].on /\ attempt[w].asks = None
    /\ \E v \in attempt[w].block[c] \ attempt[w].used[c] :
          /\ Becomes(w, [attempt[w] EXCEPT
                    !.used = [attempt[w].used EXCEPT ![c] = attempt[w].used[c] \cup {v}]])
          /\ given' = [given EXCEPT ![c] = @ \cup {v}]
    /\ UNCHANGED <<table, cursor>>

Ends(w) == \E counted \in BOOLEAN :
    LastPage(w, counted) \/ NextPage(w, counted) \/ ContinueAsNew(w, counted)

Next ==
    \/ AttemptFails
    \/ \E w \in Workers :
          \/ StartAttempt(w) \/ AttemptEnds(w) \/ Ends(w)
          \/ AllocateBlock(w) \/ TakeBlock(w)
          \/ \E c \in Columns : AskBlock(w, c) \/ GiveValue(w, c)

\* A worker takes the page once one is free, attempts that are given up end,
\* and an attempt that does not answer times out.
Fairness ==
    /\ WF_vars(\E w \in Workers : StartAttempt(w))
    /\ WF_vars(AttemptFails)
    /\ \A w \in Workers : WF_vars(AttemptEnds(w) /\ awaited # w)

Spec == Init /\ [][Next]_vars /\ Fairness
-----------------------------------------------------------------------------
(* Properties.                                                             *)

\* The detailed specification gives fresh values, and those only, although a
\* retry, on another worker or after a restart, has lost the values used: it is
\* given another block.  The comment of SingleIdentityAllocator
\* (identity-allocator.go:143-147) says it is given the same block again.
Fresh == INSTANCE FreshValues
IdentitiesAreFresh == Fresh!Spec

RowsTo[p \in Nat] == IF p = 0 THEN 0 ELSE Rows[p] + RowsTo[p - 1]
\* The pages that are done have been counted once each, whatever failed
\* and was tried again, and whichever runs of the workflow synced it; or it
\* says that its sum falls short.
SumsAreExact ==
    LET read == RowsTo[IF phase = "done" THEN page ELSE page - 1]
    IN  sums.rows <= read /\ (~sums.uncounted => sums.rows = read)

\* The pages follow each other to the last one, or one of them fails for good.
TableEnds == <>(phase # "pages")

-----------------------------------------------------------------------------
(* The inductive invariant: no value an allocator may still give was given *)
(* before, is another's to give, or is in a block still to come.           *)

\* What the attempt of a worker may still give to a column.
MayGive(w, c) ==
    (attempt[w].block[c] \ attempt[w].used[c])
        \cup (IF attempt[w].asks = c THEN attempt[w].reply ELSE {})

RepliesAreAsked == \A w \in Workers : attempt[w].asks = None => attempt[w].reply = {}
NotYetGiven ==
    \A w \in Workers, c \in Columns : \A v \in MayGive(w, c) :
        v \notin given[c] /\ v < StartValue(c)
GivenIsBehind == \A c \in Columns : \A v \in given[c] : v < StartValue(c)
HeldOnce ==
    \A w, x \in Workers, c \in Columns :
        w # x => MayGive(w, c) \cap MayGive(x, c) = {}

\* A table at its pages has a try left, and its run room for the page.
RoomForPage ==
    /\ awaited # None => phase = "pages"
    /\ phase = "pages" => tries < MaxTries
    /\ phase = "pages" /\ awaited = None /\ tries = 0 => iterations < MaxIterations

IndInv ==
    /\ TypeOK /\ RoomForPage
    /\ RepliesAreAsked /\ NotYetGiven /\ GivenIsBehind /\ HeldOnce
=============================================================================
