--------------------------- MODULE TableSyncProofs ---------------------------
(* Proofs about TableSync, for any table, columns, blocks and workers, and *)
(* for any number of attempts that outlive the wait for them.              *)
EXTENDS TableSync, WellFoundedInduction, TLAPS

LEMMA StartIsValue ==
  ASSUME TypeOK, NEW c \in Columns
  PROVE  StartValue(c) \in Nat /\ StartValue(c) >= 1 /\ StartValue(c) >= cursor[c]
BY BoundsAssumption DEF TypeOK, StartValue

LEMMA GoneTyped == Gone \in Attempt /\ \A c \in Columns : Gone.block[c] = {}
BY DEF Gone, Attempt, NoBlocks

(* One worker's attempt changes; it may give no more than it already could *)
(* and cursors and given values stay.                                      *)
LEMMA LessToGive ==
  ASSUME IndInv, TypeOK', RoomForPage', NEW w \in Workers, NEW a \in Attempt, Becomes(w, a),
         UNCHANGED <<cursor, given>>,
         a.asks = None => a.reply = {},
         \A c \in Columns :
             (a.block[c] \ a.used[c]) \cup (IF a.asks = c THEN a.reply ELSE {})
                 \subseteq MayGive(w, c)
  PROVE  IndInv'
<1>1. attempt' = [attempt EXCEPT ![w] = a] /\ attempt \in [Workers -> Attempt]
  BY DEF Becomes, IndInv, TypeOK
<1>2. attempt'[w] = a /\ \A x \in Workers : x # w => attempt'[x] = attempt[x]
  BY <1>1
<1>3. \A x \in Workers, c \in Columns : MayGive(x, c)' \subseteq MayGive(x, c)
  BY <1>2 DEF MayGive
<1>4. RepliesAreAsked'
  BY <1>2 DEF IndInv, RepliesAreAsked
<1>5. \A c \in Columns : StartValue(c)' = StartValue(c)
  BY DEF StartValue
<1>6. NotYetGiven'
  BY <1>3, <1>5 DEF IndInv, NotYetGiven
<1>7. GivenIsBehind'
  BY <1>5 DEF IndInv, GivenIsBehind
<1>8. HeldOnce'
  <2> SUFFICES ASSUME NEW x \in Workers, NEW y \in Workers, NEW c \in Columns, x # y
               PROVE  (MayGive(x, c) \cap MayGive(y, c) = {})'
    BY DEF HeldOnce
  <2>1. MayGive(x, c) \cap MayGive(y, c) = {}
    BY DEF IndInv, HeldOnce
  <2> QED BY <2>1, <1>3
<1> QED BY <1>4, <1>6, <1>7, <1>8 DEF IndInv

(* Nothing but the table changes.                                          *)
LEMMA TableMoves ==
  ASSUME IndInv, TypeOK', RoomForPage', UNCHANGED <<attempt, cursor, given>>
  PROVE  IndInv'
<1>1. \A w \in Workers, c \in Columns : MayGive(w, c)' = MayGive(w, c)
  BY DEF MayGive
<1>2. \A c \in Columns : StartValue(c)' = StartValue(c)
  BY DEF StartValue
<1> QED BY <1>1, <1>2 DEF IndInv, RepliesAreAsked, NotYetGiven, GivenIsBehind, HeldOnce

LEMMA BecomesTyped ==
  ASSUME TypeOK, NEW w \in Workers, NEW a \in Attempt, Becomes(w, a)
  PROVE  attempt' \in [Workers -> Attempt]
BY DEF TypeOK, Becomes

LEMMA InitInv == Init => IndInv
<1> SUFFICES ASSUME Init PROVE IndInv
  OBVIOUS
<1>1. TypeOK
  <2>1. attempt \in [Workers -> Attempt]
    BY GoneTyped DEF Init
  <2>2. 1 \in Pages
    BY RowsAssumption DEF Pages
  <2>3. cursor \in [Columns -> 0..(MaxValue + 1)] /\ iterations \in 0..MaxIterations
        /\ tries \in 0..MaxTries
    BY BoundsAssumption DEF Init
  <2>4. given \in [Columns -> SUBSET Values]
    BY DEF Init
  <2> QED BY <2>1, <2>2, <2>3, <2>4 DEF Init, TypeOK
<1>2. \A w \in Workers : attempt[w] = Gone
  BY DEF Init
<1>3. \A w \in Workers, c \in Columns : MayGive(w, c) = {}
  <2>1. \A c \in Columns : Gone.block[c] = {} /\ Gone.reply = {}
    BY DEF Gone, NoBlocks
  <2> QED BY <1>2, <2>1 DEF MayGive
<1>4. RepliesAreAsked
  BY <1>2 DEF RepliesAreAsked, Gone
<1>5. GivenIsBehind
  BY DEF Init, GivenIsBehind
<1>6. RoomForPage
  BY BoundsAssumption DEF Init, RoomForPage
<1> QED BY <1>1, <1>3, <1>4, <1>5, <1>6 DEF IndInv, NotYetGiven, HeldOnce

(* An attempt that starts has no block.                                    *)
LEMMA StartedTyped ==
  ASSUME NEW r \in Nat
  PROVE  LET a == [Gone EXCEPT !.on = TRUE, !.run = r]
         IN  a \in Attempt /\ a.block = NoBlocks /\ a.asks = None /\ a.reply = {}
BY GoneTyped DEF Gone, Attempt, NoBlocks

LEMMA StartAttemptInv ==
  ASSUME IndInv, NEW w \in Workers, StartAttempt(w)
  PROVE  IndInv'
<1> DEFINE a == [Gone EXCEPT !.on = TRUE, !.run = run]
<1>1. /\ Becomes(w, a) /\ UNCHANGED <<cursor, given, phase, run, page, sums, tries>>
      /\ awaited' = w
  BY DEF StartAttempt
<1>2. /\ a \in Attempt
      /\ a.block = NoBlocks /\ a.asks = None /\ a.reply = {}
  <2>1. run \in Nat
    BY DEF IndInv, TypeOK
  <2> QED BY <2>1, StartedTyped
<1> HIDE DEF a
<1>4. attempt' \in [Workers -> Attempt]
  BY <1>1, <1>2, BecomesTyped DEF IndInv
<1>5. iterations' \in 0..MaxIterations
  BY BoundsAssumption DEF IndInv, TypeOK, RoomForPage, StartAttempt
<1>6. TypeOK'
  BY <1>1, <1>4, <1>5 DEF IndInv, TypeOK
<1>7. RoomForPage'
  BY <1>1, WorkersAssumption DEF RoomForPage, StartAttempt, IndInv
<1>8. \A c \in Columns : (a.block[c] \ a.used[c]) \cup (IF a.asks = c THEN a.reply ELSE {}) = {}
  BY <1>2 DEF NoBlocks
<1> QED BY <1>1, <1>2, <1>6, <1>7, <1>8, LessToGive

LEMMA AttemptFailsInv ==
  ASSUME IndInv, AttemptFails
  PROVE  IndInv'
<1>1. /\ tries' = tries + 1 /\ phase = "pages" /\ tries < MaxTries /\ tries \in Nat
      /\ phase' = IF tries + 1 = MaxTries THEN "failed" ELSE phase
      /\ awaited' = None
      /\ UNCHANGED <<run, iterations, page, sums, cursor, attempt, given>>
  BY BoundsAssumption DEF AttemptFails, IndInv, TypeOK, RoomForPage
<1>2. tries' \in 0..MaxTries /\ (phase' = "pages" => tries' < MaxTries) /\ tries' # 0
  BY <1>1, BoundsAssumption
<1>3. TypeOK'
  BY <1>1, <1>2 DEF IndInv, TypeOK
<1>4. RoomForPage'
  BY <1>1, <1>2 DEF RoomForPage
<1> QED BY <1>1, <1>3, <1>4, TableMoves

LEMMA GoneGivesNone ==
  /\ Gone.asks = None /\ Gone.reply = {}
  /\ \A c \in Columns :
       (Gone.block[c] \ Gone.used[c]) \cup (IF Gone.asks = c THEN Gone.reply ELSE {}) = {}
BY DEF Gone, NoBlocks

LEMMA AttemptEndsInv ==
  ASSUME IndInv, NEW w \in Workers, AttemptEnds(w)
  PROVE  IndInv'
<1>1. Becomes(w, Gone) /\ UNCHANGED <<phase, run, iterations, page, sums, awaited, tries,
                                      cursor, given>>
  BY DEF AttemptEnds, table
<1>2. attempt' \in [Workers -> Attempt]
  BY <1>1, GoneTyped, BecomesTyped DEF IndInv
<1>3. TypeOK' /\ RoomForPage'
  BY <1>1, <1>2 DEF IndInv, TypeOK, RoomForPage
<1> QED BY <1>1, <1>3, GoneTyped, GoneGivesNone, LessToGive

(* An answer ends its attempt, and is counted.                             *)
LEMMA AnsweredTyped ==
  ASSUME IndInv, NEW w \in Workers, NEW counted \in BOOLEAN, Answered(w, counted)
  PROVE  /\ Becomes(w, Gone) /\ attempt' \in [Workers -> Attempt]
         /\ sums' \in [rows : Nat, retries : Nat, uncounted : BOOLEAN]
         /\ awaited' = None /\ tries' = 0 /\ UNCHANGED <<cursor, given>>
         /\ 0 < MaxTries /\ page + 1 \in Nat /\ phase = "pages"
<1>1. /\ Becomes(w, Gone) /\ sums' = Counted(Rows[page], counted)
      /\ awaited' = None /\ tries' = 0 /\ UNCHANGED <<cursor, given>> /\ awaited = w
  BY DEF Answered
<1>2. Rows[page] \in Nat /\ page \in Nat
  BY RowsAssumption DEF IndInv, TypeOK, Pages
<1>3. sums.rows \in Nat /\ sums.retries \in Nat /\ sums.uncounted \in BOOLEAN /\ tries \in Nat
  BY BoundsAssumption DEF IndInv, TypeOK
<1>4. (sums.uncounted \/ ~counted) \in BOOLEAN
  OBVIOUS
<1>5. sums' \in [rows : Nat, retries : Nat, uncounted : BOOLEAN]
  BY <1>1, <1>2, <1>3, <1>4 DEF Counted
<1>6. attempt' \in [Workers -> Attempt]
  BY <1>1, GoneTyped, BecomesTyped DEF IndInv
<1>7. phase = "pages"
  BY <1>1, WorkersAssumption DEF IndInv, RoomForPage
<1> QED BY <1>1, <1>2, <1>5, <1>6, <1>7, BoundsAssumption

LEMMA EndsInv ==
  ASSUME IndInv, NEW w \in Workers, Ends(w)
  PROVE  IndInv'
<1>1. PICK counted \in BOOLEAN :
         LastPage(w, counted) \/ NextPage(w, counted) \/ ContinueAsNew(w, counted)
  BY DEF Ends
<1>2. Answered(w, counted)
  BY <1>1 DEF LastPage, NextPage, ContinueAsNew
<1>3. /\ Becomes(w, Gone) /\ attempt' \in [Workers -> Attempt]
      /\ sums' \in [rows : Nat, retries : Nat, uncounted : BOOLEAN]
      /\ awaited' = None /\ tries' = 0 /\ UNCHANGED <<cursor, given>>
      /\ 0 < MaxTries /\ phase = "pages"
  BY <1>2, AnsweredTyped
<1>4. /\ phase' \in {"pages", "done", "failed"} /\ page' \in Pages /\ run' \in Nat
      /\ iterations' \in 0..MaxIterations
      /\ phase' = "pages" => iterations' < MaxIterations
  <2>1. CASE LastPage(w, counted)
    BY <2>1, <1>3 DEF LastPage, IndInv, TypeOK
  <2>2. CASE NextPage(w, counted)
    BY <2>2, BoundsAssumption DEF NextPage, IndInv, TypeOK
  <2>3. CASE ContinueAsNew(w, counted)
    BY <2>3, BoundsAssumption DEF ContinueAsNew, IndInv, TypeOK
  <2> QED BY <1>1, <2>1, <2>2, <2>3
<1>5. 0 \in 0..MaxTries
  BY BoundsAssumption
<1>6. TypeOK'
  BY <1>3, <1>4, <1>5 DEF IndInv, TypeOK
<1>7. RoomForPage'
  BY <1>3, <1>4 DEF RoomForPage
<1> QED BY <1>3, <1>6, <1>7, GoneTyped, GoneGivesNone, LessToGive

LEMMA AskBlockInv ==
  ASSUME IndInv, NEW w \in Workers, NEW c \in Columns, AskBlock(w, c)
  PROVE  IndInv'
<1> DEFINE a == [attempt[w] EXCEPT !.asks = c]
<1>1. /\ Becomes(w, a) /\ attempt[w].asks = None
      /\ UNCHANGED <<phase, run, iterations, page, sums, awaited, tries, cursor, given>>
  BY DEF AskBlock, table
<1>2. attempt[w] \in Attempt /\ attempt[w].reply = {}
  BY <1>1 DEF IndInv, TypeOK, RepliesAreAsked
<1>3. /\ a \in Attempt /\ a.asks = c /\ a.reply = {}
      /\ a.block = attempt[w].block /\ a.used = attempt[w].used
  BY <1>2 DEF Attempt
<1> HIDE DEF a
<1>4. attempt' \in [Workers -> Attempt]
  BY <1>1, <1>3, BecomesTyped DEF IndInv
<1>5. TypeOK' /\ RoomForPage'
  BY <1>1, <1>4 DEF IndInv, TypeOK, RoomForPage
<1>6. \A d \in Columns :
         (a.block[d] \ a.used[d]) \cup (IF a.asks = d THEN a.reply ELSE {}) \subseteq MayGive(w, d)
  BY <1>3 DEF MayGive
<1> QED BY <1>1, <1>3, <1>5, <1>6, LessToGive

(* The block is new: all values given or held are behind its start.        *)
LEMMA AllocateBlockInv ==
  ASSUME IndInv, NEW w \in Workers, AllocateBlock(w)
  PROVE  IndInv'
<1> DEFINE c == attempt[w].asks
           a == [attempt[w] EXCEPT !.reply = Block(attempt[w].asks)]
<1>1. /\ Becomes(w, a) /\ c # None /\ attempt[w].reply = {}
      /\ NextCursor(c) <= MaxValue + 1 /\ cursor' = [cursor EXCEPT ![c] = NextCursor(c)]
      /\ UNCHANGED <<phase, run, iterations, page, sums, awaited, tries, given>>
  BY DEF AllocateBlock, table
<1>2. attempt[w] \in Attempt /\ c \in Columns
  BY <1>1 DEF IndInv, TypeOK, Attempt
<1>3. StartValue(c) \in Nat /\ StartValue(c) >= 1 /\ BlockSize \in Nat \ {0}
  BY <1>2, StartIsValue, BoundsAssumption DEF IndInv
<1>4. NextCursor(c) \in 1..(MaxValue + 1) /\ StartValue(c) < NextCursor(c)
  BY <1>1, <1>3, BoundsAssumption DEF NextCursor
<1>5. \A v \in Block(c) : v \in Values /\ v >= StartValue(c) /\ v < NextCursor(c)
  BY <1>1, <1>3, BoundsAssumption DEF Block, NextCursor, Values
<1>6. Block(c) \in SUBSET Values
  BY <1>5
<1>7. /\ a \in Attempt /\ a.asks = c /\ a.reply = Block(c)
      /\ a.block = attempt[w].block /\ a.used = attempt[w].used
  BY <1>2, <1>6 DEF Attempt
<1> HIDE DEF a, c
<1>8. attempt' \in [Workers -> Attempt] /\ attempt'[w] = a
      /\ \A x \in Workers : x # w => attempt'[x] = attempt[x]
  BY <1>1, <1>7, BecomesTyped DEF IndInv, TypeOK, Becomes
<1>9. cursor \in [Columns -> 0..(MaxValue + 1)]
  BY DEF IndInv, TypeOK
<1>10. cursor' \in [Columns -> 0..(MaxValue + 1)]
  BY <1>1, <1>2, <1>4, <1>9
<1>11. TypeOK' /\ RoomForPage'
  BY <1>1, <1>8, <1>10 DEF IndInv, TypeOK, RoomForPage
<1>12. RepliesAreAsked'
  BY <1>1, <1>7, <1>8 DEF IndInv, RepliesAreAsked
<1>13. \A d \in Columns : StartValue(d)' = IF d = c THEN NextCursor(c) ELSE StartValue(d)
  BY <1>1, <1>2, <1>4, <1>9 DEF StartValue
<1>14. \A d \in Columns : StartValue(d) \in Nat
  BY StartIsValue DEF IndInv
<1>15. \A d \in Columns : StartValue(d) <= StartValue(d)'
  BY <1>3, <1>4, <1>13, <1>14
<1>16. \A x \in Workers, d \in Columns :
          MayGive(x, d)' = IF x = w /\ d = c THEN MayGive(x, d) \cup Block(c) ELSE MayGive(x, d)
  <2> SUFFICES ASSUME NEW x \in Workers, NEW d \in Columns
               PROVE  MayGive(x, d)' = IF x = w /\ d = c THEN MayGive(x, d) \cup Block(c)
                                                         ELSE MayGive(x, d)
    OBVIOUS
  <2>1. CASE x = w
    BY <2>1, <1>1, <1>7, <1>8 DEF MayGive, c
  <2>2. CASE x # w
    BY <2>2, <1>8 DEF MayGive
  <2> QED BY <2>1, <2>2
<1>17. \A x \in Workers, d \in Columns : MayGive(x, d) \subseteq Nat
  BY BoundsAssumption DEF IndInv, TypeOK, Attempt, MayGive, Values
<1>18. \A x \in Workers, d \in Columns : \A v \in MayGive(x, d) :
          v \notin given[d] /\ v < StartValue(d)
  BY DEF IndInv, NotYetGiven
<1>19. \A d \in Columns : given[d] \subseteq Nat /\ \A v \in given[d] : v < StartValue(d)
  BY BoundsAssumption DEF IndInv, TypeOK, GivenIsBehind, Values
<1>20. Block(c) \subseteq Nat
  BY <1>5, BoundsAssumption DEF Values
<1>21. NotYetGiven'
  <2> SUFFICES ASSUME NEW x \in Workers, NEW d \in Columns, NEW v \in MayGive(x, d)'
               PROVE  v \notin given[d] /\ v < StartValue(d)'
    BY <1>1 DEF NotYetGiven
  <2>1. CASE v \in MayGive(x, d)
    BY <2>1, <1>14, <1>15, <1>17, <1>18, <1>13, <1>3, <1>4
  <2>2. CASE d = c /\ v \in Block(c)
    <3>1. v \in Nat /\ v >= StartValue(c) /\ v < NextCursor(c)
      BY <2>2, <1>5, <1>20
    <3>2. v \notin given[c]
      BY <3>1, <1>19, <1>14, <1>2
    <3> QED BY <3>1, <3>2, <2>2, <1>13
  <2> QED BY <1>16, <2>1, <2>2
<1>22. GivenIsBehind'
  BY <1>1, <1>3, <1>4, <1>13, <1>14, <1>19 DEF GivenIsBehind
<1>23. HeldOnce'
  <2> SUFFICES ASSUME NEW x \in Workers, NEW y \in Workers, NEW d \in Columns, x # y
               PROVE  (MayGive(x, d) \cap MayGive(y, d) = {})'
    BY DEF HeldOnce
  <2>1. MayGive(x, d) \cap MayGive(y, d) = {}
    BY DEF IndInv, HeldOnce
  <2>2. \A z \in Workers : MayGive(z, c) \cap Block(c) = {}
    BY <1>2, <1>5, <1>14, <1>17, <1>18, <1>20
  <2> QED BY <1>16, <2>1, <2>2
<1> QED BY <1>11, <1>12, <1>21, <1>22, <1>23 DEF IndInv

LEMMA TakeBlockInv ==
  ASSUME IndInv, NEW w \in Workers, TakeBlock(w)
  PROVE  IndInv'
<1> DEFINE c == attempt[w].asks
           b == [attempt[w].block EXCEPT ![c] = attempt[w].reply]
           u == [attempt[w].used EXCEPT ![c] = {}]
           a == [attempt[w] EXCEPT !.block = b, !.used = u, !.asks = None, !.reply = {}]
<1>1. /\ Becomes(w, a) /\ attempt[w].reply # {}
      /\ UNCHANGED <<phase, run, iterations, page, sums, awaited, tries, cursor, given>>
  BY DEF TakeBlock, table
<1>2. attempt[w] \in Attempt
  BY DEF IndInv, TypeOK
<1>3. c \in Columns
  BY <1>1, <1>2 DEF IndInv, RepliesAreAsked, Attempt
<1>4. /\ b \in [Columns -> SUBSET Values] /\ u \in [Columns -> SUBSET Values]
      /\ b[c] = attempt[w].reply /\ u[c] = {}
      /\ \A d \in Columns : d # c => b[d] = attempt[w].block[d] /\ u[d] = attempt[w].used[d]
  BY <1>2, <1>3 DEF Attempt
<1> HIDE DEF b, u
<1>5. a \in Attempt /\ a.asks = None /\ a.reply = {} /\ a.block = b /\ a.used = u
  BY <1>2, <1>4 DEF Attempt
<1> HIDE DEF a
<1>6. attempt' \in [Workers -> Attempt]
  BY <1>1, <1>5, BecomesTyped DEF IndInv
<1>7. TypeOK' /\ RoomForPage'
  BY <1>1, <1>6 DEF IndInv, TypeOK, RoomForPage
<1>8. \A d \in Columns :
         (a.block[d] \ a.used[d]) \cup (IF a.asks = d THEN a.reply ELSE {}) \subseteq MayGive(w, d)
  BY <1>4, <1>5 DEF MayGive
<1> QED BY <1>1, <1>5, <1>7, <1>8, LessToGive

LEMMA GiveValueInv ==
  ASSUME IndInv, NEW w \in Workers, NEW c \in Columns, GiveValue(w, c)
  PROVE  IndInv' /\ Fresh!Next
<1>1. PICK v \in attempt[w].block[c] \ attempt[w].used[c] :
         /\ Becomes(w, [attempt[w] EXCEPT
                !.used = [attempt[w].used EXCEPT ![c] = attempt[w].used[c] \cup {v}]])
         /\ given' = [given EXCEPT ![c] = @ \cup {v}]
  BY DEF GiveValue
<1> DEFINE u == [attempt[w].used EXCEPT ![c] = attempt[w].used[c] \cup {v}]
           a == [attempt[w] EXCEPT !.used = u]
<1>2. /\ Becomes(w, a) /\ attempt[w].asks = None
      /\ UNCHANGED <<phase, run, iterations, page, sums, awaited, tries, cursor>>
  BY <1>1 DEF GiveValue, table
<1>3. attempt[w] \in Attempt
  BY DEF IndInv, TypeOK
<1>4. v \in Values
  BY <1>3 DEF Attempt
<1>5. /\ u \in [Columns -> SUBSET Values] /\ u[c] = attempt[w].used[c] \cup {v}
      /\ \A d \in Columns : d # c => u[d] = attempt[w].used[d]
  BY <1>3, <1>4 DEF Attempt
<1> HIDE DEF u
<1>6. /\ a \in Attempt /\ a.asks = None /\ a.used = u
      /\ a.block = attempt[w].block /\ a.reply = attempt[w].reply
  BY <1>2, <1>3, <1>5 DEF Attempt
<1> HIDE DEF a
<1>7. attempt' \in [Workers -> Attempt] /\ attempt'[w] = a
      /\ \A x \in Workers : x # w => attempt'[x] = attempt[x]
  BY <1>2, <1>6, BecomesTyped DEF IndInv, TypeOK, Becomes
<1>8. given \in [Columns -> SUBSET Values]
  BY DEF IndInv, TypeOK
<1>9. given' \in [Columns -> SUBSET Values] /\ given'[c] = given[c] \cup {v}
      /\ \A d \in Columns : d # c => given'[d] = given[d]
  BY <1>1, <1>4, <1>8
<1>10. TypeOK' /\ RoomForPage'
  BY <1>2, <1>7, <1>9 DEF IndInv, TypeOK, RoomForPage
<1>11. RepliesAreAsked'
  BY <1>2, <1>6, <1>7 DEF IndInv, RepliesAreAsked
<1>12. v \in MayGive(w, c)
  BY <1>1 DEF MayGive
<1>13. v \notin given[c] /\ v < StartValue(c)
  BY <1>12 DEF IndInv, NotYetGiven
<1>14. \A d \in Columns : StartValue(d)' = StartValue(d)
  BY <1>2 DEF StartValue
<1>15. \A x \in Workers, d \in Columns : MayGive(x, d)' \subseteq MayGive(x, d)
  BY <1>2, <1>5, <1>6, <1>7, WorkersAssumption DEF MayGive
<1>16. v \notin MayGive(w, c)'
  BY <1>5, <1>6, <1>7, WorkersAssumption DEF MayGive
<1>17. \A x \in Workers : v \notin MayGive(x, c)'
  BY <1>12, <1>15, <1>16 DEF IndInv, HeldOnce
<1>18. NotYetGiven'
  <2> SUFFICES ASSUME NEW x \in Workers, NEW d \in Columns, NEW z \in MayGive(x, d)'
               PROVE  z \notin given'[d] /\ z < StartValue(d)'
    BY DEF NotYetGiven
  <2>1. z \in MayGive(x, d)
    BY <1>15
  <2>2. z \notin given[d] /\ z < StartValue(d)
    BY <2>1 DEF IndInv, NotYetGiven
  <2> QED BY <2>2, <1>9, <1>14, <1>17
<1>19. GivenIsBehind'
  <2> SUFFICES ASSUME NEW d \in Columns, NEW z \in given'[d]
               PROVE  z < StartValue(d)'
    BY DEF GivenIsBehind
  <2>1. z \in given[d] \/ (d = c /\ z = v)
    BY <1>9
  <2>2. \A y \in given[d] : y < StartValue(d)
    BY DEF IndInv, GivenIsBehind
  <2> QED BY <2>1, <2>2, <1>13, <1>14
<1>20. HeldOnce'
  <2> SUFFICES ASSUME NEW x \in Workers, NEW y \in Workers, NEW d \in Columns, x # y
               PROVE  (MayGive(x, d) \cap MayGive(y, d) = {})'
    BY DEF HeldOnce
  <2>1. MayGive(x, d) \cap MayGive(y, d) = {}
    BY DEF IndInv, HeldOnce
  <2> QED BY <2>1, <1>15
<1>21. Fresh!Next
  BY <1>1, <1>4, <1>13 DEF Fresh!Next, Fresh!Give
<1> QED BY <1>10, <1>11, <1>18, <1>19, <1>20, <1>21 DEF IndInv

(* Every step keeps the invariant, and gives a fresh value or none.        *)
LEMMA NextInv == IndInv /\ [Next]_vars => IndInv' /\ [Fresh!Next]_given
<1> SUFFICES ASSUME IndInv, [Next]_vars PROVE IndInv' /\ [Fresh!Next]_given
  OBVIOUS
<1>1. CASE AttemptFails
  BY <1>1, AttemptFailsInv DEF AttemptFails
<1>2. ASSUME NEW w \in Workers, StartAttempt(w) PROVE IndInv' /\ given' = given
  BY <1>2, StartAttemptInv DEF StartAttempt
<1>3. ASSUME NEW w \in Workers, AttemptEnds(w) PROVE IndInv' /\ given' = given
  BY <1>3, AttemptEndsInv DEF AttemptEnds
<1>4. ASSUME NEW w \in Workers, Ends(w) PROVE IndInv' /\ given' = given
  BY <1>4, EndsInv DEF Ends, LastPage, NextPage, ContinueAsNew, Answered
<1>5. ASSUME NEW w \in Workers, AllocateBlock(w) PROVE IndInv' /\ given' = given
  BY <1>5, AllocateBlockInv DEF AllocateBlock
<1>6. ASSUME NEW w \in Workers, TakeBlock(w) PROVE IndInv' /\ given' = given
  BY <1>6, TakeBlockInv DEF TakeBlock
<1>7. ASSUME NEW w \in Workers, NEW c \in Columns, AskBlock(w, c)
      PROVE  IndInv' /\ given' = given
  BY <1>7, AskBlockInv DEF AskBlock
<1>8. ASSUME NEW w \in Workers, NEW c \in Columns, GiveValue(w, c)
      PROVE  IndInv' /\ Fresh!Next
  BY <1>8, GiveValueInv
<1>9. CASE UNCHANGED vars
  <2>1. TypeOK' /\ RoomForPage'
    BY <1>9 DEF vars, IndInv, TypeOK, RoomForPage
  <2> QED BY <1>9, <2>1, TableMoves DEF vars
<1> QED BY <1>1, <1>2, <1>3, <1>4, <1>5, <1>6, <1>7, <1>8, <1>9 DEF Next

(* The workflow, its attempts and their blocks are well typed, however     *)
(* many attempts outlive the wait for them.                                *)
THEOREM TypeCorrect == Spec => []TypeOK
<1>1. IndInv => TypeOK
  BY DEF IndInv
<1>2. Spec => []IndInv
  BY InitInv, NextInv, PTL DEF Spec
<1> QED BY <1>1, <1>2, PTL

(* The table sync implements FreshValues: no value of a column is given    *)
(* twice, whatever fails, is retried, lives on, or continues as new.       *)
THEOREM ValuesAreFresh == Spec => IdentitiesAreFresh
<1>1. Init => Fresh!Init
  BY DEF Init, Fresh!Init
<1>2. Spec => []IndInv
  BY InitInv, NextInv, PTL DEF Spec
<1>3. IndInv /\ [Next]_vars => [Fresh!Next]_given
  BY NextInv
<1> QED BY <1>1, <1>2, <1>3, PTL DEF Spec, IdentitiesAreFresh, Fresh!Spec

-----------------------------------------------------------------------------
(* The rows of the pages, added up by a recursive function: it has the     *)
(* values its definition gives, by induction over the sets of numbers it   *)
(* has them for.                                                           *)

LEMMA NatLeast ==
  ASSUME NEW T, T \subseteq Nat, T # {}
  PROVE  \E n \in T : \A m \in T : n <= m
<1>1. IsWellFoundedOn(OpToRel(<, Nat), Nat)
  BY NatLessThanWellFounded
<1>2. PICK n \in T : \A m \in T : <<m, n>> \notin OpToRel(<, Nat)
  BY <1>1, WFMin
<1>3. \A m \in T : ~(m < n)
  BY <1>2 DEF OpToRel
<1> QED BY <1>3

LEMMA NatSetInduction ==
  ASSUME NEW S, 0 \in S, \A n \in Nat : n \in S => n + 1 \in S
  PROVE  Nat \subseteq S
<1> SUFFICES ASSUME Nat \ S # {} PROVE FALSE
  OBVIOUS
<1>1. PICK n \in Nat \ S : \A m \in Nat \ S : n <= m
  BY NatLeast
<1>2. n # 0 /\ n - 1 \in Nat /\ n - 1 \in S
  BY <1>1
<1>3. (n - 1) + 1 \in S /\ (n - 1) + 1 = n
  BY <1>2
<1> QED BY <1>1, <1>3

\* What RowsTo says at m, of a function that is it so far; and one up to n.
RowsAt(m, g) == IF m = 0 THEN 0 ELSE Rows[m] + g[m - 1]
IsRowsTo(n, g) == g = [m \in 0..n |-> RowsAt(m, g)]

LEMMA RowsToExists ==
  \A n \in Nat : \E g : IsRowsTo(n, g)
<1> DEFINE S == {n \in Nat : \E g : IsRowsTo(n, g)}
<1>1. 0 \in S
  <2>1. IsRowsTo(0, [m \in 0..0 |-> 0])
    BY DEF IsRowsTo, RowsAt
  <2> QED BY <2>1
<1>2. ASSUME NEW n \in Nat, n \in S PROVE n + 1 \in S
  <2>1. PICK g : IsRowsTo(n, g)
    BY <1>2
  <2> DEFINE h == [m \in 0..(n + 1) |-> IF m = n + 1 THEN Rows[n + 1] + g[n] ELSE g[m]]
  <2>2. \A m \in 0..n : h[m] = g[m] /\ g[m] = RowsAt(m, g)
    BY <2>1 DEF IsRowsTo
  <2>3. h[n + 1] = Rows[n + 1] + g[n] /\ h[n] = g[n]
    OBVIOUS
  <2> HIDE DEF h
  <2>4. \A m \in 0..(n + 1) : h[m] = RowsAt(m, h)
    <3> SUFFICES ASSUME NEW m \in 0..(n + 1) PROVE h[m] = RowsAt(m, h)
      OBVIOUS
    <3>1. CASE m = n + 1
      BY <3>1, <2>3 DEF RowsAt
    <3>2. CASE m # n + 1
      <4>1. m \in 0..n /\ (m # 0 => m - 1 \in 0..n)
        BY <3>2
      <4>2. m # 0 => h[m - 1] = g[m - 1]
        BY <4>1, <2>2
      <4> QED BY <4>1, <4>2, <2>2 DEF RowsAt
    <3> QED BY <3>1, <3>2
  <2>5. h = [m \in 0..(n + 1) |-> h[m]]
    BY DEF h
  <2>6. IsRowsTo(n + 1, h)
    BY <2>4, <2>5, Zenon DEF IsRowsTo
  <2> QED BY <2>6
<1>3. Nat \subseteq S
  BY <1>1, <1>2, NatSetInduction
<1> QED BY <1>3

LEMMA RowsToUnique ==
  ASSUME NEW n \in Nat, NEW k \in Nat, NEW g, NEW h, IsRowsTo(n, g), IsRowsTo(k, h)
  PROVE  \A m \in Nat : m <= n /\ m <= k => g[m] = h[m]
<1> DEFINE S == {m \in Nat : m <= n /\ m <= k => g[m] = h[m]}
<1>1. /\ \A m \in 0..n : g[m] = RowsAt(m, g)
      /\ \A m \in 0..k : h[m] = RowsAt(m, h)
  BY DEF IsRowsTo
<1>2. 0 \in S
  BY <1>1 DEF RowsAt
<1>3. ASSUME NEW m \in Nat, m \in S PROVE m + 1 \in S
  <2> SUFFICES ASSUME m + 1 <= n, m + 1 <= k PROVE g[m + 1] = h[m + 1]
    OBVIOUS
  <2>1. g[m] = h[m] /\ m + 1 \in 0..n /\ m + 1 \in 0..k /\ (m + 1) - 1 = m /\ m + 1 # 0
    BY <1>3
  <2> QED BY <1>1, <2>1 DEF RowsAt
<1>4. Nat \subseteq S
  BY <1>2, <1>3, NatSetInduction
<1> QED BY <1>4

LEMMA RowsToEquation ==
  \A p \in Nat : RowsTo[p] = IF p = 0 THEN 0 ELSE Rows[p] + RowsTo[p - 1]
<1> DEFINE upTo == [n \in Nat |-> CHOOSE g : IsRowsTo(n, g)]
           f == [n \in Nat |-> upTo[n][n]]
<1>1. \A n \in Nat : IsRowsTo(n, upTo[n])
  BY RowsToExists
<1> HIDE DEF upTo
<1>2. ASSUME NEW n \in Nat PROVE f[n] = RowsAt(n, f)
  <2>1. upTo[n][n] = RowsAt(n, upTo[n])
    <3>1. n \in 0..n
      OBVIOUS
    <3> QED BY <1>1, <3>1 DEF IsRowsTo
  <2>2. n # 0 => n - 1 \in Nat /\ n - 1 <= n
    OBVIOUS
  <2>3. n # 0 => upTo[n][n - 1] = upTo[n - 1][n - 1]
    BY <1>1, <2>2, RowsToUnique
  <2> QED BY <2>1, <2>2, <2>3 DEF RowsAt
<1> HIDE DEF f
<1>3. f = [n \in Nat |-> f[n]]
  BY DEF f
<1>4. f = [n \in Nat |-> IF n = 0 THEN 0 ELSE Rows[n] + f[n - 1]]
  BY <1>2, <1>3, Zenon DEF RowsAt
<1>5. RowsTo = [n \in Nat |-> IF n = 0 THEN 0 ELSE Rows[n] + RowsTo[n - 1]]
  BY <1>4, Zenon DEF RowsTo
<1> QED BY <1>5

LEMMA RowsToIsNat ==
  \A p \in Nat : p <= Len(Rows) => RowsTo[p] \in Nat
<1> DEFINE S == {p \in Nat : p <= Len(Rows) => RowsTo[p] \in Nat}
<1>1. 0 \in S
  BY RowsToEquation
<1>2. ASSUME NEW p \in Nat, p \in S PROVE p + 1 \in S
  <2> SUFFICES ASSUME p + 1 <= Len(Rows) PROVE RowsTo[p + 1] \in Nat
    OBVIOUS
  <2>1. Len(Rows) \in Nat /\ Rows[p + 1] \in Nat
    BY RowsAssumption
  <2>2. RowsTo[p] \in Nat
    BY <1>2, <2>1
  <2>3. RowsTo[p + 1] = Rows[p + 1] + RowsTo[p]
    BY RowsToEquation
  <2> QED BY <2>1, <2>2, <2>3
<1>3. Nat \subseteq S
  BY <1>1, <1>2, NatSetInduction
<1> QED BY <1>3

\* The sum of a table is what its pages had, or says that it falls short.
LEMMA AnswerCounts ==
  ASSUME IndInv, SumsAreExact, NEW w \in Workers, NEW counted \in BOOLEAN,
         Answered(w, counted)
  PROVE  /\ sums'.rows <= RowsTo[page]
         /\ ~sums'.uncounted => sums'.rows = RowsTo[page]
<1>1. phase = "pages" /\ page \in Nat /\ page >= 1 /\ Rows[page] \in Nat
  BY AnsweredTyped, RowsAssumption DEF IndInv, TypeOK, Pages
<1>2. /\ sums.rows \in Nat /\ sums.rows <= RowsTo[page - 1]
      /\ ~sums.uncounted => sums.rows = RowsTo[page - 1]
  BY <1>1 DEF SumsAreExact, IndInv, TypeOK
<1>3. RowsTo[page] = Rows[page] + RowsTo[page - 1]
  BY <1>1, RowsToEquation
<1>4. RowsTo[page - 1] \in Nat
  BY <1>1, RowsToIsNat DEF IndInv, TypeOK, Pages
<1>5. sums'.rows = sums.rows + (IF counted THEN Rows[page] ELSE 0)
  BY DEF Answered, Counted
<1>6. ~sums'.uncounted => ~sums.uncounted /\ counted
  <2>1. sums'.uncounted = (sums.uncounted \/ ~counted)
    BY DEF Answered, Counted
  <2> QED BY <2>1, Zenon
<1> QED BY <1>1, <1>2, <1>3, <1>4, <1>5, <1>6

LEMMA SumsStay ==
  ASSUME IndInv, SumsAreExact, UNCHANGED <<page, sums>>,
         phase' = phase \/ (phase = "pages" /\ phase' = "failed")
  PROVE  SumsAreExact'
BY DEF SumsAreExact

LEMMA SumsNext ==
  ASSUME IndInv, SumsAreExact, [Next]_vars
  PROVE  SumsAreExact'
<1>1. CASE AttemptFails
  BY <1>1, SumsStay, AttemptFailsInv, WorkersAssumption DEF AttemptFails, IndInv, RoomForPage
<1>2. ASSUME NEW w \in Workers, Ends(w) PROVE SumsAreExact'
  <2>1. PICK counted \in BOOLEAN :
           LastPage(w, counted) \/ NextPage(w, counted) \/ ContinueAsNew(w, counted)
    BY <1>2 DEF Ends
  <2>2. Answered(w, counted)
    BY <2>1 DEF LastPage, NextPage, ContinueAsNew
  <2>3. phase = "pages" /\ page \in Nat
    BY <2>2, AnsweredTyped DEF IndInv, TypeOK, Pages
  <2>4. RowsTo[page] = RowsTo[IF phase' = "done" THEN page' ELSE page' - 1]
    BY <2>1, <2>3 DEF LastPage, NextPage, ContinueAsNew
  <2> QED BY <2>2, <2>4, AnswerCounts DEF SumsAreExact
<1>3. ASSUME NEW w \in Workers,
             \/ StartAttempt(w) \/ AttemptEnds(w) \/ AllocateBlock(w) \/ TakeBlock(w)
             \/ \E c \in Columns : AskBlock(w, c) \/ GiveValue(w, c)
      PROVE  SumsAreExact'
  BY <1>3, SumsStay
     DEF StartAttempt, AttemptEnds, AllocateBlock, TakeBlock, AskBlock, GiveValue, table
<1>4. CASE UNCHANGED vars
  BY <1>4, SumsStay DEF vars
<1> QED BY <1>1, <1>2, <1>3, <1>4 DEF Next

\* Whatever failed and was tried again, and however many runs of the workflow
\* the table took, its pages that are done are counted once each: the sums that
\* Workflow.TableSync carries from page to page and run to run are the rows of
\* those pages, or say that they fall short.
THEOREM RowsAreCountedOnce == Spec => []SumsAreExact
<1>1. Init => SumsAreExact
  BY RowsToEquation DEF Init, SumsAreExact
<1>2. Spec => []IndInv
  BY InitInv, NextInv, PTL DEF Spec
<1>3. IndInv /\ SumsAreExact /\ [Next]_vars => SumsAreExact'
  BY SumsNext
<1> QED BY <1>1, <1>2, <1>3, PTL DEF Spec
=============================================================================
