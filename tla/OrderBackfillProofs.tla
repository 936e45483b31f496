------------------------ MODULE OrderBackfillProofs -------------------------
(***************************************************************************)
(* What the pages of one gap collect, for any number of trades, time       *)
(* stamps, symbols and gaps, any size of a page and any failed request.    *)
(***************************************************************************)
EXTENDS OrderBackfill, FiniteSetTheorems, WellFoundedInduction, TLAPS

-----------------------------------------------------------------------------
\* Least and greatest elements.

LEMMA LeastExists ==
  ASSUME NEW S, S \subseteq Nat, S # {}
  PROVE  \E x \in S : \A y \in S : x <= y
<1> DEFINE R == OpToRel(<, Nat)
<1>1. IsWellFoundedOn(R, Nat)
  BY NatLessThanWellFounded
<1>2. \A x, y \in Nat : <<x, y>> \in R <=> x < y
  BY DEF OpToRel
<1> HIDE DEF R
<1>3. PICK x \in S : \A y \in S : ~ (<<y, x>> \in R)
  BY <1>1, WFMin, Zenon
<1>4. x \in Nat /\ \A y \in S : y \in Nat /\ ~ (y < x)
  BY <1>2, <1>3
<1> QED
  BY <1>4

LEMMA MinIsLeast ==
  ASSUME NEW S, S \subseteq Nat, S # {}
  PROVE  Min(S) \in S /\ \A y \in S : Min(S) <= y
  BY LeastExists DEF Min

LEMMA MaxIsGreatest ==
  ASSUME NEW n \in Nat, NEW S, S \subseteq 0..n, S # {}
  PROVE  Max(S) \in S /\ \A y \in S : Max(S) >= y
<1> DEFINE T == {u \in Nat : \E x \in S : u = n - x}
<1>1. T \subseteq Nat /\ T # {}
  <2>1. PICK x \in S : TRUE
    OBVIOUS
  <2>2. n - x \in T
    OBVIOUS
  <2> QED
    BY <2>2
<1>2. PICK t \in T : \A u \in T : t <= u
  <2> HIDE DEF T
  <2> QED
    BY <1>1, LeastExists
<1>3. PICK x \in S : t = n - x
  BY <1>2
<1>4. \A y \in S : n - y \in T
  OBVIOUS
<1>5. \A y \in S : x >= y
  <2> SUFFICES ASSUME NEW y \in S PROVE x >= y
    OBVIOUS
  <2>1. t <= n - y
    BY <1>2, <1>4
  <2> QED
    BY <2>1, <1>3
<1> QED
  BY <1>5 DEF Max

-----------------------------------------------------------------------------
\* The state, and what an answer of the exchange is.

\* A fetch has a symbol and stays inside its span.
Underway ==
  /\ todo # <<>>
  /\ span.start <= cursor /\ cursor <= span.end
TypeInv == TypeOK /\ (pc # "idle" => Underway)

LEMMA Constants ==
  /\ Trades \in Nat /\ Page \in Nat \ {0} /\ MaxTime \in Nat \ {0}
  /\ SymbolList \in Seq(Symbols) /\ SymbolList # <<>>
  /\ MaxFaults \in Nat /\ MaxFills \in Nat
  BY ConstantsAssumption DEF ConstantsAssumption, Symbols

\* Trades come in the order of their time stamps.
LEMMA Ordered ==
  ASSUME TypeInv, pc # "idle"
  PROVE  /\ Symbol \in Symbols
         /\ \A i \in Ids : At(i) \in Stamps
         /\ \A i, j \in Ids : i < j => At(i) <= At(j)
         /\ Inside \subseteq Ids /\ IsFiniteSet(Inside)
         /\ Answer \subseteq Inside
<1>1. Symbol \in Symbols
  BY DEF TypeInv, TypeOK, Underway, Symbol
<1>2. when[Symbol] \in Histories
  BY <1>1 DEF TypeInv, TypeOK
<1>3. IsFiniteSet(Ids) /\ Inside \subseteq Ids
  BY Constants, FS_Interval DEF Ids, Inside
<1>4. IsFiniteSet(Inside)
  BY <1>3, FS_Subset
<1> QED
  BY <1>1, <1>2, <1>3, <1>4 DEF Histories, At, Answer

\* An answer has no gaps: what comes before a trade of it is in it.
LEMMA AnswerIsFirst ==
  ASSUME TypeInv, pc # "idle", NEW i \in Answer, NEW j \in Inside, j <= i
  PROVE  j \in Answer
<1> DEFINE upto(k) == {x \in Inside : x <= k}
<1>1. Inside \subseteq Nat /\ IsFiniteSet(Inside) /\ i \in Inside
  BY Ordered, Constants DEF Ids
<1>2. upto(j) \subseteq upto(i)
  <2>1. \A x \in Inside : x <= j => x <= i
    BY <1>1
  <2> QED
    BY <2>1
<1>3. IsFiniteSet(upto(i)) /\ IsFiniteSet(upto(j))
  BY <1>1, FS_Subset
<1>4. Cardinality(upto(j)) <= Cardinality(upto(i))
  BY <1>2, <1>3, FS_Subset
<1>5. Cardinality(upto(i)) \in Nat /\ Cardinality(upto(j)) \in Nat
  BY <1>3, FS_CardinalityType
<1> QED
  BY <1>4, <1>5, Constants DEF Answer

LEMMA AnswerIsThere ==
  ASSUME TypeInv, pc # "idle", Inside # {}
  PROVE  Answer # {}
<1>1. Inside \subseteq Nat
  BY Ordered, Constants DEF Ids
<1> DEFINE m == Min(Inside)
<1>2. m \in Inside /\ \A y \in Inside : m <= y
  BY <1>1, MinIsLeast
<1> HIDE DEF m
<1>3. \A j \in Inside : j <= m <=> j = m
  BY <1>1, <1>2
<1>4. {j \in Inside : j <= m} = {m}
  BY <1>2, <1>3
<1>5. Cardinality({m}) = 1
  BY FS_Singleton
<1>6. 1 <= Page
  BY Constants
<1>7. m \in Answer
  BY <1>2, <1>4, <1>5, <1>6 DEF Answer
<1> QED
  BY <1>7

\* An answer that leaves something out is full.
LEMMA AnswerIsFull ==
  ASSUME TypeInv, pc # "idle", Answer # Inside
  PROVE  IsFiniteSet(Answer) /\ Cardinality(Answer) >= Page
<1> DEFINE rest == Inside \ Answer
           m == Min(rest)
<1>1. Inside \subseteq Nat /\ IsFiniteSet(Inside) /\ Answer \subseteq Inside
  BY Ordered, Constants DEF Ids
<1>2. m \in rest /\ \A y \in rest : m <= y
  BY <1>1, MinIsLeast
<1> HIDE DEF m
<1>3. IsFiniteSet(Answer) /\ Cardinality(Answer) \in Nat
  BY <1>1, FS_Subset, FS_CardinalityType
<1>4. \A i \in Answer : i < m
  <2> SUFFICES ASSUME NEW i \in Answer, ~(i < m)
               PROVE  FALSE
    OBVIOUS
  <2>1. m <= i /\ m \in Inside
    BY <1>1, <1>2
  <2>2. m \in Answer
    BY <2>1, AnswerIsFirst
  <2> QED
    BY <2>2, <1>2
<1> DEFINE upto == {j \in Inside : j <= m}
<1>5. upto = Answer \cup {m}
  <2>1. \A j \in Inside : j \in rest => (j <= m <=> j = m)
    BY <1>1, <1>2
  <2>2. \A j \in Answer : j <= m
    BY <1>1, <1>2, <1>4
  <2> QED
    BY <1>1, <1>2, <2>1, <2>2
<1>6. ~(Cardinality(upto) <= Page)
  BY <1>2 DEF Answer
<1> HIDE DEF upto
<1>7. Cardinality(upto) = Cardinality(Answer) + 1
  BY <1>2, <1>3, <1>5, FS_AddElement
<1> QED
  BY <1>3, <1>6, <1>7, Constants

-----------------------------------------------------------------------------
(***************************************************************************)
(* What has been collected when a fetch has come as far as cursor: each    *)
(* trade inside the span before it, and of those at cursor the first.  A   *)
(* trade at cursor has been taken at most once, because the first of a     *)
(* page is dropped when it is at cursor, and none has been taken after it. *)
(***************************************************************************)
Reached(i) == At(i) < cursor \/ (At(i) = cursor /\ First(i))
CountInv ==
  \A i \in Ids :
    /\ At(i) > cursor => result[i] = 0
    /\ At(i) = cursor => result[i] <= 1
    /\ result[i] <= IF First(i) THEN 1 ELSE 2
    /\ result[i] > 0 => i \in Due
    /\ i \in Due /\ Reached(i) => result[i] > 0

\* A page starts at cursor and goes on without a gap to a later time stamp.
PageInv ==
  /\ page # {} /\ page \subseteq Inside
  /\ At(Max(page)) > cursor
  /\ \A i \in page, j \in Inside : j <= i => j \in page

\* A fetch ends by itself when nothing comes after cursor, unless one time
\* stamp fills a page.
EndInv ==
  (\A i \in Ids : Cardinality(Ties(i)) < Page) =>
     \A i \in Ids : At(i) <= span.end => At(i) <= cursor

FetchInv ==
  /\ pc # "idle" => CountInv
  /\ pc = "page" => PageInv
  /\ pc = "fetched" /\ ~broken => EndInv

LEMMA InitInv == Init => TypeInv /\ FetchInv
<1> SUFFICES ASSUME Init PROVE TypeInv /\ FetchInv
  OBVIOUS
<1>1. result \in [Ids -> Nat] /\ span \in [start : 0..MaxTime, end : 0..MaxTime]
  BY Constants DEF Init, Nothing, NoSpan
<1>2. clock \in Stamps /\ cursor \in 0..MaxTime /\ todo \in Seq(Symbols)
  BY Constants DEF Init, Stamps
<1>3. /\ start \in 0..clock /\ end \in 0..clock
      /\ faults \in 0..MaxFaults /\ fills \in 0..MaxFills
  BY Constants DEF Init
<1>4. /\ when \in [Symbols -> Histories] /\ status \in BOOLEAN /\ broken \in BOOLEAN
      /\ page \subseteq Ids /\ pc \in {"idle", "fetch", "page", "fetched"}
  BY Zenon DEF Init
<1>5. TypeOK
  BY <1>1, <1>2, <1>3, <1>4, Zenon DEF TypeOK
<1> QED
  BY <1>5 DEF Init, TypeInv, FetchInv

\* A page that has been asked for.
LEMMA PageFits ==
  ASSUME TypeInv, pc # "idle", Answer # {}
  PROVE  /\ Max(Answer) \in Answer /\ \A i \in Answer : i <= Max(Answer)
         /\ Min(Answer) \in Answer /\ \A i \in Answer : Min(Answer) <= i
<1>1. Answer \subseteq 0..Trades /\ Answer \subseteq Nat
  BY Ordered, Constants DEF Ids
<1>2. /\ Max(Answer) \in Answer /\ \A i \in Answer : Max(Answer) >= i
      /\ Min(Answer) \in Answer /\ \A i \in Answer : Min(Answer) <= i
  BY <1>1, MaxIsGreatest, MinIsLeast, Constants
<1> QED
  BY <1>1, <1>2

\* An answer that ends where it began has all there is.
LEMMA LastAnswer ==
  ASSUME TypeInv, pc # "idle", Answer = {} \/ At(Max(Answer)) = cursor
  PROVE  EndInv
<1> SUFFICES ASSUME \A i \in Ids : Cardinality(Ties(i)) < Page,
                    NEW i \in Ids, At(i) <= span.end, At(i) > cursor
             PROVE  FALSE
  <2>1. cursor \in Nat /\ \A i \in Ids : At(i) \in Nat
    BY Ordered DEF TypeInv, TypeOK, Stamps
  <2> QED
    BY <2>1 DEF EndInv
<1>1. i \in Inside
  BY Ordered DEF Inside, TypeInv, TypeOK, Stamps
<1>2. Answer # {} /\ At(Max(Answer)) = cursor
  BY <1>1, AnswerIsThere
<1> DEFINE m == Max(Answer)
<1>3. m \in Answer /\ m \in Ids /\ \A j \in Answer : j <= m
  BY <1>2, PageFits, Ordered
<1>4. Answer \subseteq Ties(m)
  <2> SUFFICES ASSUME NEW j \in Answer PROVE j \in Ties(m)
    OBVIOUS
  <2>1. j \in Ids /\ At(j) >= cursor
    BY Ordered DEF Inside
  <2>2. At(j) <= At(m)
    BY <1>3, <2>1, Ordered, Constants DEF Ids
  <2> QED
    BY <1>2, <2>1, <2>2, Ordered DEF Ties, Stamps, TypeInv, TypeOK
<1>5. i \notin Answer
  BY <1>2, <1>4, Ordered DEF Ties, TypeInv, TypeOK, Stamps
<1>6. IsFiniteSet(Ties(m)) /\ Cardinality(Ties(m)) \in Nat
  <2>1. IsFiniteSet(Ids) /\ Ties(m) \subseteq Ids
    BY Constants, FS_Interval DEF Ties, Ids
  <2> QED
    BY <2>1, FS_Subset, FS_CardinalityType
<1>7. Cardinality(Answer) <= Cardinality(Ties(m)) /\ Cardinality(Answer) \in Nat
  BY <1>4, <1>6, FS_Subset, FS_CardinalityType
<1>8. Cardinality(Answer) >= Page
  BY <1>1, <1>5, AnswerIsFull
<1> QED
  BY <1>3, <1>6, <1>7, <1>8, Constants

-----------------------------------------------------------------------------
LEMMA TypeStep == TypeInv /\ FetchInv /\ [Next]_vars => TypeInv'
<1> SUFFICES ASSUME TypeInv, FetchInv, [Next]_vars
             PROVE  TypeInv'
  OBVIOUS
<1> USE DEF TypeInv, TypeOK, Underway, dict, fetch
<1>1. CASE Tick
  BY <1>1, Constants DEF Tick, Stamps
<1>2. CASE Connect
  BY <1>2 DEF Connect
<1>3. CASE Note
  BY <1>3, Constants DEF Note, Stamps
<1>4. CASE Supplement
  <2>1. fills' \in 0..MaxFills
    BY <1>4, Constants DEF Supplement
  <2>2. end' \in 0..clock'
    BY <1>4, Constants DEF Supplement, Stamps
  <2>3. /\ status' \in BOOLEAN
        /\ UNCHANGED <<when, clock, start, faults>>
    BY <1>4 DEF Supplement
  <2>4. CASE start = 0
    BY <1>4, <2>1, <2>2, <2>3, <2>4 DEF Supplement
  <2>5. CASE start # 0
    <3>reset. /\ result' = Nothing /\ todo' = SymbolList
          /\ page' = {} /\ broken' = FALSE /\ pc' = "fetch"
      BY <1>4, <2>5 DEF Supplement
    <3>none. Nothing \in [Ids -> Nat]
      BY DEF Nothing
    <3>1. /\ result' \in [Ids -> Nat] /\ todo' \in Seq(Symbols) /\ todo' # <<>>
          /\ page' \subseteq Ids /\ broken' \in BOOLEAN /\ pc' = "fetch"
      BY <3>reset, <3>none, Constants
    <3>2. /\ start \in 0..MaxTime /\ clock \in 0..MaxTime /\ start <= clock
      BY Constants DEF Stamps
    <3>3. span' = [start |-> start, end |-> clock] /\ cursor' = start
      BY <1>4, <2>5 DEF Supplement
    <3>4. /\ span' \in [start : 0..MaxTime, end : 0..MaxTime]
          /\ cursor' \in 0..MaxTime
          /\ span'.start <= cursor' /\ cursor' <= span'.end
      BY <3>2, <3>3
    <3>5. TypeOK'
      BY <2>1, <2>2, <2>3, <3>1, <3>4
    <3> QED
      BY <3>1, <3>4, <3>5
  <2> QED
    BY <2>4, <2>5
<1>5. CASE Request
  BY <1>5, Ordered DEF Request, Fetched
<1>6. CASE RequestFails
  BY <1>6, Constants DEF RequestFails, Fetched
<1>7. CASE Turn
  <2>1. page \subseteq 0..Trades /\ page # {} /\ page \subseteq Inside
    BY <1>7, Ordered, Constants DEF Turn, FetchInv, PageInv, Ids
  <2>2. Max(page) \in page
    BY <2>1, MaxIsGreatest, Constants
  <2>3. cursor' \in 0..MaxTime /\ span.start <= cursor' /\ cursor' <= span.end
    <3>1. cursor' = At(Max(page)) /\ Max(page) \in Inside /\ pc # "idle"
      BY <1>7, <2>1, <2>2 DEF Turn
    <3>2. At(Max(page)) \in Stamps /\ cursor <= At(Max(page)) /\ At(Max(page)) <= span.end
      BY <3>1, Ordered DEF Inside
    <3> QED
      BY <3>1, <3>2, Constants DEF Stamps
  <2>4. result' \in [Ids -> Nat]
    BY <1>7 DEF Turn, Collect
  <2> QED
    BY <1>7, <2>3, <2>4 DEF Turn
<1>8. CASE Publish
  <2>1. /\ page' = page /\ broken' = FALSE /\ result' \in [Ids -> Nat]
        /\ UNCHANGED <<when, clock, status, start, end, faults, fills>>
    BY <1>8 DEF Publish, Nothing
  <2>2. CASE result = Nothing /\ Len(todo) > 1
    <3>1. /\ todo' = Tail(todo) /\ cursor' = span.start /\ pc' = "fetch"
          /\ span' = span
      BY <1>8, <2>2 DEF Publish
    <3>2. todo' \in Seq(Symbols)
      BY <2>2, <3>1
    <3>3. todo' # <<>>
      <4>1. todo \in Seq(Symbols) /\ Len(todo) > 1
        BY <2>2
      <4>2. Len(Tail(todo)) = Len(todo) - 1 /\ Len(todo) \in Nat
        BY <4>1
      <4>3. Len(<<>>) = 0
        OBVIOUS
      <4>4. Len(todo') # 0
        BY <3>1, <4>1, <4>2
      <4> QED
        BY <4>3, <4>4
    <3>4. span'.start <= cursor' /\ cursor' <= span'.end /\ cursor' \in 0..MaxTime
      BY <1>8, <3>1 DEF Publish
    <3>5. TypeOK'
      BY <2>1, <3>1, <3>2, <3>4
    <3> QED
      BY <3>3, <3>4, <3>5
  <2>3. CASE ~(result = Nothing /\ Len(todo) > 1)
    <3>1. /\ todo' = <<>> /\ cursor' = 0 /\ span' = NoSpan /\ pc' = "idle"
      BY <1>8, <2>3 DEF Publish
    <3>2. /\ todo' \in Seq(Symbols) /\ cursor' \in 0..MaxTime
          /\ span' \in [start : 0..MaxTime, end : 0..MaxTime]
      BY <3>1, Constants DEF NoSpan
    <3> QED
      BY <2>1, <3>1, <3>2
  <2> QED
    BY <2>2, <2>3
<1>9. CASE UNCHANGED vars
  BY <1>9 DEF vars
<1> QED
  BY <1>1, <1>2, <1>3, <1>4, <1>5, <1>6, <1>7, <1>8, <1>9 DEF Next

\* A fetch that begins has collected nothing and has nothing before cursor.
LEMMA Begins ==
  ASSUME TypeInv', pc' = "fetch", result' = Nothing, cursor' = span'.start
  PROVE  FetchInv'
<1>1. \A i \in Ids : At(i)' \in Nat
  BY DEF TypeInv, TypeOK, Underway, Symbol, At, Histories, Stamps
<1>2. cursor' \in Nat
  BY DEF TypeInv, TypeOK
<1>3. CountInv'
  BY <1>1, <1>2 DEF CountInv, Nothing, Due, Reached
<1> QED
  BY <1>3 DEF FetchInv

\* A page is kept but for the trade at which it meets the one before; the
\* trades between the two cursors are all in it.
LEMMA TurnCounts ==
  ASSUME TypeInv, FetchInv, TypeInv', Turn
  PROVE  CountInv'
<1> DEFINE m == Max(page)
           f == Min(page)
<1>1. /\ CountInv /\ PageInv /\ pc = "page"
  BY DEF Turn, FetchInv
<1>2. /\ page \subseteq 0..Trades /\ page \subseteq Nat /\ page # {}
      /\ page \subseteq Inside /\ page \subseteq Ids
  BY <1>1, Ordered, Constants DEF PageInv, Ids
<1>3. /\ m \in page /\ \A i \in page : m >= i
      /\ f \in page /\ \A i \in page : f <= i
  BY <1>2, MaxIsGreatest, MinIsLeast, Constants
<1> HIDE DEF m, f
<1>4. /\ \A i \in Ids : At(i)' = At(i) /\ At(i) \in Nat /\ i \in Nat
      /\ \A i, j \in Ids : i < j => At(i) <= At(j)
      /\ \A i \in Ids : First(i)' = First(i)
      /\ Due' = Due
  <2>1. \A i \in Ids : At(i)' = At(i)
    BY DEF Turn, At, Symbol
  <2>2. \A i \in Ids : At(i) \in Nat /\ i \in Nat
    BY <1>1, Ordered, Constants DEF Stamps, Ids
  <2>3. \A i \in Ids : Ties(i)' = Ties(i)
    BY <2>1 DEF Ties
  <2>4. Due' = Due
    BY <2>1 DEF Turn, Due
  <2> QED
    BY <1>1, <2>1, <2>2, <2>3, <2>4, Ordered DEF First
<1>5. cursor' = At(m) /\ cursor' > cursor /\ cursor \in Nat /\ cursor' \in Nat
  <2>1. cursor' = At(m) /\ At(m) > cursor
    BY <1>1 DEF Turn, PageInv, m
  <2> QED
    BY <2>1 DEF TypeInv, TypeOK
<1>6. result \in [Ids -> Nat]
  BY DEF TypeInv, TypeOK
<1>7. \A i \in page : At(i) >= cursor /\ At(i) <= span.end
  BY <1>2 DEF Inside
<1>8. \A i \in Ids : At(i) >= cursor /\ At(i) < cursor' => i \in page
  <2> SUFFICES ASSUME NEW i \in Ids, At(i) >= cursor, At(i) < cursor'
               PROVE  i \in page
    OBVIOUS
  <2>1. m \in Ids /\ m \in Nat /\ i \in Nat /\ ~(At(m) <= At(i))
    BY <1>2, <1>3, <1>4, <1>5
  <2>2. i <= m
    BY <1>4, <2>1
  <2>3. At(i) \in Nat /\ At(m) <= span.end /\ span.end \in Nat
    BY <1>3, <1>4, <1>7 DEF TypeInv, TypeOK
  <2>4. i \in Inside
    BY <1>5, <2>3 DEF Inside
  <2> QED
    BY <1>1, <1>3, <2>2, <2>4 DEF PageInv
<1>9. \A i \in Ids : At(i) = cursor' /\ First(i) => i \in page
  <2> SUFFICES ASSUME NEW i \in Ids, At(i) = cursor', First(i)
               PROVE  i \in page
    OBVIOUS
  <2>1. i <= m
    BY <1>2, <1>3, <1>5 DEF First, Ties
  <2>2. i \in Inside
    BY <1>2, <1>3, <1>4, <1>5, <1>7 DEF Inside, TypeInv, TypeOK
  <2> QED
    BY <1>1, <1>3, <2>1, <2>2 DEF PageInv
<1>10. \A i \in page : At(i) <= cursor'
  <2> SUFFICES ASSUME NEW i \in page PROVE At(i) <= At(m)
    BY <1>5
  <2>1. i \in Ids /\ m \in Ids /\ (i < m \/ i = m)
    BY <1>2, <1>3
  <2> QED
    BY <1>4, <2>1
<1>11. \A i \in Ids : At(i) = cursor /\ First(i) => i = f
  <2> SUFFICES ASSUME NEW i \in Ids, At(i) = cursor, First(i)
               PROVE  i = f
    OBVIOUS
  <2>1. i \in page
    BY <1>4, <1>5, <1>8
  <2>2. f \in Ids /\ f <= i /\ At(f) >= cursor
    BY <1>2, <1>3, <1>7, <2>1
  <2>3. At(f) = cursor
    BY <1>4, <2>2
  <2>4. i <= f
    BY <2>2, <2>3 DEF First, Ties
  <2> QED
    BY <1>4, <2>2, <2>4
<1>12. At(f) = cursor => First(f)
  <2> SUFFICES ASSUME At(f) = cursor, NEW j \in Ties(f)
               PROVE  f <= j
    BY DEF First
  <2>1. j \in page
    BY <1>4, <1>5, <1>8 DEF Ties
  <2> QED
    BY <1>3, <2>1
<1> DEFINE new(i) == i \in page /\ ~(At(f) = cursor /\ i = f) /\ i \in Due
<1>13. \A i \in Ids : result'[i] = IF new(i) THEN result[i] + 1 ELSE result[i]
  <2>1. \A i \in page : i \in Due <=> At(i) \notin {span.start, span.end}
    <3> SUFFICES ASSUME NEW i \in page
                 PROVE  i \in Due <=> At(i) \notin {span.start, span.end}
      OBVIOUS
    <3>1. /\ i \in Ids /\ At(i) \in Nat /\ At(i) >= cursor /\ At(i) <= span.end
          /\ span.start <= cursor /\ span.start \in Nat /\ span.end \in Nat
      BY <1>1, <1>2, <1>4, <1>7 DEF TypeInv, TypeOK, Underway
    <3> QED
      BY <1>5, <3>1 DEF Due
  <2>2. Kept(Untied(page)) = {i \in Ids : new(i)}
    <3>1. Untied(page) = {i \in page : ~(At(f) = cursor /\ i = f)}
      BY DEF Untied, f
    <3> QED
      BY <1>2, <2>1, <3>1 DEF Kept
  <2> QED
    BY <2>2 DEF Turn, Collect
<1>14. ASSUME NEW i \in Ids
       PROVE  /\ At(i) > cursor' => result'[i] = 0
              /\ At(i) = cursor' => result'[i] <= 1
              /\ result'[i] <= IF First(i) THEN 1 ELSE 2
              /\ result'[i] > 0 => i \in Due
              /\ i \in Due /\ (At(i) < cursor' \/ (At(i) = cursor' /\ First(i)))
                   => result'[i] > 0
  <2>1. /\ At(i) > cursor => result[i] = 0
        /\ At(i) = cursor => result[i] <= 1
        /\ result[i] <= IF First(i) THEN 1 ELSE 2
        /\ result[i] > 0 => i \in Due
        /\ i \in Due /\ Reached(i) => result[i] > 0
    BY <1>1 DEF CountInv
  <2>2. result[i] \in Nat /\ At(i) \in Nat
    BY <1>4, <1>6
  <2>3. CASE At(i) < cursor
    <3>1. ~new(i)
      BY <1>7, <2>2, <2>3, <1>5
    <3> QED
      BY <1>5, <1>13, <2>1, <2>2, <2>3, <3>1 DEF Reached
  <2>4. CASE At(i) = cursor
    <3>1. First(i) => ~new(i)
      BY <1>11, <2>4
    <3>2. ~First(i) /\ i \in Due => new(i)
      BY <1>5, <1>8, <1>12, <2>2, <2>4
    <3> QED
      BY <1>5, <1>13, <2>1, <2>2, <2>4, <3>1, <3>2 DEF Reached
  <2>5. CASE At(i) > cursor
    <3>1. ~(At(f) = cursor /\ i = f)
      BY <1>5, <2>2, <2>5
    <3>2. result[i] = 0
      BY <2>1, <2>5
    <3> QED
      BY <1>5, <1>8, <1>9, <1>10, <1>13, <2>2, <2>5, <3>1, <3>2
  <2> QED
    BY <1>5, <2>2, <2>3, <2>4, <2>5
<1> QED
  BY <1>4, <1>14 DEF CountInv, Reached

LEMMA FetchStep == TypeInv /\ FetchInv /\ [Next]_vars => FetchInv'
<1> SUFFICES ASSUME TypeInv, FetchInv, [Next]_vars
             PROVE  FetchInv'
  OBVIOUS
<1>0. TypeInv'
  BY TypeStep
<1> DEFINE Same == /\ UNCHANGED <<when, todo, span, cursor, result>>
                   /\ pc # "idle"
<1>1. ASSUME Same
      PROVE  CountInv' /\ (EndInv => EndInv')
  BY <1>1 DEF FetchInv, CountInv, EndInv, Reached, First, Ties, Due, At, Symbol
<1>2. CASE pc' = "idle"
  BY <1>2 DEF FetchInv
<1>3. CASE Supplement /\ pc' # "idle"
  BY <1>0, <1>3, Begins DEF Supplement, fetch
<1>4. CASE Request
  <2>1. Same
    BY <1>4 DEF Request
  <2>2. CASE Answer = {} \/ At(Max(Answer)) = cursor
    <3>1. EndInv
      BY <1>4, <2>2, LastAnswer DEF Request
    <3> QED
      BY <1>1, <1>4, <2>1, <2>2, <3>1 DEF Request, Fetched, FetchInv
  <2>3. CASE Answer # {} /\ At(Max(Answer)) # cursor
    <3>1. page' = Answer /\ pc' = "page" /\ Answer \subseteq Inside
      BY <1>4, <2>3, Ordered DEF Request
    <3>2. Max(Answer) \in Answer
      BY <2>1, <2>3, PageFits
    <3>3. At(Max(Answer)) > cursor
      BY <2>1, <2>3, <3>1, <3>2, Ordered DEF Inside, Stamps, TypeInv, TypeOK
    <3>4. \A i \in Answer, j \in Inside : j <= i => j \in Answer
      BY <2>1, AnswerIsFirst
    <3>5. Inside' = Inside /\ At(Max(page))' = At(Max(Answer)) /\ cursor' = cursor
      BY <2>1, <3>1 DEF Inside, At, Symbol
    <3>6. PageInv'
      BY <2>3, <3>1, <3>3, <3>4, <3>5 DEF PageInv
    <3> QED
      BY <1>1, <2>1, <3>1, <3>6 DEF FetchInv
  <2> QED
    BY <2>2, <2>3
<1>5. CASE RequestFails
  <2>1. Same
    BY <1>5 DEF RequestFails
  <2> QED
    BY <1>1, <1>5, <2>1 DEF RequestFails, Fetched, FetchInv
<1>6. CASE Turn
  BY <1>0, <1>6, TurnCounts DEF Turn, FetchInv
<1>7. CASE Publish /\ pc' # "idle"
  BY <1>0, <1>7, Begins DEF Publish
<1>8. CASE Connect \/ UNCHANGED vars
  <2>1. UNCHANGED <<when, todo, span, cursor, result, page, pc, broken>>
    BY <1>8 DEF Connect, vars, fetch
  <2>2. CASE pc # "idle"
    <3>1. PageInv => PageInv'
      BY <2>1 DEF PageInv, Inside, At, Symbol
    <3> QED
      BY <1>1, <2>1, <2>2, <3>1 DEF FetchInv
  <2> QED
    BY <1>2, <2>1, <2>2
<1>9. CASE Tick \/ Note
  BY <1>2, <1>9 DEF Tick, Note, fetch
<1> QED
  BY <1>2, <1>3, <1>4, <1>5, <1>6, <1>7, <1>8, <1>9 DEF Next

-----------------------------------------------------------------------------
LEMMA IInvCorrect == Spec => [](TypeInv /\ FetchInv)
  BY InitInv, TypeStep, FetchStep, PTL DEF Spec

\* The variables have their types: cursor stays inside the span.
THEOREM TypeCorrect == Spec => []TypeOK
<1>1. TypeInv => TypeOK
  BY DEF TypeInv
<1> QED
  BY IInvCorrect, <1>1, PTL

\* A fetch that no failed request has broken off has collected the trades
\* inside its span and no others (get_binance_trade), except for trades of
\* the last time stamp behind its first one, unless a time stamp fills a page.
THEOREM FetchesAreComplete == Spec => []Complete
<1>1. TypeInv /\ FetchInv => Complete
  <2> SUFFICES ASSUME TypeInv, FetchInv, pc = "fetched", ~broken
               PROVE  /\ Taken \subseteq Due
                      /\ (\A i \in Ids : Cardinality(Ties(i)) < Page) =>
                           {i \in Due : First(i) \/ Followed(i)} \subseteq Taken
    BY DEF Complete
  <2>1. CountInv /\ EndInv
    BY DEF FetchInv
  <2>2. Taken \subseteq Due
    BY <2>1 DEF CountInv, Taken
  <2>3. ASSUME \A i \in Ids : Cardinality(Ties(i)) < Page,
               NEW i \in Due, First(i) \/ Followed(i)
        PROVE  i \in Taken
    <3>1. \A j \in Ids : At(j) <= span.end => At(j) <= cursor
      BY <2>1, <2>3 DEF EndInv
    <3>2. /\ \A j \in Ids : At(j) \in Nat
          /\ cursor \in Nat /\ span.end \in Nat
          /\ i \in Ids /\ At(i) < span.end
      BY Ordered DEF TypeInv, TypeOK, Stamps, Due
    <3>3. Reached(i)
      BY <2>3, <3>1, <3>2 DEF Reached, Followed
    <3> QED
      BY <2>1, <3>2, <3>3 DEF CountInv, Taken
  <2> QED
    BY <2>2, <2>3
<1> QED
  BY IInvCorrect, <1>1, PTL

\* No trade is collected twice but those that share a time stamp with an
\* earlier one, and none a third time (get_binance_trade).
THEOREM OnlyTiesAreDoubled == Spec => []OnlyTiesTwice
<1>1. FetchInv => OnlyTiesTwice
  BY DEF FetchInv, CountInv, OnlyTiesTwice
<1> QED
  BY IInvCorrect, <1>1, PTL

-----------------------------------------------------------------------------
(***************************************************************************)
(* Why a fetch ends.  What is left of it: each symbol has at most two      *)
(* steps for every time stamp that its cursor can still pass.              *)
(***************************************************************************)
PerSymbol == 2 * MaxTime + 2
Left ==
  CASE pc = "idle" -> 0
    [] pc = "fetch" -> Len(todo) * PerSymbol + 2 * (MaxTime - cursor) + 2
    [] pc = "page" -> Len(todo) * PerSymbol + 2 * (MaxTime - cursor) + 1
    [] pc = "fetched" -> Len(todo) * PerSymbol + 1

\* A step of a fetch takes it nearer to its end; the dial, the only other one
\* while it runs, does not touch it.
LEMMA FetchNears ==
  ASSUME TypeInv, TypeInv', FetchInv, pc # "idle", [Next]_vars
  PROVE  Left' \in Nat /\ (Left' < Left \/ UNCHANGED <<fetch, pc>>)
<1> DEFINE n == Len(todo) * PerSymbol
<1>1. /\ Len(todo) \in Nat /\ cursor \in 0..MaxTime /\ MaxTime \in Nat
      /\ Len(todo') \in Nat /\ cursor' \in 0..MaxTime /\ span.start \in 0..MaxTime
  BY Constants DEF TypeInv, TypeOK
<1>2. n \in Nat /\ PerSymbol \in Nat
  BY <1>1 DEF PerSymbol
<1>3. /\ Len(todo') * PerSymbol \in Nat
      /\ \A c \in 0..MaxTime : 2 * (MaxTime - c) \in Nat
  <2>1. \A c \in 0..MaxTime : MaxTime - c \in Nat
    BY <1>1
  <2>2. \A x \in Nat : 2 * x \in Nat
    OBVIOUS
  <2> QED
    BY <1>1, <1>2, <2>1, <2>2
<1>4. Left' \in Nat
  <2> DEFINE p == Len(todo') * PerSymbol
  <2>1. /\ p \in Nat /\ p + 1 \in Nat
        /\ p + 2 * (MaxTime - cursor') + 2 \in Nat /\ p + 2 * (MaxTime - cursor') + 1 \in Nat
    <3> HIDE DEF p
    <3>1. p \in Nat
      BY <1>3 DEF p
    <3>2. 2 * (MaxTime - cursor') \in Nat
      BY <1>1, <1>3
    <3> QED
      BY <3>1, <3>2
  <2>2. /\ pc' \in {"idle", "fetch", "page", "fetched"}
        /\ Left' = CASE pc' = "idle" -> 0
                     [] pc' = "fetch" -> p + 2 * (MaxTime - cursor') + 2
                     [] pc' = "page" -> p + 2 * (MaxTime - cursor') + 1
                     [] pc' = "fetched" -> p + 1
    BY DEF Left, TypeInv, TypeOK, PerSymbol
  <2> HIDE DEF p
  <2> QED
    BY <2>1, <2>2
<1>5. CASE Request \/ RequestFails
  <2>1. /\ pc = "fetch" /\ todo' = todo /\ cursor' = cursor /\ pc' \in {"page", "fetched"}
    BY <1>5 DEF Request, RequestFails, Fetched
  <2>2. /\ Left = n + 2 * (MaxTime - cursor) + 2
        /\ Left' = IF pc' = "page" THEN n + 2 * (MaxTime - cursor) + 1 ELSE n + 1
    BY <2>1 DEF Left, PerSymbol
  <2> HIDE DEF n
  <2>3. Left' < Left
    BY <1>1, <1>2, <2>1, <2>2
  <2> QED
    BY <1>4, <2>3
<1>6. CASE Turn
  <2>1. /\ pc = "page" /\ todo' = todo /\ pc' = "fetch" /\ cursor' = At(Max(page))
    BY <1>6 DEF Turn
  <2>2. cursor' > cursor
    BY <2>1 DEF FetchInv, PageInv
  <2>3. /\ Left = n + 2 * (MaxTime - cursor) + 1
        /\ Left' = n + 2 * (MaxTime - cursor') + 2
    BY <2>1 DEF Left, PerSymbol
  <2> HIDE DEF n
  <2>4. 2 * (MaxTime - cursor') + 2 < 2 * (MaxTime - cursor) + 1
    <3> DEFINE c == cursor
               d == cursor'
    <3>1. c \in Nat /\ d \in Nat /\ d <= MaxTime /\ d > c
      BY <1>1, <2>2
    <3> HIDE DEF c, d
    <3>2. 2 * (MaxTime - d) + 2 < 2 * (MaxTime - c) + 1
      BY <1>1, <3>1
    <3> QED
      BY <3>2 DEF c, d
  <2>5. Left' < Left
    <3>1. 2 * (MaxTime - cursor) \in Nat /\ 2 * (MaxTime - cursor') \in Nat
      BY <1>1, <1>3
    <3> QED
      BY <1>2, <2>3, <2>4, <3>1
  <2> QED
    BY <1>4, <2>5
<1>7. CASE Publish
  <2>1. pc = "fetched" /\ Left = n + 1
    BY <1>7 DEF Publish, Left, PerSymbol
  <2>2. CASE result = Nothing /\ Len(todo) > 1
    <3>1. todo' = Tail(todo) /\ cursor' = span.start /\ pc' = "fetch"
      BY <1>7, <2>2 DEF Publish
    <3>2. Len(todo') = Len(todo) - 1
      BY <2>2, <3>1 DEF TypeInv, TypeOK
    <3>3. Left' = Len(todo') * PerSymbol + 2 * (MaxTime - cursor') + 2
      BY <3>1 DEF Left, PerSymbol
    <3>4. Len(todo') * PerSymbol = n - PerSymbol
      <4>1. \A x, y \in Nat : (x - 1) * y = x * y - y
        OBVIOUS
      <4> QED
        BY <1>1, <1>2, <3>2, <4>1
    <3>5. PerSymbol = 2 * MaxTime + 2
      BY DEF PerSymbol
    <3> HIDE DEF n
    <3>6. Left' < Left
      BY <1>1, <1>2, <2>1, <3>3, <3>4, <3>5
    <3> QED
      BY <1>4, <3>6
  <2>3. CASE ~(result = Nothing /\ Len(todo) > 1)
    <3>1. Left' = 0
      BY <1>7, <2>3 DEF Publish, Left
    <3> HIDE DEF n
    <3> QED
      BY <1>2, <1>4, <2>1, <3>1
  <2> QED
    BY <2>2, <2>3
<1>8. CASE Connect \/ UNCHANGED vars
  BY <1>4, <1>8 DEF Connect, vars
<1> QED
  BY <1>5, <1>6, <1>7, <1>8 DEF Next, Tick, Note, Supplement

\* A fetch cannot go on for ever, whatever the exchange answers: every page
\* moves start_tmp forward, and every step uses up one of at most
\* len(_mm_symbol_list) * (2 * MaxTime + 2) + 2 * MaxTime + 2.
THEOREM FetchesRunDown ==
  Spec => [][pc # "idle" => Left' \in Nat /\ (Left' < Left \/ UNCHANGED <<fetch, pc>>)]_vars
<1>1. /\ TypeInv /\ FetchInv /\ TypeInv' /\ [Next]_vars
      => [pc # "idle" => Left' \in Nat /\ (Left' < Left \/ UNCHANGED <<fetch, pc>>)]_vars
  BY FetchNears
<1> QED
  BY <1>1, IInvCorrect, PTL DEF Spec
=============================================================================
