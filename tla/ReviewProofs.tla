------------------------------ MODULE ReviewProofs ------------------------------
(***************************************************************************)
(* The invariants of ReviewService, and that it implements RatingLife, for    *)
(* any orders, items, goroutines, ratings and bounds.                         *)
(*                                                                         *)
(* All of them rest on what a step may do to the table of reviews: nothing,   *)
(* or one of the four changes below to one row.  That an edit is one of them   *)
(* is an invariant of its own, since an edit is checked one step and written   *)
(* another: whatever happens in between, the row it was checked against is     *)
(* still there, and still a buyer's.                                          *)
(***************************************************************************)
EXTENDS ReviewService, TLAPS

\* What a step may do to the row of one review.
Added(x) ==
  /\ reviews[x] = NoReview
  /\ \E rating \in 1..5, system \in BOOLEAN :
       /\ system => rating = 5
       /\ reviews' = [reviews EXCEPT ![x] = [state |-> "live", rating |-> rating,
                                             system |-> system, age |-> "new"]]

Improved(x) ==
  /\ reviews[x].state = "live" /\ ~reviews[x].system
  /\ \E rating \in 4..5 : reviews' = [reviews EXCEPT ![x].rating = rating]

Withdrawn(x) ==
  /\ reviews[x].state = "live"
  /\ reviews' = [reviews EXCEPT ![x].state = "deleted"]

Aged(x) ==
  /\ reviews[x].state = "live"
  /\ \E age \in {"settled", "old"} : reviews' = [reviews EXCEPT ![x].age = age]

Changes ==
  \/ UNCHANGED reviews
  \/ \E x \in Subjects : Added(x) \/ Improved(x) \/ Withdrawn(x) \/ Aged(x)

\* The rows a step has found are there after it, and whose they are is as it was.
RowsStay ==
  \A x \in Subjects :
    reviews[x] # NoReview
      => reviews'[x] # NoReview /\ reviews'[x].system = reviews[x].system

\* An edit that was checked gives a buyer's review a positive rating.
EditsImprove ==
  \A g \in Callers :
    call[g].verb = "update"
      => /\ call[g].rating >= 4
         /\ reviews[call[g].about] # NoReview
         /\ ~reviews[call[g].about].system

\* The items of the order that the ticker is at, and has been through.
Visited ==
  IF ticker.at = "mark" THEN {ticker.about[1]} \X Items
  ELSE IF ticker.at \in {"item", "create", "insert"}
    THEN {ticker.about[1]} \X {i \in Items : i < ticker.about[2]}
    ELSE {}

VisitedIsReviewed == \A x \in Visited : reviews[x] # NoReview

IInv ==
  /\ TypeOK
  /\ DefaultIsFinal
  /\ EditsImprove
  /\ VisitedIsReviewed
  /\ ProcessedIsReviewed

-----------------------------------------------------------------------------
(* Steps.                                                                   *)

\* A new row is one of the changes, given that only defaults are the system's.
LEMMA InsertAdds ==
  ASSUME TypeOK, NEW x \in Subjects, NEW rating \in 1..5, NEW system \in BOOLEAN,
         system => rating = 5, Insert(x, rating, system)
  PROVE  Changes /\ reviews'[x] # NoReview
<1>1. CASE reviews[x] = NoReview
  <2>1. reviews' = [reviews EXCEPT ![x] = [state |-> "live", rating |-> rating,
                                           system |-> system, age |-> "new"]]
    BY <1>1 DEF Insert
  <2>2. Added(x)
    BY <1>1, <2>1 DEF Added
  <2>3. reviews'[x].state = "live"
    BY <2>1 DEF TypeOK
  <2> QED
    BY <2>2, <2>3 DEF Changes, NoReview
<1>2. CASE reviews[x] # NoReview
  BY <1>2 DEF Insert, Changes
<1> QED
  BY <1>1, <1>2

\* Every step leaves the table of reviews alone or changes one row of it in one
\* of the four ways.
LEMMA StepChanges ==
  ASSUME TypeOK, EditsImprove, [Next]_vars
  PROVE  Changes
<1>1. ASSUME NEW g \in Callers, NEW x \in Subjects, Calls(g, x)
      PROVE  Changes
  BY <1>1 DEF Calls, CreateReview, UpdateReview, DeleteReview, AppendReview,
     CreateSellerReply, Checks, rowVars, Changes
<1>2. ASSUME NEW g \in Callers, Writes(g)
      PROVE  Changes
  <2>. DEFINE x == call[g].about
  <2>0. call[g].verb # "none" => call[g] \in Call
    BY DEF TypeOK, NoCall
  <2>1. CASE InsertReview(g)
    <3>1. call[g] \in Call
      BY <2>0, <2>1 DEF InsertReview
    <3>2. x \in Subjects /\ call[g].rating \in 1..5
      BY <3>1 DEF Call
    <3> QED
      BY <2>1, <3>2, InsertAdds DEF InsertReview
  <2>2. CASE WriteReview(g)
    <3>1. call[g] \in Call
      BY <2>0, <2>2 DEF WriteReview
    <3>2. x \in Subjects /\ call[g].rating \in 4..5 /\ ~reviews[x].system
      BY <2>2, <3>1 DEF Call, EditsImprove, WriteReview
    <3> QED
      BY <2>2, <3>2 DEF WriteReview, Changes, Improved, Live
  <2>3. CASE MarkDeleted(g)
    <3>1. call[g] \in Call
      BY <2>0, <2>3 DEF MarkDeleted
    <3>2. x \in Subjects
      BY <3>1 DEF Call
    <3> QED
      BY <2>3, <3>2 DEF MarkDeleted, Changes, Withdrawn, Live
  <2>4. CASE InsertAppended(g) \/ InsertReply(g)
    BY <2>4 DEF InsertAppended, InsertReply, Changes
  <2> QED
    BY <1>2, <2>1, <2>2, <2>3, <2>4 DEF Writes
<1>3. ASSUME NEW o \in Orders, HandleOrderDelivered(o) \/ DeliveryDue(o)
      PROVE  Changes
  BY <1>3 DEF HandleOrderDelivered, DeliveryDue, Changes
<1>4. CASE TickerStep
  <2>1. CASE InsertDefault
    <3>1. ticker \in Ticker /\ ticker.at = "insert"
      BY <2>1 DEF InsertDefault, TypeOK, Resting
    <3>2. ticker.about \in Subjects
      BY <3>1 DEF Ticker
    <3>3. Insert(ticker.about, 5, TRUE)
      BY <2>1 DEF InsertDefault
    <3>4. 5 \in 1..5 /\ TRUE \in BOOLEAN
      OBVIOUS
    <3> QED
      BY ONLY TypeOK, <3>2, <3>3, <3>4, InsertAdds
  <2>2. CASE Tick \/ FindItem \/ CreateDefault \/ MarkProcessed
    BY <2>2 DEF Tick, FindItem, CreateDefault, MarkProcessed, rowVars, Changes
  <2> QED
    BY <1>4, <2>1, <2>2 DEF TickerStep
<1>5. ASSUME NEW o \in Orders, FetchOrder(o) \/ SkipOrder(o)
      PROVE  Changes
  BY <1>5 DEF FetchOrder, SkipOrder, rowVars, Changes
<1>6. ASSUME NEW x \in Subjects, ReviewAges(x)
      PROVE  Changes
  BY <1>6 DEF ReviewAges, Live, Changes, Aged
<1>7. CASE (\E g \in Callers : CallFails(g)) \/ OrderFails \/ Crash \/ UNCHANGED vars
  BY <1>7 DEF CallFails, OrderFails, Crash, Fails, rowVars, vars, Changes
<1> QED
  BY <1>1, <1>2, <1>3, <1>4, <1>5, <1>6, <1>7 DEF Next

\* Rows are never removed, and never pass from the system to a buyer or back.
LEMMA ChangesKeep ==
  ASSUME TypeOK, Changes
  PROVE  RowsStay
<1>1. ASSUME NEW x \in Subjects, Added(x) \/ Improved(x) \/ Withdrawn(x) \/ Aged(x),
             NEW y \in Subjects, reviews[y] # NoReview
      PROVE  reviews'[y] # NoReview /\ reviews'[y].system = reviews[y].system
  <2>1. reviews[y] \in Review /\ reviews[x] \in Review \cup {NoReview}
    BY <1>1 DEF TypeOK
  <2>2. CASE x # y
    BY <1>1, <2>2 DEF TypeOK, Added, Improved, Withdrawn, Aged
  <2>3. CASE x = y
    <3>1. reviews'[x].state \in {"live", "deleted"} /\ reviews'[x].system = reviews[x].system
      BY <1>1, <2>1, <2>3 DEF TypeOK, Added, Improved, Withdrawn, Aged, Review
    <3> QED
      BY <2>3, <3>1 DEF NoReview
  <2> QED
    BY <2>2, <2>3
<1> QED
  BY <1>1 DEF Changes, RowsStay

\* The changes keep the type of the table.
LEMMA ChangesTyped ==
  ASSUME TypeOK, Changes
  PROVE  reviews' \in [Subjects -> Review \cup {NoReview}]
<1>1. ASSUME NEW x \in Subjects, Added(x) \/ Improved(x) \/ Withdrawn(x) \/ Aged(x)
      PROVE  reviews' \in [Subjects -> Review \cup {NoReview}]
  <2>1. CASE Added(x)
    BY <2>1 DEF TypeOK, Added, Review
  <2>2. ASSUME reviews[x].state = "live"
        PROVE  reviews[x] \in Review
    BY <2>2 DEF TypeOK, NoReview
  <2>3. CASE Improved(x)
    BY <2>2, <2>3 DEF TypeOK, Improved, Review
  <2>4. CASE Withdrawn(x)
    BY <2>2, <2>4 DEF TypeOK, Withdrawn, Review
  <2>5. CASE Aged(x)
    BY <2>2, <2>5 DEF TypeOK, Aged, Review
  <2> QED
    BY <1>1, <2>1, <2>3, <2>4, <2>5
<1> QED
  BY <1>1 DEF Changes, TypeOK

\* No call and no step of the ticker leaves the types.
LEMMA TypeStep ==
  ASSUME TypeOK, EditsImprove, [Next]_vars
  PROVE  TypeOK'
<1>1. reviews' \in [Subjects -> Review \cup {NoReview}]
  BY StepChanges, ChangesTyped
<1>2. ASSUME NEW g \in Callers, NEW x \in Subjects, Calls(g, x)
      PROVE  TypeOK'
  <2>1. ASSUME NEW verb \in {"create", "update", "delete", "append", "reply"},
               NEW rating \in 1..5, NEW reply \in ReplyType,
               Checks(g, verb, x, rating, reply)
        PROVE  TypeOK'
    <3>1. [verb |-> verb, about |-> x, rating |-> rating, reply |-> reply] \in Call
      BY DEF Call
    <3>2. call' \in [Callers -> Call \cup {NoCall}]
      BY <2>1, <3>1 DEF Checks, TypeOK
    <3>3. used' \in [calls : 0..MaxCalls, faults : 0..MaxFaults]
      BY <2>1, BoundsAssumption DEF Checks, TypeOK
    <3> QED
      BY <1>1, <2>1, <3>2, <3>3 DEF Checks, TypeOK, rowVars
  <2>2. Ratings \subseteq 1..5 /\ 5 \in 1..5
    BY RatingsAssumption
  <2>3. CASE \E rating \in Ratings : CreateReview(g, x, rating) \/ UpdateReview(g, x, rating)
    BY <2>1, <2>2, <2>3 DEF CreateReview, UpdateReview, ReplyType
  <2>4. CASE DeleteReview(g, x) \/ AppendReview(g, x)
    BY <2>1, <2>2, <2>4 DEF DeleteReview, AppendReview, ReplyType
  <2>5. CASE \E reply \in ReplyType : CreateSellerReply(g, x, reply)
    BY <2>1, <2>2, <2>5 DEF CreateSellerReply
  <2> QED
    BY <1>2, <2>3, <2>4, <2>5 DEF Calls
<1>3. ASSUME NEW g \in Callers, Writes(g)
      PROVE  TypeOK'
  <2>1. call' \in [Callers -> Call \cup {NoCall}]
    BY <1>3 DEF Writes, InsertReview, WriteReview, MarkDeleted, InsertAppended,
       InsertReply, Returns, TypeOK
  <2>2. UNCHANGED <<deliveries, ticker, used>>
    BY <1>3 DEF Writes, InsertReview, WriteReview, MarkDeleted, InsertAppended,
       InsertReply, Returns
  <2>3. CASE InsertReview(g) \/ WriteReview(g) \/ MarkDeleted(g)
    <3>1. UNCHANGED <<appended, replies>>
      BY <2>3 DEF InsertReview, WriteReview, MarkDeleted
    <3> QED
      BY <1>1, <2>1, <2>2, <3>1 DEF TypeOK
  <2>4. CASE InsertAppended(g) \/ InsertReply(g)
    <3>1. call[g] \in Call
      BY <2>4 DEF TypeOK, NoCall, InsertAppended, InsertReply
    <3>2. call[g].about \in Subjects /\ call[g].reply \in ReplyType
      BY <3>1 DEF Call
    <3>3. appended' \in SUBSET Subjects
      BY <2>4, <3>2 DEF TypeOK, InsertAppended, InsertReply
    <3>4. replies' \in [Subjects -> SUBSET ReplyType]
      BY <2>4, <3>2 DEF TypeOK, InsertAppended, InsertReply
    <3> QED
      BY <1>1, <2>1, <2>2, <3>3, <3>4 DEF TypeOK
  <2> QED
    BY <1>3, <2>3, <2>4 DEF Writes
<1>4. ASSUME NEW o \in Orders, HandleOrderDelivered(o) \/ DeliveryDue(o)
      PROVE  TypeOK'
  BY <1>4 DEF HandleOrderDelivered, DeliveryDue, TypeOK
<1>5. ticker # Resting => ticker \in Ticker
  BY DEF TypeOK
<1>6. ASSUME NEW todo \in SUBSET Orders
      PROVE  AfterOrder(todo) \in Ticker \cup {Resting}
  BY <1>6 DEF AfterOrder, Ticker
<1>7. ASSUME ticker \in Ticker, NEW x \in Subjects, NEW stage \in {"item", "create", "insert", "mark"}
      PROVE  [at |-> stage, todo |-> ticker.todo, about |-> x] \in Ticker
  BY <1>7 DEF Ticker
<1>8. ASSUME ticker.at \in {"item", "create", "insert", "mark"}
      PROVE  ticker \in Ticker /\ ticker.about \in Subjects /\ ticker.todo \in SUBSET Orders
  <2>1. ticker \in Ticker
    BY <1>5, <1>8 DEF Resting
  <2> QED
    BY <1>8, <2>1 DEF Ticker
<1>9. ASSUME ticker.at \in {"item", "create", "insert", "mark"}, NextItem(ticker.about)
      PROVE  ticker' \in Ticker
  <2>1. ticker \in Ticker /\ ticker.about \in Subjects
    BY <1>8, <1>9
  <2>2. CASE ticker.about[2] < NumItems
    <3>1. <<ticker.about[1], ticker.about[2] + 1>> \in Subjects
      BY <2>1, <2>2, ItemsAssumption DEF Subjects, Items
    <3> QED
      BY <1>7, <1>9, <2>1, <2>2, <3>1 DEF NextItem, GoesTo
  <2>3. CASE ~(ticker.about[2] < NumItems)
    BY <1>7, <1>9, <2>1, <2>3 DEF NextItem, GoesTo
  <2> QED
    BY <2>2, <2>3
<1>10. ASSUME ticker.at \in {"item", "create", "insert", "mark"}, GiveUpOrder
       PROVE  ticker' \in Ticker \cup {Resting}
  BY <1>6, <1>8, <1>10 DEF GiveUpOrder
<1>11. CASE TickerStep
  <2>1. CASE Tick
    <3>1. [at |-> "order", todo |-> {o \in Orders : deliveries[o] = "due"}] \in Ticker
      BY DEF Ticker
    <3> QED
      BY <1>1, <2>1, <3>1 DEF Tick, rowVars, TypeOK
  <2>2. CASE FindItem
    <3>1. ticker' \in Ticker
      BY <1>7, <1>8, <1>9, <2>2 DEF FindItem, GoesTo
    <3> QED
      BY <2>2, <3>1 DEF FindItem, rowVars, TypeOK
  <2>3. CASE CreateDefault
    <3>1. ticker' \in Ticker \cup {Resting}
      BY <1>7, <1>8, <1>10, <2>3 DEF CreateDefault, GoesTo
    <3> QED
      BY <2>3, <3>1 DEF CreateDefault, rowVars, TypeOK
  <2>4. CASE InsertDefault
    <3>1. ticker' \in Ticker \cup {Resting}
      BY <1>9, <1>10, <2>4 DEF InsertDefault
    <3> QED
      BY <1>1, <2>4, <3>1 DEF InsertDefault, TypeOK
  <2>5. CASE MarkProcessed
    <3>1. ticker.about[1] \in Orders
      BY <1>8, <2>5 DEF MarkProcessed, Subjects
    <3>2. ticker' \in Ticker \cup {Resting}
      BY <1>6, <1>8, <2>5 DEF MarkProcessed
    <3>3. deliveries' \in [Orders -> {"none", "recorded", "due", "processed"}]
      BY <2>5, <3>1 DEF MarkProcessed, TypeOK
    <3> QED
      BY <2>5, <3>2, <3>3 DEF MarkProcessed, TypeOK
  <2> QED
    BY <1>11, <2>1, <2>2, <2>3, <2>4, <2>5 DEF TickerStep
<1>12. ASSUME NEW o \in Orders, FetchOrder(o) \/ SkipOrder(o)
       PROVE  TypeOK'
  <2>1. ticker \in Ticker
    BY <1>5, <1>12 DEF FetchOrder, SkipOrder, Resting
  <2>2. ticker.todo \in SUBSET Orders
    BY <2>1 DEF Ticker
  <2>3. <<o, 1>> \in Subjects
    BY ItemsAssumption DEF Subjects, Items
  <2>4. [at |-> "item", todo |-> ticker.todo \ {o}, about |-> <<o, 1>>] \in Ticker
    BY <2>2, <2>3 DEF Ticker
  <2>5. AfterOrder(ticker.todo \ {o}) \in Ticker \cup {Resting}
    BY <1>6, <2>2
  <2> QED
    BY <1>12, <2>4, <2>5 DEF FetchOrder, SkipOrder, rowVars, TypeOK
<1>13. ASSUME NEW x \in Subjects, ReviewAges(x)
       PROVE  TypeOK'
  BY <1>1, <1>13 DEF ReviewAges, TypeOK
<1>14. ASSUME Fails
       PROVE  used' \in [calls : 0..MaxCalls, faults : 0..MaxFaults]
  BY <1>14, BoundsAssumption DEF Fails, TypeOK
<1>15. ASSUME NEW g \in Callers, CallFails(g)
       PROVE  TypeOK'
  BY <1>14, <1>15 DEF CallFails, Fails, rowVars, TypeOK
<1>16. CASE OrderFails
  BY <1>10, <1>14, <1>16 DEF OrderFails, Fails, rowVars, TypeOK
<1>17. CASE Crash
  BY <1>14, <1>17 DEF Crash, Fails, rowVars, TypeOK
<1>18. CASE UNCHANGED vars
  BY <1>18 DEF vars, rowVars, TypeOK
<1> QED
  BY <1>2, <1>3, <1>4, <1>11, <1>12, <1>13, <1>15, <1>16, <1>17, <1>18 DEF Next

\* A default review has five stars and is not edited.
LEMMA DefaultStep ==
  ASSUME TypeOK, DefaultIsFinal, Changes
  PROVE  DefaultIsFinal'
<1>1. ASSUME NEW x \in Subjects, Added(x) \/ Improved(x) \/ Withdrawn(x) \/ Aged(x),
             NEW y \in Subjects, reviews'[y] # NoReview, reviews'[y].system
      PROVE  reviews'[y].rating = 5
  <2>1. CASE x # y
    BY <1>1, <2>1 DEF TypeOK, DefaultIsFinal, Added, Improved, Withdrawn, Aged
  <2>2. CASE x = y /\ Added(x)
    BY <1>1, <2>2 DEF TypeOK, Added
  <2>3. CASE x = y /\ ~Added(x)
    <3>1. reviews[x].state = "live" /\ reviews[x] \in Review
      BY <1>1, <2>3 DEF TypeOK, NoReview, Improved, Withdrawn, Aged
    <3> QED
      BY <1>1, <2>3, <3>1
         DEF TypeOK, DefaultIsFinal, Improved, Withdrawn, Aged, Review, NoReview
  <2> QED
    BY <2>1, <2>2, <2>3
<1> QED
  BY <1>1 DEF Changes, DefaultIsFinal

\* An edit is checked against a review that a default cannot be, and what it was
\* checked against stays.
LEMMA EditsStep ==
  ASSUME TypeOK, DefaultIsFinal, EditsImprove, RowsStay, [Next]_vars
  PROVE  EditsImprove'
<1>. SUFFICES ASSUME NEW g \in Callers, call'[g].verb = "update"
              PROVE  /\ call'[g].rating >= 4
                     /\ reviews'[call'[g].about] # NoReview
                     /\ ~reviews'[call'[g].about].system
  BY DEF EditsImprove
<1>1. CASE call'[g] = call[g]
  <2>1. call[g] \in Call
    BY <1>1 DEF TypeOK, NoCall
  <2>2. call[g].about \in Subjects
    BY <2>1 DEF Call
  <2> QED
    BY <1>1, <2>2 DEF EditsImprove, RowsStay
<1>2. CASE call'[g] # call[g]
  <2>1. PICK h \in Callers, x \in Subjects : Calls(h, x)
    <3>1. ASSUME NEW h \in Callers, Writes(h)
          PROVE  FALSE
      <4>1. call' = [call EXCEPT ![h] = NoCall]
        BY <3>1 DEF Writes, InsertReview, WriteReview, MarkDeleted, InsertAppended,
           InsertReply, Returns
      <4> QED
        BY <1>2, <4>1 DEF TypeOK, NoCall
    <3>2. ASSUME NEW h \in Callers, CallFails(h)
          PROVE  FALSE
      BY <1>2, <3>2 DEF CallFails, TypeOK, NoCall
    <3>3. ~Crash
      BY <1>2 DEF Crash, NoCall
    <3>4. ~TickerStep /\ ~OrderFails /\ ~(UNCHANGED vars)
      BY <1>2 DEF TickerStep, Tick, FindItem, CreateDefault, InsertDefault,
         MarkProcessed, OrderFails, vars
    <3>5. ASSUME NEW o \in Orders,
                 \/ HandleOrderDelivered(o) \/ DeliveryDue(o)
                 \/ FetchOrder(o) \/ SkipOrder(o)
          PROVE  FALSE
      BY <1>2, <3>5 DEF HandleOrderDelivered, DeliveryDue, FetchOrder, SkipOrder
    <3>6. ASSUME NEW x \in Subjects, ReviewAges(x)
          PROVE  FALSE
      BY <1>2, <3>6 DEF ReviewAges
    <3> QED
      BY <3>1, <3>2, <3>3, <3>4, <3>5, <3>6 DEF Next
  <2>2. \E rating \in Ratings : UpdateReview(h, x, rating)
    <3>1. ASSUME NEW verb, NEW rating, NEW reply, verb # "update",
                 Checks(h, verb, x, rating, reply)
          PROVE  FALSE
      BY <1>2, <3>1 DEF Checks, TypeOK
    <3> QED
      BY <2>1, <3>1 DEF Calls, CreateReview, DeleteReview, AppendReview, CreateSellerReply
  <2>3. PICK rating \in Ratings : UpdateReview(h, x, rating)
    BY <2>2
  <2>4. call'[g].about = x /\ call'[g].rating = rating /\ reviews' = reviews
    BY <1>2, <2>3 DEF UpdateReview, Checks, TypeOK, rowVars
  <2>5. reviews[x] \in Review /\ ~Positive(reviews[x].rating) /\ Positive(rating)
    BY <2>3 DEF UpdateReview, Live, TypeOK, NoReview
  <2>6. reviews[x] # NoReview /\ ~reviews[x].system
    BY <2>3, <2>5 DEF DefaultIsFinal, Positive, UpdateReview, Live, NoReview
  <2> QED
    BY <2>4, <2>5, <2>6 DEF Positive
<1> QED
  BY <1>1, <1>2
\* Going on to the next item adds the present one to what was visited.
LEMMA NextVisits ==
  ASSUME TypeOK, VisitedIsReviewed, RowsStay,
         ticker.at \in {"item", "create", "insert"}, NextItem(ticker.about),
         reviews'[ticker.about] # NoReview
  PROVE  VisitedIsReviewed'
<1>1. ticker \in Ticker
  BY DEF TypeOK, Resting
<1>2. ticker.about \in Subjects
  BY <1>1 DEF Ticker
<1>. DEFINE o == ticker.about[1]
            n == ticker.about[2]
<1>3. o \in Orders /\ n \in Items /\ ticker.about = <<o, n>>
  BY <1>2 DEF Subjects
<1>4. Visited = {o} \X {i \in Items : i < n}
  BY DEF Visited
<1>5. ASSUME NEW i \in Items, i <= n
      PROVE  reviews'[<<o, i>>] # NoReview
  <2>1. CASE i = n
    BY <1>3, <2>1
  <2>2. CASE i # n
    <3>1. <<o, i>> \in Visited /\ <<o, i>> \in Subjects
      BY <1>3, <1>4, <1>5, <2>2 DEF Items, Subjects
    <3> QED
      BY <3>1 DEF VisitedIsReviewed, RowsStay
  <2> QED
    BY <2>1, <2>2
<1>6. CASE n < NumItems
  <2>1. ticker'.at = "item" /\ ticker'.about = <<o, n + 1>>
    BY <1>6 DEF NextItem, GoesTo
  <2>2. Visited' = {o} \X {i \in Items : i < n + 1}
    BY <2>1 DEF Visited
  <2>3. \A i \in Items : i < n + 1 => i <= n
    BY <1>3, ItemsAssumption DEF Items
  <2> QED
    BY <1>5, <2>2, <2>3 DEF VisitedIsReviewed
<1>7. CASE ~(n < NumItems)
  <2>1. ticker'.at = "mark" /\ ticker'.about = ticker.about
    BY <1>7 DEF NextItem, GoesTo
  <2>2. Visited' = {o} \X Items
    BY <2>1 DEF Visited
  <2>3. \A i \in Items : i <= n
    BY <1>3, <1>7, ItemsAssumption DEF Items
  <2> QED
    BY <1>5, <2>2, <2>3 DEF VisitedIsReviewed
<1> QED
  BY <1>6, <1>7

\* What the ticker has been through is reviewed, however it goes on.
LEMMA VisitedStep ==
  ASSUME TypeOK, EditsImprove, VisitedIsReviewed, RowsStay, [Next]_vars
  PROVE  VisitedIsReviewed'
<1>1. Visited \subseteq Subjects
  <2>1. CASE ticker.at \in {"item", "create", "insert", "mark"}
    <3>1. ticker \in Ticker
      BY <2>1 DEF TypeOK, Resting
    <3>2. ticker.about \in Subjects
      BY <2>1, <3>1 DEF Ticker
    <3> QED
      BY <3>2 DEF Visited, Subjects
  <2>2. CASE ~(ticker.at \in {"item", "create", "insert", "mark"})
    BY <2>2 DEF Visited
  <2> QED
    BY <2>1, <2>2
<1>2. ASSUME Visited' = Visited
      PROVE  VisitedIsReviewed'
  BY <1>1, <1>2 DEF VisitedIsReviewed, RowsStay
<1>3. ASSUME ticker' = ticker
      PROVE  VisitedIsReviewed'
  BY <1>2, <1>3 DEF Visited
<1>4. ASSUME ticker'.at \in {"order", "rest"}
      PROVE  VisitedIsReviewed'
  BY <1>4 DEF Visited, VisitedIsReviewed
<1>5. ASSUME GiveUpOrder
      PROVE  VisitedIsReviewed'
  BY <1>4, <1>5 DEF GiveUpOrder, AfterOrder, Resting
<1>6. ASSUME NEW stage \in {"create", "insert"}, GoesTo(stage, ticker.about),
             ticker.at \in {"item", "create"}
      PROVE  VisitedIsReviewed'
  BY <1>2, <1>6 DEF GoesTo, Visited
<1>7. CASE FindItem
  <2>1. ticker.at = "item" /\ UNCHANGED reviews
    BY <1>7 DEF FindItem, rowVars
  <2>2. CASE Live(ticker.about)
    <3>1. reviews'[ticker.about] # NoReview /\ NextItem(ticker.about)
      BY <1>7, <2>1, <2>2 DEF FindItem, Live, NoReview
    <3> QED
      BY <2>1, <3>1, NextVisits
  <2>3. CASE ~Live(ticker.about)
    BY <1>6, <1>7, <2>1, <2>3 DEF FindItem
  <2> QED
    BY <2>2, <2>3
<1>8. CASE CreateDefault
  BY <1>5, <1>6, <1>8 DEF CreateDefault
<1>9. CASE InsertDefault
  <2>1. CASE reviews[ticker.about] = NoReview
    <3>1. ticker.at = "insert" /\ ticker \in Ticker
      BY <1>9 DEF InsertDefault, TypeOK, Resting
    <3>2. ticker.about \in Subjects /\ Insert(ticker.about, 5, TRUE)
      BY <1>9, <3>1 DEF InsertDefault, Ticker
    <3>3. 5 \in 1..5 /\ TRUE \in BOOLEAN
      OBVIOUS
    <3>4. reviews'[ticker.about] # NoReview
      BY ONLY TypeOK, <3>2, <3>3, InsertAdds
    <3>5. NextItem(ticker.about)
      BY <1>9, <2>1 DEF InsertDefault
    <3> QED
      BY <3>1, <3>4, <3>5, NextVisits
  <2>2. CASE reviews[ticker.about] # NoReview
    BY <1>5, <1>9, <2>2 DEF InsertDefault
  <2> QED
    BY <2>1, <2>2
<1>10. CASE Tick \/ MarkProcessed \/ OrderFails \/ Crash
  BY <1>4, <1>5, <1>10
     DEF Tick, MarkProcessed, AfterOrder, OrderFails, Crash, Resting
<1>11. ASSUME NEW o \in Orders, FetchOrder(o)
       PROVE  VisitedIsReviewed'
  <2>1. ticker'.at = "item" /\ ticker'.about = <<o, 1>>
    BY <1>11 DEF FetchOrder
  <2>2. {i \in Items : i < 1} = {}
    BY ItemsAssumption DEF Items
  <2>3. Visited' = {}
    BY <2>1, <2>2 DEF Visited
  <2> QED
    BY <2>3 DEF VisitedIsReviewed
<1>12. ASSUME NEW o \in Orders, SkipOrder(o)
       PROVE  VisitedIsReviewed'
  BY <1>4, <1>12 DEF SkipOrder, AfterOrder, Resting
<1>13. ASSUME NEW g \in Callers, Writes(g) \/ CallFails(g)
       PROVE  VisitedIsReviewed'
  BY <1>3, <1>13 DEF Writes, InsertReview, WriteReview, MarkDeleted, InsertAppended,
     InsertReply, Returns, CallFails
<1>14. ASSUME NEW g \in Callers, NEW x \in Subjects, Calls(g, x)
       PROVE  VisitedIsReviewed'
  BY <1>3, <1>14 DEF Calls, CreateReview, UpdateReview, DeleteReview, AppendReview,
     CreateSellerReply, Checks
<1>15. ASSUME NEW o \in Orders, HandleOrderDelivered(o) \/ DeliveryDue(o)
       PROVE  VisitedIsReviewed'
  BY <1>3, <1>15 DEF HandleOrderDelivered, DeliveryDue
<1>16. ASSUME NEW x \in Subjects, ReviewAges(x)
       PROVE  VisitedIsReviewed'
  BY <1>3, <1>16 DEF ReviewAges
<1>17. CASE UNCHANGED vars
  BY <1>3, <1>17 DEF vars
<1> QED
  BY <1>7, <1>8, <1>9, <1>10, <1>11, <1>12, <1>13, <1>14, <1>15, <1>16, <1>17
     DEF Next, TickerStep

\* An order is marked when the ticker has been through all of its items.
LEMMA ProcessedStep ==
  ASSUME TypeOK, ProcessedIsReviewed, VisitedIsReviewed, RowsStay, [Next]_vars
  PROVE  ProcessedIsReviewed'
<1>1. ASSUME \A o \in Orders : deliveries'[o] = "processed" => deliveries[o] = "processed"
      PROVE  ProcessedIsReviewed'
  BY <1>1 DEF ProcessedIsReviewed, RowsStay, Subjects
<1>2. CASE MarkProcessed
  <2>1. ticker.at = "mark" /\ ticker \in Ticker /\ UNCHANGED reviews
    BY <1>2 DEF MarkProcessed, TypeOK, Resting
  <2>2. ticker.about \in Subjects
    BY <2>1 DEF Ticker
  <2>3. \A i \in Items : reviews[<<ticker.about[1], i>>] # NoReview
    BY <2>1 DEF VisitedIsReviewed, Visited
  <2>4. ASSUME NEW x \in Subjects, deliveries'[x[1]] = "processed"
        PROVE  reviews'[x] # NoReview
    <3>1. CASE x[1] = ticker.about[1]
      BY <2>1, <2>3, <3>1 DEF Subjects
    <3>2. CASE x[1] # ticker.about[1]
      <4>1. deliveries[x[1]] = "processed"
        BY <1>2, <2>2, <2>4, <3>2 DEF MarkProcessed, TypeOK, Subjects
      <4> QED
        BY <2>1, <4>1 DEF ProcessedIsReviewed
    <3> QED
      BY <3>1, <3>2
  <2> QED
    BY <2>4 DEF ProcessedIsReviewed
<1>3. ASSUME NEW o \in Orders, HandleOrderDelivered(o) \/ DeliveryDue(o)
      PROVE  ProcessedIsReviewed'
  <2>1. \A p \in Orders : deliveries'[p] = "processed" => deliveries[p] = "processed"
    BY <1>3 DEF HandleOrderDelivered, DeliveryDue, TypeOK
  <2> QED
    BY <1>1, <2>1
<1>4. CASE UNCHANGED deliveries
  BY <1>1, <1>4
<1>5. ASSUME NEW g \in Callers, NEW x \in Subjects, Calls(g, x)
      PROVE  UNCHANGED deliveries
  BY <1>5 DEF Calls, CreateReview, UpdateReview, DeleteReview, AppendReview,
     CreateSellerReply, Checks, rowVars
<1>6. ASSUME NEW g \in Callers, Writes(g) \/ CallFails(g)
      PROVE  UNCHANGED deliveries
  BY <1>6 DEF Writes, InsertReview, WriteReview, MarkDeleted, InsertAppended,
     InsertReply, Returns, CallFails, Fails, rowVars
<1>7. ASSUME NEW o \in Orders, FetchOrder(o) \/ SkipOrder(o)
      PROVE  UNCHANGED deliveries
  BY <1>7 DEF FetchOrder, SkipOrder, rowVars
<1>8. ASSUME NEW x \in Subjects, ReviewAges(x)
      PROVE  UNCHANGED deliveries
  BY <1>8 DEF ReviewAges
<1>9. ASSUME Tick \/ FindItem \/ CreateDefault \/ InsertDefault \/ OrderFails \/ Crash
             \/ UNCHANGED vars
      PROVE  UNCHANGED deliveries
  BY <1>9 DEF Tick, FindItem, CreateDefault, InsertDefault, OrderFails, Crash, Fails,
     rowVars, vars
<1> QED
  BY <1>2, <1>3, <1>4, <1>5, <1>6, <1>7, <1>8, <1>9 DEF Next, TickerStep

-----------------------------------------------------------------------------
(* The theorems.                                                            *)

\* Nothing is reviewed, asked for or announced at first.
LEMMA InitInv == Init => IInv
<1>. SUFFICES ASSUME Init PROVE IInv
  OBVIOUS
<1>1. TypeOK
  BY BoundsAssumption DEF Init, TypeOK
<1>2. EditsImprove
  BY DEF Init, EditsImprove, NoCall
<1>3. VisitedIsReviewed
  BY DEF Init, VisitedIsReviewed, Visited, Resting
<1>4. DefaultIsFinal
  BY DEF Init, DefaultIsFinal
<1>5. ProcessedIsReviewed
  BY DEF Init, ProcessedIsReviewed, Subjects
<1> QED
  BY <1>1, <1>2, <1>3, <1>4, <1>5 DEF IInv

\* Every step keeps the conjunction.
LEMMA NextInv == IInv /\ [Next]_vars => IInv'
<1>. SUFFICES ASSUME IInv, [Next]_vars PROVE IInv'
  OBVIOUS
<1>1. TypeOK /\ DefaultIsFinal /\ EditsImprove /\ VisitedIsReviewed /\ ProcessedIsReviewed
  BY DEF IInv
<1>2. Changes /\ RowsStay
  BY <1>1, StepChanges, ChangesKeep
<1>3. TypeOK' /\ EditsImprove' /\ DefaultIsFinal'
  BY <1>1, <1>2, TypeStep, EditsStep, DefaultStep
<1>4. VisitedIsReviewed' /\ ProcessedIsReviewed'
  BY <1>1, <1>2, VisitedStep, ProcessedStep
<1> QED
  BY <1>3, <1>4 DEF IInv

\* The conjunction holds in every reachable state.
THEOREM InvHolds == Spec => []IInv
<1> QED
  BY InitInv, NextInv, PTL DEF Spec

\* Every reachable state is well typed.
THEOREM ReviewTypeOK == Spec => []TypeOK
<1>1. IInv => TypeOK
  BY DEF IInv
<1> QED
  BY <1>1, InvHolds, PTL

\* An order that processAutoReviews is done with has had a review of each item.
THEOREM DoneIsReviewed == Spec => []ProcessedIsReviewed
<1>1. IInv => ProcessedIsReviewed
  BY DEF IInv
<1> QED
  BY <1>1, InvHolds, PTL

\* No edit, however old its check, changes the stars of a default review.
THEOREM DefaultsStay == Spec => []DefaultIsFinal
<1>1. IInv => DefaultIsFinal
  BY DEF IInv
<1> QED
  BY <1>1, InvHolds, PTL

\* The four changes of a row are steps of RatingLife, or stutter.
LEMMA ChangesRated ==
  ASSUME TypeOK, Changes
  PROVE  [Life!RatedNext]_Rating
<1>1. ASSUME UNCHANGED reviews
      PROVE  UNCHANGED Rating
  BY <1>1 DEF Rating, RatedAs
<1>2. ASSUME NEW x \in Subjects, Added(x) \/ Improved(x) \/ Withdrawn(x) \/ Aged(x)
      PROVE  [Life!RatedNext]_Rating
  <2>1. \A y \in Subjects : y # x => RatedAs(y)' = RatedAs(y)
    BY <1>2 DEF TypeOK, Added, Improved, Withdrawn, Aged, RatedAs
  <2>2. Rating' = [Rating EXCEPT ![x] = RatedAs(x)']
    BY <2>1 DEF Rating
  <2>3. Rating[x] = RatedAs(x)
    BY DEF Rating
  <2>4. reviews[x].state = "live" => reviews[x] \in Review
    BY DEF TypeOK, NoReview
  <2>5. CASE Added(x)
    <3>1. RatedAs(x) = "none"
      BY <2>5 DEF Added, RatedAs
    <3>2. reviews'[x].state = "live"
      BY <2>5 DEF Added, TypeOK
    <3>3. RatedAs(x)' \in {"negative", "positive"}
      BY <3>2 DEF RatedAs, NoReview
    <3>4. Life!Give(x, RatedAs(x)')
      BY <2>2, <2>3, <3>1, <3>3 DEF Life!Give
    <3> QED
      BY <3>3, <3>4 DEF Life!RatedNext, Life!Kind
  <2>6. CASE Improved(x)
    <3>1. RatedAs(x) \in {"negative", "positive"}
      BY <2>6 DEF Improved, RatedAs, NoReview
    <3>2. PICK rating \in 4..5 : reviews' = [reviews EXCEPT ![x].rating = rating]
      BY <2>6 DEF Improved
    <3>3. reviews'[x].state = "live" /\ reviews'[x].rating >= 4
      BY <2>4, <2>6, <3>2 DEF Improved, TypeOK, Review
    <3>4. RatedAs(x)' = "positive"
      BY <3>3 DEF RatedAs, Positive, NoReview
    <3>5. CASE RatedAs(x) = "negative"
      <4>1. Life!Improve(x)
        BY <2>2, <2>3, <3>4, <3>5 DEF Life!Improve
      <4> QED
        BY <4>1 DEF Life!RatedNext
    <3>6. CASE RatedAs(x) = "positive"
      BY <2>2, <2>3, <3>4, <3>6 DEF Rating
    <3> QED
      BY <3>1, <3>5, <3>6
  <2>7. CASE Withdrawn(x)
    <3>1. RatedAs(x) \in {"negative", "positive"}
      BY <2>7 DEF Withdrawn, RatedAs, NoReview
    <3>2. reviews'[x].state = "deleted"
      BY <2>4, <2>7 DEF Withdrawn, TypeOK, Review
    <3>3. RatedAs(x)' = "withdrawn"
      BY <3>2 DEF RatedAs, NoReview
    <3>4. Life!Withdraw(x)
      BY <2>2, <2>3, <3>1, <3>3 DEF Life!Withdraw
    <3> QED
      BY <3>4 DEF Life!RatedNext
  <2>8. CASE Aged(x)
    <3>1. /\ reviews'[x].state = "live" /\ reviews[x].state = "live"
          /\ reviews'[x].rating = reviews[x].rating
      BY <2>4, <2>8 DEF Aged, TypeOK, Review
    <3>2. RatedAs(x)' = RatedAs(x)
      BY <3>1 DEF RatedAs, NoReview, Positive
    <3> QED
      BY <2>2, <2>3, <3>2 DEF Rating
  <2> QED
    BY <1>2, <2>5, <2>6, <2>7, <2>8
<1> QED
  BY <1>1, <1>2 DEF Changes

\* review-service implements RatingLife: what it does to the row of a rating,
\* through concurrent edits, deletions, retries and default reviews, is what
\* RatingLife allows.
THEOREM RatingsLive == Spec => ImplementsRatingLife
<1>1. Init => Life!RatedInit
  BY DEF Init, Life!RatedInit, Rating, RatedAs
<1>2. IInv /\ [Next]_vars => [Life!RatedNext]_Rating
  BY StepChanges, ChangesRated DEF IInv
<1> QED
  BY <1>1, <1>2, InvHolds, PTL DEF Spec, ImplementsRatingLife, Life!RatedSpec
=============================================================================
