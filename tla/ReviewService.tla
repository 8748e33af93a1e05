----------------------------- MODULE ReviewService -----------------------------
(***************************************************************************)
(* review-service: buyers review the items of their orders, change or delete  *)
(* their reviews, add to them, and sellers answer; a ticker gives a default     *)
(* review to what is left unreviewed some time after the delivery.             *)
(*                                                                         *)
(* Each call reads the review it is about and writes later, with nothing      *)
(* locked in between; only the conditions of the write itself (deleted_at IS    *)
(* NULL, the UNIQUE constraints) are checked again.  A deleted review keeps     *)
(* its row, and with it the one place that its order and variant have.          *)
(* Ratings of service and delivery, texts and media follow the rating of the    *)
(* description and are left out.  Of time only the windows are kept: reviews    *)
(* pass 30 days, then 180, and deliveries their threshold, at any moment.       *)
(***************************************************************************)
EXTENDS Naturals, FiniteSets

CONSTANTS
  Orders,      \* the orders whose delivery may be announced
  NumItems,    \* the items of every order, reviewed in this order by the ticker
  Callers,     \* goroutines serving buyers and sellers
  Ratings,     \* the ratings buyers give
  MaxCalls,    \* calls of buyers and sellers in one behaviour
  MaxFaults    \* database errors and crashes

ASSUME ItemsAssumption   == NumItems \in Nat \ {0}
ASSUME RatingsAssumption == Ratings \subseteq 1..5
ASSUME BoundsAssumption  == MaxCalls \in Nat /\ MaxFaults \in Nat

VARIABLES
  reviews,     \* the rows of reviews, by order and item
  appended,    \* the reviews that have a row in append_reviews
  replies,     \* seller_replies: which of the two each review has
  deliveries,  \* order_deliveries
  call,        \* what each goroutine serving a call is doing
  ticker,      \* what the goroutine of the ticker is doing
  used         \* how much of each bound is used up

rowVars == <<reviews, appended, replies, deliveries>>
vars == <<rowVars, call, ticker, used>>

Items    == 1..NumItems
Subjects == Orders \X Items

\* age: created_at is less than 30, less than 180, or more days ago.
Review == [state : {"live", "deleted"}, rating : 1..5, system : BOOLEAN,
           age : {"new", "settled", "old"}]

NoReview == [state |-> "none"]

ReplyType == {"initial", "append"}

\* The verb of the call whose check is done and whose write is next.
Call == [verb : {"create", "update", "delete", "append", "reply"}, about : Subjects,
         rating : 1..5, reply : ReplyType]

NoCall == [verb |-> "none"]

\* order   processAutoReviews takes the next delivery of todo
\* item    it looks for a review of the item
\* create  CreateReview looks again, in its transaction
\* insert  ... inserts
\* mark    all items are done: MarkDeliveryProcessed
Ticker == [at : {"order", "item", "create", "insert", "mark"}, todo : SUBSET Orders,
           about : Subjects]
          \cup [at : {"order"}, todo : SUBSET Orders]

Resting == [at |-> "rest"]

TypeOK ==
  /\ reviews \in [Subjects -> Review \cup {NoReview}]
  /\ appended \in SUBSET Subjects
  /\ replies \in [Subjects -> SUBSET ReplyType]
  /\ deliveries \in [Orders -> {"none", "recorded", "due", "processed"}]
  /\ call \in [Callers -> Call \cup {NoCall}]
  /\ ticker \in Ticker \cup {Resting}
  /\ used \in [calls : 0..MaxCalls, faults : 0..MaxFaults]

Init ==
  /\ reviews = [x \in Subjects |-> NoReview]
  /\ appended = {}
  /\ replies = [x \in Subjects |-> {}]
  /\ deliveries = [o \in Orders |-> "none"]
  /\ call = [g \in Callers |-> NoCall]
  /\ ticker = Resting
  /\ used = [calls |-> 0, faults |-> 0]

\* GetReview and GetReviewByOrderAndVariant see only rows that are not deleted.
Live(x) == reviews[x].state = "live"

Positive(rating) == rating >= 4

\* The INSERT of CreateReview fails on any row of the same order and variant.
Insert(x, rating, system) ==
  IF reviews[x] = NoReview
    THEN reviews' = [reviews EXCEPT ![x] = [state |-> "live", rating |-> rating,
                                            system |-> system, age |-> "new"]]
    ELSE UNCHANGED reviews

-----------------------------------------------------------------------------
(* Buyers and sellers.                                                      *)

\* A call passes its checks on review x; the next step of g is its write.
Checks(g, verb, x, rating, reply) ==
  /\ call[g] = NoCall
  /\ used.calls < MaxCalls
  /\ used' = [used EXCEPT !.calls = @ + 1]
  /\ call' = [call EXCEPT ![g] = [verb |-> verb, about |-> x, rating |-> rating,
                                  reply |-> reply]]
  /\ UNCHANGED <<rowVars, ticker>>

CreateReview(g, x, rating) ==
  /\ ~Live(x)
  /\ Checks(g, "create", x, rating, "initial")

\* Fault for mutation: any change of the rating is allowed.
UpdateReviewToAnything(g, x, rating) ==
  /\ Live(x) /\ reviews[x].age = "new"
  /\ ~Positive(reviews[x].rating)
  /\ Checks(g, "update", x, rating, "initial")

\* Fault for mutation: positive reviews may be edited.
UpdateReviewOfAnyRating(g, x, rating) ==
  /\ Live(x) /\ reviews[x].age = "new"
  /\ Positive(rating)
  /\ Checks(g, "update", x, rating, "initial")

UpdateReview(g, x, rating) ==
  /\ Live(x) /\ reviews[x].age = "new"
  /\ ~Positive(reviews[x].rating)
  /\ Positive(rating)
  /\ Checks(g, "update", x, rating, "initial")

DeleteReview(g, x) ==
  /\ Live(x) /\ reviews[x].age = "new"
  /\ Checks(g, "delete", x, 5, "initial")

AppendReview(g, x) ==
  /\ Live(x) /\ reviews[x].age # "old"
  /\ Checks(g, "append", x, 5, "initial")

CreateSellerReply(g, x, reply) ==
  /\ Live(x)
  /\ Checks(g, "reply", x, 5, reply)

Returns(g) ==
  /\ call' = [call EXCEPT ![g] = NoCall]
  /\ UNCHANGED <<deliveries, ticker, used>>

InsertReview(g) ==
  /\ call[g].verb = "create"
  /\ Insert(call[g].about, call[g].rating, FALSE)
  /\ Returns(g)
  /\ UNCHANGED <<appended, replies>>

\* UPDATE ... WHERE deleted_at IS NULL, whatever the row says by now.
WriteReview(g) ==
  LET x == call[g].about IN
  /\ call[g].verb = "update"
  /\ reviews' = IF Live(x) THEN [reviews EXCEPT ![x].rating = call[g].rating] ELSE reviews
  /\ Returns(g)
  /\ UNCHANGED <<appended, replies>>

MarkDeleted(g) ==
  LET x == call[g].about IN
  /\ call[g].verb = "delete"
  /\ reviews' = IF Live(x) THEN [reviews EXCEPT ![x].state = "deleted"] ELSE reviews
  /\ Returns(g)
  /\ UNCHANGED <<appended, replies>>

\* One row per review, whether or not the review has been deleted meanwhile.
InsertAppended(g) ==
  /\ call[g].verb = "append"
  /\ appended' = appended \cup {call[g].about}
  /\ Returns(g)
  /\ UNCHANGED <<reviews, replies>>

InsertReply(g) ==
  /\ call[g].verb = "reply"
  /\ replies' = [replies EXCEPT ![call[g].about] = @ \cup {call[g].reply}]
  /\ Returns(g)
  /\ UNCHANGED <<reviews, appended>>

-----------------------------------------------------------------------------
(* Deliveries and the ticker.                                               *)

\* handleOrderDelivered records the first announcement of an order's delivery.
HandleOrderDelivered(o) ==
  /\ deliveries[o] = "none"
  /\ deliveries' = [deliveries EXCEPT ![o] = "recorded"]
  /\ UNCHANGED <<reviews, appended, replies, call, ticker, used>>

\* GetUnprocessedDeliveries
Tick ==
  LET due == {o \in Orders : deliveries[o] = "due"} IN
  /\ ticker = Resting
  /\ due # {}
  /\ ticker' = [at |-> "order", todo |-> due]
  /\ UNCHANGED <<rowVars, call, used>>

\* The loop goes on with the deliveries that are left.
AfterOrder(left) == IF left = {} THEN Resting ELSE [at |-> "order", todo |-> left]

GoesTo(stage, x) ==
  ticker' = [at |-> stage, todo |-> ticker.todo, about |-> x]

\* Fault for mutation: the loop over the items ends one too late.
NextItemOneMore(x) ==
  IF x[2] <= NumItems THEN GoesTo("item", <<x[1], x[2] + 1>>) ELSE GoesTo("mark", x)

NextItem(x) ==
  IF x[2] < NumItems THEN GoesTo("item", <<x[1], x[2] + 1>>) ELSE GoesTo("mark", x)

GiveUpOrder == ticker' = AfterOrder(ticker.todo)

\* order-service answers with the order ...
FetchOrder(o) ==
  /\ ticker.at = "order" /\ o \in ticker.todo
  /\ ticker' = [at |-> "item", todo |-> ticker.todo \ {o}, about |-> <<o, 1>>]
  /\ UNCHANGED <<rowVars, call, used>>

\* ... or with an error: the order is left to the next cycle.
SkipOrder(o) ==
  /\ ticker.at = "order" /\ o \in ticker.todo
  /\ ticker' = AfterOrder(ticker.todo \ {o})
  /\ UNCHANGED <<rowVars, call, used>>

\* Fault for mutation: an item that the buyer reviewed ends the order's turn.
FindItemUnreviewed ==
  /\ ticker.at = "item"
  /\ IF Live(ticker.about) THEN GiveUpOrder ELSE GoesTo("create", ticker.about)
  /\ UNCHANGED <<rowVars, call, used>>

FindItem ==
  /\ ticker.at = "item"
  /\ IF Live(ticker.about) THEN NextItem(ticker.about) ELSE GoesTo("create", ticker.about)
  /\ UNCHANGED <<rowVars, call, used>>

\* Already reviewed by now: an error like any other, it ends the order's turn.
CreateDefault ==
  /\ ticker.at = "create"
  /\ IF Live(ticker.about) THEN GiveUpOrder ELSE GoesTo("insert", ticker.about)
  /\ UNCHANGED <<rowVars, call, used>>

InsertDefault ==
  /\ ticker.at = "insert"
  /\ Insert(ticker.about, 5, TRUE)
  /\ IF reviews[ticker.about] = NoReview THEN NextItem(ticker.about) ELSE GiveUpOrder
  /\ UNCHANGED <<appended, replies, deliveries, call, used>>

MarkProcessed ==
  /\ ticker.at = "mark"
  /\ deliveries' = [deliveries EXCEPT ![ticker.about[1]] = "processed"]
  /\ ticker' = AfterOrder(ticker.todo)
  /\ UNCHANGED <<reviews, appended, replies, call, used>>

-----------------------------------------------------------------------------
(* Time and faults.                                                         *)

DeliveryDue(o) ==
  /\ deliveries[o] = "recorded"
  /\ deliveries' = [deliveries EXCEPT ![o] = "due"]
  /\ UNCHANGED <<reviews, appended, replies, call, ticker, used>>

ReviewAges(x) ==
  /\ Live(x) /\ reviews[x].age # "old"
  /\ reviews' = [reviews EXCEPT ![x].age = IF @ = "new" THEN "settled" ELSE "old"]
  /\ UNCHANGED <<appended, replies, deliveries, call, ticker, used>>

Fails ==
  /\ used.faults < MaxFaults
  /\ used' = [used EXCEPT !.faults = @ + 1]
  /\ UNCHANGED rowVars

CallFails(g) ==
  /\ call[g] # NoCall
  /\ Fails
  /\ call' = [call EXCEPT ![g] = NoCall]
  /\ UNCHANGED ticker

\* Fault for mutation: after an error the loop goes on with the next item.
OrderFailsUnnoticed ==
  /\ ticker.at \in {"item", "create", "insert", "mark"}
  /\ Fails
  /\ IF ticker.at = "mark" THEN GiveUpOrder ELSE NextItem(ticker.about)
  /\ UNCHANGED call

\* An error of the database ends the turn of an order, also of one done but for
\* its mark.
OrderFails ==
  /\ ticker.at \in {"item", "create", "insert", "mark"}
  /\ Fails
  /\ GiveUpOrder
  /\ UNCHANGED call

Crash ==
  /\ Fails
  /\ call' = [g \in Callers |-> NoCall]
  /\ ticker' = Resting

-----------------------------------------------------------------------------

Calls(g, x) ==
  \/ \E rating \in Ratings : CreateReview(g, x, rating) \/ UpdateReview(g, x, rating)
  \/ DeleteReview(g, x)
  \/ AppendReview(g, x)
  \/ \E reply \in ReplyType : CreateSellerReply(g, x, reply)

Writes(g) ==
  \/ InsertReview(g)
  \/ WriteReview(g)
  \/ MarkDeleted(g)
  \/ InsertAppended(g)
  \/ InsertReply(g)

TickerStep ==
  \/ Tick
  \/ FindItem
  \/ CreateDefault
  \/ InsertDefault
  \/ MarkProcessed

Next ==
  \/ \E g \in Callers, x \in Subjects : Calls(g, x)
  \/ \E g \in Callers : Writes(g)
  \/ \E o \in Orders : HandleOrderDelivered(o) \/ DeliveryDue(o)
  \/ TickerStep
  \/ \E o \in Orders : FetchOrder(o) \/ SkipOrder(o)
  \/ \E x \in Subjects : ReviewAges(x)
  \/ \E g \in Callers : CallFails(g)
  \/ OrderFails
  \/ Crash

Spec == Init /\ [][Next]_vars

\* The ticker goes on ticking, and order-service does not fail to answer for ever.
FairSpec ==
  /\ Spec
  /\ WF_vars(TickerStep)
  /\ \A o \in Orders : SF_vars(FetchOrder(o))
  /\ \A o \in Orders : WF_vars(FetchOrder(o) \/ SkipOrder(o))

-----------------------------------------------------------------------------
(* Safety.                                                                  *)

\* An order is done with only when each of its items has, or had, a review,
\* however buyers get in the way of the ticker and wherever it fails.
ProcessedIsReviewed ==
  \A x \in Subjects : deliveries[x[1]] = "processed" => reviews[x] # NoReview

\* A default review keeps its five stars until it is deleted.
DefaultIsFinal ==
  \A x \in Subjects :
    reviews[x] # NoReview /\ reviews[x].system => reviews[x].rating = 5

\* What an outsider sees of a rating.
RatedAs(x) ==
  IF reviews[x] = NoReview THEN "none"
  ELSE IF reviews[x].state = "deleted" THEN "withdrawn"
  ELSE IF Positive(reviews[x].rating) THEN "positive" ELSE "negative"

Rating == [x \in Subjects |-> RatedAs(x)]

Life == INSTANCE RatingLife WITH rated <- Rating

\* Concurrent edits, deletions and default reviews never make a positive rating
\* negative, and never bring a deleted one back.
ImplementsRatingLife == Life!RatedSpec

-----------------------------------------------------------------------------
(* Liveness.                                                                *)

\* A delivery past its threshold is eventually done with, unless the buyer
\* deleted a review of it, whatever fails in between.
DueIsProcessed ==
  \A o \in Orders :
    deliveries[o] = "due"
      ~> \/ deliveries[o] = "processed"
         \/ \E i \in Items : reviews[<<o, i>>].state = "deleted"
=============================================================================
