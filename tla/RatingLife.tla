------------------------------- MODULE RatingLife -------------------------------
(***************************************************************************)
(* What review-service promises about one rating of one bought item: it is   *)
(* given once, a negative one may still become positive, a positive one never *)
(* becomes negative, and one that was withdrawn never comes back.              *)
(***************************************************************************)

CONSTANT Subjects    \* what is rated: the items of the orders
VARIABLE rated       \* what there is of each rating

Kind == {"none", "negative", "positive", "withdrawn"}

RatedInit == rated = [x \in Subjects |-> "none"]

Give(x, kind) ==
  /\ rated[x] = "none"
  /\ kind \in {"negative", "positive"}
  /\ rated' = [rated EXCEPT ![x] = kind]

Improve(x) ==
  /\ rated[x] = "negative"
  /\ rated' = [rated EXCEPT ![x] = "positive"]

Withdraw(x) ==
  /\ rated[x] \in {"negative", "positive"}
  /\ rated' = [rated EXCEPT ![x] = "withdrawn"]

RatedNext ==
  \E x \in Subjects :
    \/ \E kind \in Kind : Give(x, kind)
    \/ Improve(x)
    \/ Withdraw(x)

RatedSpec == RatedInit /\ [][RatedNext]_rated
=============================================================================
