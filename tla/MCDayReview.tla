----------------------------- MODULE MCDayReview -----------------------------
(* Two checks and one parameter, with reviews that switch both checks off,  *)
(* one for longer, override the parameter, or make several rules of a key.  *)
EXTENDS DayReview

item(key, kind, val, days, prio) ==
  [key |-> key, kind |-> kind, val |-> val, days |-> days, prio |-> prio]

SomeReviews ==
  { <<>>,
    << item("rr_ratio", "toggle", 0, 1, "LOW"), item("stop_loss", "toggle", 0, 1, "MEDIUM") >>,
    << item("rr_ratio", "override", 1, 1, "HIGH"), item("confidence", "override", 1, 2, "HIGH"),
       item("confidence", "override", 0, 2, "HIGH") >> }

OneOrThree == {1, 3}
=============================================================================
