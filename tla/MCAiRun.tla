------------------------------ MODULE MCAiRun ------------------------------
EXTENDS AiRun

T(says, asks, pics) == [says |-> says, asks |-> asks, pics |-> pics]

Scripted == [greet |-> T({"hello"}, <<>>, TRUE), inscr |-> T({}, <<"inscription">>, FALSE),
             praise |-> T({"praise"}, <<>>, FALSE), price |-> T({"calc"}, <<>>, TRUE),
             kit |-> T({"kitcalc"}, <<>>, TRUE), delivery |-> T({}, <<"city">>, FALSE),
             review |-> T({"layout"}, <<"check">>, FALSE), fixed |-> T({"fixed"}, <<>>, FALSE),
             checkout |-> T({"checkout"}, <<"pay">>, TRUE), contacts |-> T({"contacts"}, <<>>, FALSE),
             link |-> T({"link"}, <<>>, FALSE)]

\* The shirt and its old price, the parts of a kit and their sum, the total with the
\* deposit, the bill for the deposit, the fee of the delivery.
Named(plain, struck, pinned) == [plain |-> plain, struck |-> struck, pinned |-> pinned]
MCSums == [s \in Statements |->
             CASE s = "calc"     -> Named({5990}, {7380}, TRUE)
               [] s = "kitcalc"  -> Named({5490, 3490, 8980}, {12980}, FALSE)
               [] s = "checkout" -> Named({5990, 500}, {}, FALSE)
               [] s = "link"     -> Named({500}, {}, FALSE)
               [] s = "fee"      -> Named({1000}, {}, FALSE)
               [] OTHER          -> Named({}, {}, FALSE)]

Shipped == [s \in DOMAIN Scripted |->
              CASE s = "greet" -> "inscr" [] s = "praise" -> "price" [] s = "price" -> "delivery"
                [] s = "review" -> "fixed" [] s = "fixed" -> "checkout" [] OTHER -> None]
Looped == [Shipped EXCEPT !["delivery"] = "praise"]

R(says, asks, pics, script, curator, side) ==
  [text |-> T(says, asks, pics), script |-> script, curator |-> curator, side |-> side]
MCReplies == {R({"hello", "praise", "fee"}, <<"color">>, FALSE, "praise", FALSE, None),
              R({"calc"}, <<"city", "size">>, FALSE, None, FALSE, None),
              R({"kitcalc"}, <<"city">>, FALSE, "price", FALSE, "blacklist"),
              R({"layout"}, <<"check">>, FALSE, None, FALSE, None),
              R({"layout", "offer"}, <<"color">>, FALSE, "review", FALSE, None),
              R({"checkout", "offer"}, <<"pay">>, FALSE, "checkout", FALSE, None),
              R({"bye"}, <<"reason">>, FALSE, None, TRUE, None)}

Said1(t, s) == [by |-> "us", kind |-> None, text |-> t, failed |-> FALSE, script |-> s, told |-> TRUE]
Review == Said1(Scripted["review"], None)
All == DOMAIN Scripted
Here  == [follow |-> Shipped, active |-> All, billing |-> TRUE, kit |-> FALSE]
\* No checkout script and no payment details; the links go round.
There == [follow |-> Looped, active |-> All \ {"checkout"}, billing |-> FALSE, kit |-> TRUE]

Greeted == <<Said1(Scripted["inscr"], "inscr")>>
Priced  == <<Said1(Scripted["price"], "price"), Said1(T({}, <<"size">>, FALSE), None)>>
Checked == <<Review, Review>>
Offered == <<Said1(Scripted["checkout"], "checkout")>>
Honest  == <<Said1(T({"honest", "offer"}, <<>>, FALSE), None)>>
MCStarts == {[past |-> p, panel |-> Here] : p \in {<<>>, Greeted, Offered}}
            \cup {[past |-> p, panel |-> There] : p \in {Checked, Honest, Priced}}
=============================================================================
