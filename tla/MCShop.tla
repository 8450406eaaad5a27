------------------------------- MODULE MCShop -------------------------------
(***************************************************************************)
(* Values for model checking Shop: one customer id, one product id, two    *)
(* orders, and an int that overflows at 4.                                 *)
(***************************************************************************)
EXTENDS Shop, TLC

MCCustomerIds == {"c1"}
MCProductIds == {"p1"}
MCOrderIds == {"o1", "o2"}

\* " Ann" is trimmed to "Ann"; " " is blank; "c1?" is cut to "c1" in a URL.
MCText == {"", " ", "Ann", " Ann", "pen", "none", "c1?"}
            \cup MCCustomerIds \cup MCProductIds \cup MCOrderIds
MCTrimSpace == [s \in MCText |->
                  CASE s = " " -> "" [] s = " Ann" -> "Ann" [] OTHER -> s]
MCPathId == [s \in MCText |-> IF s = "c1?" THEN "c1" ELSE s]

MCCustomerBodies ==
  {[id |-> "none", name |-> " Ann", email |-> "Ann"],
   [id |-> "", name |-> "Ann", email |-> " "]}

ProductBody(price, stock) ==
  [id |-> "none", name |-> "pen", price |-> price, stock |-> stock]

\* 2 * 2 overflows; the price -1 is refused by POST and accepted by PUT.
MCProductBodies == {ProductBody(2, 2), ProductBody(-1, 1)}
OneProductBody == {ProductBody(2, 2)}

OrderBody(customer, quantity) ==
  [id |-> "none", customer_id |-> customer, product_id |-> "p1",
   quantity |-> quantity, status |-> "other", total |-> 3]

MCOrderBodies == {OrderBody(" ", 1), OrderBody("c1?", 2), OrderBody("none", 1)}

MCOrderUpdates == {[OrderBody("none", -1) EXCEPT !.status = "confirmed"]}
=============================================================================
