------------------------------- MODULE Domain -------------------------------
(***************************************************************************)
(* The values the three services exchange: text, machine integers, and     *)
(* the records of internal/store.  Fields that no code branches on         *)
(* (Customer.Country, Product.Category) are left out.                      *)
(***************************************************************************)
EXTENDS Integers

CONSTANTS
  Text,         \* the strings a request can carry
  Empty,        \* ""
  TrimSpace,    \* strings.TrimSpace on Text
  PathId,       \* the {id} the upstream mux extracts from ".../" + s: the
                \* URL is built with Sprintf and no escaping, so a string
                \* holding ? or # is cut there
  IntLimit,     \* a Go int holds -IntLimit .. IntLimit - 1
  CustomerIds, ProductIds, OrderIds   \* the ids generateID may draw

Int64 == -IntLimit .. IntLimit - 1

ASSUME DomainAssumption ==
  /\ Empty \in Text
  /\ TrimSpace \in [Text -> Text]
  /\ TrimSpace[Empty] = Empty
  /\ \A s \in Text : TrimSpace[TrimSpace[s]] = TrimSpace[s]
  /\ PathId \in [Text -> Text]
  /\ IntLimit \in Nat \ {0, 1}
  /\ CustomerIds \subseteq Text
  /\ ProductIds \subseteq Text
  /\ OrderIds \subseteq Text

\* Two's-complement wrap-around of int arithmetic.
Wrap(n) == ((n + IntLimit) % (2 * IntLimit)) - IntLimit

Customer == [id : Text, name : Text, email : Text]

Product == [id : Text, name : Text, price : Int64, stock : Int64]

\* The four OrderStatus constants, the absent status "", and one string that
\* is none of them: UpdateOrder stores whatever string the body holds.
Status == {"pending", "confirmed", "failed", "cancelled", "", "other"}

Order == [id : Text, customer_id : Text, product_id : Text,
          quantity : Int64, status : Status, total : Int64]

\* The zero values of the Go structs.
ZeroProduct == [id |-> Empty, name |-> Empty, price |-> 0, stock |-> 0]

ZeroOrder == [id |-> Empty, customer_id |-> Empty, product_id |-> Empty,
              quantity |-> 0, status |-> "", total |-> 0]

\* A required field: present, and not changed by trimming.
Trimmed(s) == s # Empty /\ TrimSpace[s] = s
=============================================================================
