----------------------------- MODULE Placement -----------------------------
(***************************************************************************)
(* What a client of the gateway may rely on: the answer to a request says  *)
(* how it ended, except an error, after which it may have had an effect or *)
(* still get one.  A request never has two.                                *)
(***************************************************************************)

CONSTANTS
  Requests,   \* the requests clients send, each of them once
  Ids         \* the ids of the records that a request may create

VARIABLES
  outcome,    \* outcome[r]: {} or {the record that r created}, ok: not a failed order
  told        \* told[r]: the status the client got, "error" for 5xx or none, "" before

vars == <<outcome, told>>

Outcome == [id : Ids, ok : BOOLEAN]
Code == {"200", "201", "400", "422", "error"}

Init ==
  /\ outcome = [r \in Requests |-> {}]
  /\ told = [r \in Requests |-> ""]

\* r creates a record, with an id that no other request got.
Take(r) ==
  /\ outcome[r] = {}
  /\ told[r] \in {"", "error"}
  /\ \E o \in Outcome :
       /\ \A q \in Requests : \A u \in outcome[q] : u.id # o.id
       /\ outcome' = [outcome EXCEPT ![r] = {o}]
  /\ UNCHANGED told

\* What a status says.  A page (200) does not say whether the order on it is
\* confirmed, an error says nothing.
Truthful(code, result) ==
  /\ code = "201" => \E o \in result : o.ok
  /\ code = "422" => \E o \in result : ~o.ok
  /\ code = "400" => result = {}

Tell(r) ==
  /\ told[r] = ""
  /\ \E code \in Code :
       /\ Truthful(code, outcome[r])
       /\ told' = [told EXCEPT ![r] = code]
  /\ UNCHANGED outcome

\* The connections of several clients break at once.
Break ==
  /\ \E S \in SUBSET {r \in Requests : told[r] = ""} :
       told' = [r \in Requests |-> IF r \in S THEN "error" ELSE told[r]]
  /\ UNCHANGED outcome

Next == Break \/ \E r \in Requests : Take(r) \/ Tell(r)

Spec == Init /\ [][Next]_vars
=============================================================================
