----------------------------- MODULE SeedProofs -----------------------------
(***************************************************************************)
(* What the seed script may say and name, for any tables, any number of    *)
(* runs and any system that keeps the promises of Placement.               *)
(***************************************************************************)
EXTENDS Seed, FiniteSetTheorems, TLAPS

USE SeedAssumption

Before == NCustomers + NProducts

Numbers ==
  /\ run \in 1 .. Runs /\ at \in 1 .. Total + 1
  /\ state = "waiting" => at <= Total
  /\ confirmed \in Nat /\ failed \in Nat

Types ==
  /\ outcome \in [Posts -> SUBSET Service!Outcome]
  /\ told \in [Posts -> {"", "201", "422", "error"}]
  /\ state \in {"ready", "waiting", "done", "exit"}
  /\ picked \in [Posts -> Ids \cup {InvalidId}]
  /\ createdCustomers \subseteq Ids /\ createdProducts \subseteq Ids

\* What Placement guarantees: one outcome at most, and truthful answers.
Truth ==
  \A r \in Posts :
    /\ \A o, p \in outcome[r] : o = p
    /\ told[r] = "201" => \E o \in outcome[r] : o.ok = TRUE
    /\ told[r] = "422" => \E o \in outcome[r] : o.ok = FALSE

\* The ids that the script has collected are outcomes of its own posts.
Made ==
  \A id \in createdCustomers :
    \E i \in Customers : \E o \in outcome[<<run, i>>] : o.id = id

\* The summary's counts are those of the answers, and none was skipped.
Counted ==
  /\ confirmed = Cardinality(Read({"201"}))
  /\ failed = Cardinality(Read({"422", "error"}))
  /\ confirmed + failed = IF at <= Before THEN 0 ELSE at - Before - 1
  /\ state = "done" => at = Total + 1

SeedInv == Numbers /\ Types /\ Truth /\ Made /\ OrdersNameOwnCustomers /\ Counted

-----------------------------------------------------------------------------

\* Where the three tables are in the sequence of posts.
LEMMA Ranges ==
  /\ Before \in Nat /\ Total \in Nat /\ Runs \in Nat
  /\ \A i \in Customers : i \in 1 .. Total /\ i <= Before
  /\ \A i \in Products : i \in 1 .. Total /\ i <= Before
  /\ \A i \in Orders : i \in 1 .. Total /\ i > Before
BY DEF Customers, Products, Orders, Total, Before

LEMMA PostsFacts ==
  /\ \A q \in 1 .. Runs, i \in 1 .. Total : <<q, i>> \in Posts
  /\ \A r \in Posts : r[1] \in 1 .. Runs /\ r[2] \in 1 .. Total
BY DEF Posts

\* The sets whose sizes the summary is about are finite.
LEMMA ReadFinite ==
  ASSUME NEW codes, at \in Nat
  PROVE  /\ IsFiniteSet(Read(codes))
         /\ Cardinality(Read(codes)) \in Nat
<1>1. IsFiniteSet(Orders)
  BY FS_Interval, Ranges DEF Orders, Before
<1>2. Read(codes) \in SUBSET Orders
  BY DEF Read
<1> QED
  BY <1>1, <1>2, FS_Subset, FS_CardinalityType

LEMMA StoredFinite ==
  ASSUME NEW ok
  PROVE  /\ IsFiniteSet(Stored(ok))
         /\ Cardinality(Stored(ok)) \in Nat
<1>1. IsFiniteSet(Orders)
  BY FS_Interval, Ranges DEF Orders, Before
<1>2. Stored(ok) \in SUBSET Orders
  BY DEF Stored
<1> QED
  BY <1>1, <1>2, FS_Subset, FS_CardinalityType

\* Reading the answer to an order puts that order in the sets of its answer.
LEMMA ReadOne ==
  ASSUME Numbers, NEW codes, at \in Orders, at' = at + 1, run' = run, told' = told
  PROVE  /\ told[Current] \in codes =>
              Cardinality(Read(codes)') = Cardinality(Read(codes)) + 1
         /\ told[Current] \notin codes => Read(codes)' = Read(codes)
<1>1. at \in Nat /\ at \notin Read(codes)
  BY Ranges DEF Numbers, Read
<1>2. told[Current] \in codes => Read(codes)' = Read(codes) \cup {at}
  BY <1>1, Ranges DEF Read, Current, Orders, Total
<1>3. told[Current] \notin codes => Read(codes)' = Read(codes)
  BY <1>1, Ranges DEF Read, Current, Orders, Total
<1> QED
  BY <1>1, <1>2, <1>3, ReadFinite, FS_AddElement

\* Outside the loop over the orders nothing is read.
LEMMA ReadNothing ==
  ASSUME NEW codes, at \in Nat, at <= Before + 1
  PROVE  Read(codes) = {} /\ Cardinality(Read(codes)) = 0
<1>1. Read(codes) = {}
  BY Ranges DEF Read, Orders, Total, Before
<1> QED
  BY <1>1, FS_EmptySet

\* A post that the script waits for.
LEMMA CurrentIsPost ==
  ASSUME Numbers, at <= Total
  PROVE  at \in 1 .. Total /\ Current \in Posts
<1>1. at \in 1 .. Total /\ run \in 1 .. Runs
  BY Ranges DEF Numbers
<1> QED
  BY <1>1, PostsFacts DEF Current

\* Steps that touch no outcome keep what is said of outcomes.
LEMMA SameAnswers ==
  ASSUME Truth, Made, OrdersNameOwnCustomers, UNCHANGED <<outcome, told, picked>>
  PROVE  /\ Truth' /\ OrdersNameOwnCustomers'
         /\ UNCHANGED <<run, createdCustomers>> => Made'
<1>1. Truth'
  BY DEF Truth
<1>2. OrdersNameOwnCustomers'
  BY DEF OrdersNameOwnCustomers
<1>3. UNCHANGED <<run, createdCustomers>> => Made'
  BY DEF Made
<1> QED
  BY <1>1, <1>2, <1>3

-----------------------------------------------------------------------------

LEMMA Initial == Init => SeedInv
<1> SUFFICES ASSUME Init PROVE SeedInv
  OBVIOUS
<1>1. Numbers
  BY Ranges DEF Init, Numbers
<1>2. Types
  BY DEF Init, Service!Init, Types
<1>3. Truth /\ Made /\ OrdersNameOwnCustomers
  BY DEF Init, Service!Init, Truth, Made, OrdersNameOwnCustomers
<1>4. Counted
  BY ReadNothing, Ranges DEF Init, Counted
<1> QED
  BY <1>1, <1>2, <1>3, <1>4 DEF SeedInv

\* The system's steps: outcomes only grow, and Read does not see them.
LEMMA TakeStep ==
  ASSUME SeedInv, NEW r \in Posts, Take(r)
  PROVE  SeedInv'
<1> USE DEF SeedInv
<1>1. PICK o \in Service!Outcome :
        outcome[r] = {} /\ outcome' = [outcome EXCEPT ![r] = {o}]
  BY DEF Take, Service!Take
<1>2. /\ told[r] \in {"", "error"} /\ told' = told
      /\ UNCHANGED <<run, at, state, picked, madeVars, counts>>
  BY DEF Take, Service!Take
<1>3. \A q \in Posts : outcome[q] \subseteq outcome'[q]
  BY <1>1 DEF Types
<1>4. Numbers' /\ Types'
  <2>1. Numbers'
    BY <1>2 DEF Numbers, counts
  <2>2. Types'
    BY <1>1, <1>2 DEF Types, madeVars
  <2> QED
    BY <2>1, <2>2
<1>5. Truth'
  BY <1>1, <1>2 DEF Types, Truth
<1>6. Made'
  <2>1. \A i \in Customers : <<run, i>> \in Posts
    BY PostsFacts, Ranges DEF Numbers
  <2> QED
    BY <1>2, <1>3, <2>1 DEF Made, madeVars
<1>7. OrdersNameOwnCustomers'
  <2>1. \A q \in Posts : \A i \in Customers : <<q[1], i>> \in Posts
    BY PostsFacts, Ranges
  <2> QED
    BY <1>2, <1>3, <2>1 DEF OrdersNameOwnCustomers
<1>8. Counted'
  BY <1>2 DEF Counted, Read, counts
<1> QED
  BY <1>4, <1>5, <1>6, <1>7, <1>8

LEMMA TellStep == SeedInv /\ Tell => SeedInv'
<1> SUFFICES ASSUME SeedInv, Tell PROVE SeedInv'
  OBVIOUS
<1> USE DEF SeedInv
<1>1. state = "waiting" /\ at <= Total /\ Current \in Posts
  BY CurrentIsPost DEF Tell, Numbers
<1>2. PICK code \in Service!Code :
        /\ Service!Truthful(code, outcome[Current])
        /\ told' = [told EXCEPT ![Current] = code]
  BY DEF Tell, Service!Tell
<1>3. code \in {"201", "422", "error"}
  BY <1>1, <1>2 DEF Tell, Types
<1>4. outcome' = outcome /\ UNCHANGED <<run, at, state, picked, madeVars, counts>>
  BY DEF Tell, Service!Tell
<1>5. Numbers' /\ Types'
  <2>1. Numbers'
    BY <1>4 DEF Numbers, counts
  <2>2. Types'
    BY <1>2, <1>3, <1>4 DEF Types, madeVars
  <2> QED
    BY <2>1, <2>2
<1>6. Truth'
  <2>0. \A o \in outcome[Current] : o.ok \in BOOLEAN
    <3>1. outcome[Current] \subseteq Service!Outcome
      BY <1>1 DEF Types
    <3> QED
      BY <3>1 DEF Service!Outcome
  <2>1. code = "201" => \E o \in outcome[Current] : o.ok = TRUE
    BY <1>2, <2>0, Zenon DEF Service!Truthful
  <2>2. code = "422" => \E o \in outcome[Current] : o.ok = FALSE
    BY <1>2, <2>0, Zenon DEF Service!Truthful
  <2> QED
    BY <1>1, <1>2, <1>4, <2>1, <2>2 DEF Types, Truth
<1>7. Made' /\ OrdersNameOwnCustomers'
  BY <1>4 DEF Made, OrdersNameOwnCustomers, madeVars
<1>8. \A codes : Read(codes)' = Read(codes)
  <2>1. \A i \in Orders : i < at => <<run, i>> # Current
    BY Ranges DEF Numbers, Current
  <2>2. \A q \in Posts : q # Current => told'[q] = told[q]
    BY <1>2 DEF Types
  <2>3. \A i \in Orders : <<run, i>> \in Posts
    BY PostsFacts, Ranges DEF Numbers
  <2> QED
    BY <1>4, <2>1, <2>2, <2>3 DEF Read
<1>9. Counted'
  BY <1>4, <1>8 DEF Counted, counts
<1> QED
  BY <1>5, <1>6, <1>7, <1>9

\* The script sends a post: an order names one of the customers collected.
LEMMA PostStep == SeedInv /\ Post => SeedInv'
<1> SUFFICES ASSUME SeedInv, Post PROVE SeedInv'
  OBVIOUS
<1> USE DEF SeedInv
<1>1. Current \in Posts /\ Current[1] = run
  BY CurrentIsPost DEF Post, Current
<1>2. PICK id \in createdCustomers \cup {InvalidId} :
        picked' = [picked EXCEPT ![Current] = id]
  BY DEF Post
<1>3. /\ state' = "waiting" /\ at <= Total
      /\ UNCHANGED <<servedVars, run, at, madeVars, counts>>
  BY DEF Post
<1>4. Numbers' /\ Types'
  <2>1. Numbers'
    BY <1>3 DEF Numbers, counts
  <2>2. Types'
    BY <1>1, <1>2, <1>3 DEF Types, servedVars, madeVars
  <2> QED
    BY <2>1, <2>2
<1>5. Truth' /\ Made'
  <2>1. Truth'
    BY <1>3 DEF Truth, servedVars
  <2>2. Made'
    BY <1>3 DEF Made, servedVars, madeVars
  <2> QED
    BY <2>1, <2>2
<1>6. OrdersNameOwnCustomers'
  BY <1>1, <1>2, <1>3 DEF OrdersNameOwnCustomers, Made, Types, servedVars
<1>7. Counted'
  BY <1>3 DEF Counted, Read, servedVars, counts
<1> QED
  BY <1>4, <1>5, <1>6, <1>7

\* What the answers bring is an outcome of the present post.
LEMMA AnswerFacts ==
  ASSUME SeedInv, Answered
  PROVE  /\ at \in 1 .. Total /\ Current \in Posts
         /\ AnswerIds \subseteq Ids
         /\ \A id \in AnswerIds : \E o \in outcome[Current] : o.id = id
         /\ told[Current] \in {"201", "422", "error"}
<1>1. at \in 1 .. Total /\ Current \in Posts
  BY CurrentIsPost DEF SeedInv, Numbers, Answered
<1>2. \A o \in outcome[Current] : o.id \in Ids
  <2>1. outcome[Current] \subseteq Service!Outcome
    BY <1>1 DEF SeedInv, Types
  <2> QED
    BY <2>1 DEF Service!Outcome
<1>3. told[Current] \in {"201", "422", "error"}
  BY <1>1 DEF SeedInv, Types, Answered
<1> QED
  BY <1>1, <1>2, <1>3 DEF AnswerIds

LEMMA CreatedStep == SeedInv /\ (CustomerCreated \/ ProductCreated) => SeedInv'
<1> SUFFICES ASSUME SeedInv, CustomerCreated \/ ProductCreated PROVE SeedInv'
  OBVIOUS
<1> USE DEF SeedInv
<1>1. /\ at \in 1 .. Total /\ Current \in Posts
      /\ AnswerIds \subseteq Ids
      /\ \A id \in AnswerIds : \E o \in outcome[Current] : o.id = id
  BY AnswerFacts DEF CustomerCreated, ProductCreated
<1>2. /\ at' = at + 1 /\ state' = "ready"
      /\ UNCHANGED <<servedVars, run, picked, counts>>
      /\ at \in 1 .. Before
  BY <1>1, Ranges
  DEF CustomerCreated, ProductCreated, GoOn, Customers, Products, Before
<1>3. /\ createdCustomers' = createdCustomers \cup
           (IF at \in Customers THEN AnswerIds ELSE {})
      /\ createdProducts' \subseteq Ids
  <2>1. at \in Products => at \notin Customers
    BY DEF Customers, Products
  <2> QED
    BY <1>1, <2>1 DEF CustomerCreated, ProductCreated, Types
<1>4. Numbers' /\ Types'
  <2>1. Numbers'
    BY <1>1, <1>2, Ranges DEF Numbers, counts
  <2>2. Types'
    BY <1>1, <1>2, <1>3 DEF Types, servedVars
  <2> QED
    BY <2>1, <2>2
<1>5. Truth' /\ OrdersNameOwnCustomers'
  BY <1>2 DEF Truth, OrdersNameOwnCustomers, servedVars
<1>6. Made'
  BY <1>1, <1>2, <1>3 DEF Made, Current, servedVars
<1>7. Counted'
  <2>1. \A codes : Cardinality(Read(codes)) = 0
    BY <1>2, ReadNothing, Ranges
  <2>2. \A codes : Read(codes)' = {}
    BY <1>2, Ranges DEF Read, Orders, Total, Before
  <2>3. confirmed = 0 /\ failed = 0 /\ confirmed' = 0 /\ failed' = 0
    BY <1>2, <2>1 DEF Counted, counts
  <2>4. \A codes : Cardinality(Read(codes)') = 0
    BY <2>2, FS_EmptySet
  <2>5. 0 = IF at' <= Before THEN 0 ELSE at' - Before - 1
    BY <1>2, Ranges
  <2>6. 0 + 0 = 0
    OBVIOUS
  <2> QED
    BY <1>2, <2>3, <2>4, <2>5, <2>6 DEF Counted
<1> QED
  BY <1>4, <1>5, <1>6, <1>7

LEMMA OrderStep == SeedInv /\ OrderPlaced => SeedInv'
<1> SUFFICES ASSUME SeedInv, OrderPlaced PROVE SeedInv'
  OBVIOUS
<1> USE DEF SeedInv
<1>1. at \in 1 .. Total /\ told[Current] \in {"201", "422", "error"}
  BY AnswerFacts DEF OrderPlaced
<1>2. /\ at \in Orders /\ at' = at + 1 /\ state' = "ready"
      /\ UNCHANGED <<servedVars, run, picked, madeVars>>
  BY DEF OrderPlaced, GoOn
<1>3. IF told[Current] = "201"
        THEN confirmed' = confirmed + 1 /\ failed' = failed
        ELSE failed' = failed + 1 /\ confirmed' = confirmed
  BY <1>1 DEF OrderPlaced
<1>4. Numbers' /\ Types'
  <2>1. Numbers'
    BY <1>1, <1>2, <1>3, Ranges DEF Numbers
  <2>2. Types'
    BY <1>2 DEF Types, servedVars, madeVars
  <2> QED
    BY <2>1, <2>2
<1>5. Truth' /\ Made' /\ OrdersNameOwnCustomers'
  BY <1>2, SameAnswers DEF servedVars, madeVars
<1>6. Counted'
  <2>1. /\ confirmed' = Cardinality(Read({"201"})')
        /\ failed' = Cardinality(Read({"422", "error"})')
    <3>1. told' = told /\ run' = run
      BY <1>2 DEF servedVars
    <3> QED
      BY <1>1, <1>2, <1>3, <3>1, ReadOne DEF Counted
  <2>2. at > Before /\ at \in Nat
    BY <1>1, <1>2 DEF Orders, Before
  <2>3. confirmed' + failed' = at' - Before - 1
    BY <1>2, <1>3, <2>2, Ranges DEF Counted, Numbers
  <2> QED
    BY <1>2, <2>1, <2>2, <2>3, Ranges DEF Counted
<1> QED
  BY <1>4, <1>5, <1>6

\* The ends of a run, and the beginning of the next.
LEMMA EndStep == SeedInv /\ (GiveUp \/ Summary \/ Again) => SeedInv'
<1> SUFFICES ASSUME SeedInv, GiveUp \/ Summary \/ Again PROVE SeedInv'
  OBVIOUS
<1> USE DEF SeedInv
<1>1. CASE GiveUp \/ Summary
  <2>1. /\ state' \in {"exit", "done"}
        /\ state' = "done" => at = Total + 1
        /\ UNCHANGED <<servedVars, run, at, picked, madeVars, counts>>
    BY <1>1 DEF GiveUp, Summary
  <2>2. Numbers' /\ Types' /\ Truth' /\ Made' /\ OrdersNameOwnCustomers'
    <3>1. Numbers'
      BY <2>1 DEF Numbers, counts
    <3>2. Types'
      BY <2>1 DEF Types, servedVars, madeVars
    <3>3. Truth' /\ Made' /\ OrdersNameOwnCustomers'
      BY <2>1, SameAnswers DEF servedVars, madeVars
    <3> QED
      BY <3>1, <3>2, <3>3
  <2>3. Counted'
    BY <2>1 DEF Counted, Read, servedVars, counts
  <2> QED
    BY <2>2, <2>3
<1>2. CASE Again
  <2>1. /\ run' \in 1 .. Runs /\ at' = 1 /\ state' = "ready"
        /\ createdCustomers' = {} /\ createdProducts' = {}
        /\ confirmed' = 0 /\ failed' = 0
        /\ UNCHANGED <<servedVars, picked>>
    BY <1>2, Ranges DEF Again, Numbers
  <2>2. Numbers' /\ Types'
    <3>1. Numbers'
      BY <2>1, Ranges DEF Numbers
    <3>2. Types'
      BY <2>1 DEF Types, servedVars
    <3> QED
      BY <3>1, <3>2
  <2>3. Truth' /\ Made' /\ OrdersNameOwnCustomers'
    <3>1. Truth' /\ OrdersNameOwnCustomers'
      BY <2>1, SameAnswers DEF servedVars
    <3>2. Made'
      BY <2>1 DEF Made
    <3> QED
      BY <3>1, <3>2
  <2>4. Counted'
    <3>1. \A codes : Read(codes)' = {}
      BY <2>1, Ranges DEF Read, Orders, Before
    <3>2. \A codes : Cardinality(Read(codes)') = 0
      BY <3>1, FS_EmptySet
    <3>3. 0 + 0 = IF at' <= Before THEN 0 ELSE at' - Before - 1
      BY <2>1, Ranges DEF Before
    <3> QED
      BY <2>1, <3>2, <3>3 DEF Counted
  <2> QED
    BY <2>2, <2>3, <2>4
<1> QED
  BY <1>1, <1>2

LEMMA StutterStep == SeedInv /\ UNCHANGED vars => SeedInv'
<1> SUFFICES ASSUME SeedInv, UNCHANGED vars PROVE SeedInv'
  OBVIOUS
<1> USE DEF SeedInv, vars, servedVars, madeVars, counts
<1>1. Numbers'
  BY DEF Numbers
<1>2. Types'
  BY DEF Types
<1>3. Truth' /\ Made' /\ OrdersNameOwnCustomers'
  BY SameAnswers
<1>4. Counted'
  BY DEF Counted, Read
<1> QED
  BY <1>1, <1>2, <1>3, <1>4

THEOREM Invariance == Spec => []SeedInv
<1>1. SeedInv /\ [Next]_vars => SeedInv'
  BY TakeStep, TellStep, PostStep, CreatedStep, OrderStep, EndStep, StutterStep
  DEF Next, Script
<1> QED
  BY <1>1, Initial, PTL DEF Spec

-----------------------------------------------------------------------------

\* TypeOK: the script holds ids of the system only, and counts no order twice.
THEOREM TypeSafety == Spec => []TypeOK
<1>1. SeedInv => TypeOK
  <2> SUFFICES ASSUME SeedInv PROVE TypeOK
    OBVIOUS
  <2>1. confirmed + failed <= NOrders
    BY Ranges DEF SeedInv, Numbers, Counted, Total, Before
  <2> QED
    BY <2>1 DEF SeedInv, Numbers, Types, TypeOK
<1> QED
  BY <1>1, Invariance, PTL

\* OrdersNameOwnCustomers: no order names a blank or foreign customer.
THEOREM OwnCustomers == Spec => []OrdersNameOwnCustomers
<1>1. SeedInv => OrdersNameOwnCustomers
  BY DEF SeedInv
<1> QED
  BY <1>1, Invariance, PTL

\* SummaryHonest: the counts are wrong by no more than the errors told.
THEOREM Honesty == Spec => []SummaryHonest
<1>1. ASSUME SeedInv PROVE SummaryHonest
  <2> DEFINE heard == Read({"201", "422", "error"})
             told201 == Read({"201"})
             toldFailed == Read({"422", "error"})
             errors == Read({"error"})
  <2>1. at \in Nat
    BY <1>1, Ranges DEF SeedInv, Numbers
  <2>2. /\ IsFiniteSet(heard) /\ IsFiniteSet(told201) /\ IsFiniteSet(toldFailed)
        /\ IsFiniteSet(errors)
        /\ Cardinality(told201) \in Nat /\ Cardinality(toldFailed) \in Nat
        /\ Cardinality(errors) \in Nat
    BY <2>1, ReadFinite
  <2>3. /\ IsFiniteSet(Stored(TRUE) \cap heard) /\ IsFiniteSet(Stored(FALSE))
        /\ Cardinality(Stored(TRUE) \cap heard) \in Nat
        /\ Cardinality(Stored(FALSE)) \in Nat
    <3>1. Stored(TRUE) \cap heard \in SUBSET heard
      OBVIOUS
    <3> QED
      BY <2>2, <3>1, StoredFinite, FS_Subset, FS_CardinalityType
  <2>4. \A i \in Orders : <<run, i>> \in Posts
    BY <1>1, PostsFacts, Ranges DEF SeedInv, Numbers
  <2>5. told201 \subseteq Stored(TRUE) \cap heard
    BY <1>1, <2>4 DEF SeedInv, Truth, Read, Stored
  <2>6. Stored(TRUE) \cap heard \subseteq told201 \cup errors
    BY <1>1, <2>4 DEF SeedInv, Truth, Read, Stored
  <2>7. toldFailed \subseteq Stored(FALSE) \cup errors
    BY <1>1, <2>4 DEF SeedInv, Truth, Read, Stored
  <2> HIDE DEF heard, told201, toldFailed, errors
  <2>8. /\ Cardinality(told201) <= Cardinality(Stored(TRUE) \cap heard)
        /\ Cardinality(Stored(TRUE) \cap heard)
             <= Cardinality(told201) + Cardinality(errors)
        /\ Cardinality(toldFailed)
             <= Cardinality(Stored(FALSE)) + Cardinality(errors)
    <3>1. ASSUME NEW S, NEW T, IsFiniteSet(S), IsFiniteSet(T)
          PROVE  /\ IsFiniteSet(S \cup T)
                 /\ Cardinality(S \cup T) <= Cardinality(S) + Cardinality(T)
      <4>1. IsFiniteSet(S \cap T)
        <5>1. S \cap T \in SUBSET S
          OBVIOUS
        <5> QED
          BY <3>1, <5>1, FS_Subset
      <4>2. /\ Cardinality(S \cap T) \in Nat
            /\ Cardinality(S) \in Nat /\ Cardinality(T) \in Nat
        BY <3>1, <4>1, FS_CardinalityType
      <4> QED
        BY <3>1, <4>2, FS_Union
    <3>2. Cardinality(told201) <= Cardinality(Stored(TRUE) \cap heard)
      BY <2>3, <2>5, FS_Subset
    <3>3. /\ IsFiniteSet(told201 \cup errors)
          /\ Cardinality(told201 \cup errors)
               <= Cardinality(told201) + Cardinality(errors)
          /\ IsFiniteSet(Stored(FALSE) \cup errors)
          /\ Cardinality(Stored(FALSE) \cup errors)
               <= Cardinality(Stored(FALSE)) + Cardinality(errors)
      BY <2>2, <2>3, <3>1
    <3>4. Cardinality(Stored(TRUE) \cap heard) <= Cardinality(told201 \cup errors)
      BY <2>6, <3>3, FS_Subset
    <3>5. Cardinality(toldFailed) <= Cardinality(Stored(FALSE) \cup errors)
      BY <2>7, <3>3, FS_Subset
    <3>6. /\ Cardinality(told201 \cup errors) \in Nat
          /\ Cardinality(Stored(FALSE) \cup errors) \in Nat
      BY <3>3, FS_CardinalityType
    <3>7. \A i, j, k, l \in Nat : i <= j /\ j <= k + l => i <= k + l
      OBVIOUS
    <3> QED
      BY <2>2, <2>3, <3>2, <3>3, <3>4, <3>5, <3>6, <3>7, Zenon
  <2>9. /\ confirmed = Cardinality(told201) /\ failed = Cardinality(toldFailed)
    BY <1>1 DEF SeedInv, Counted, told201, toldFailed
  <2>10. state = "done" => confirmed + failed = NOrders
    BY <1>1, Ranges DEF SeedInv, Counted, Total, Before
  <2> QED
    BY <2>8, <2>9, <2>10 DEF SummaryHonest, heard, errors
<1> QED
  BY <1>1, Invariance, PTL
=============================================================================
