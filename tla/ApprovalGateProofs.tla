-------------------------- MODULE ApprovalGateProofs --------------------------
(***************************************************************************)
(* What follows from the abstract gate alone, whatever implements it.      *)
(***************************************************************************)
EXTENDS ApprovalGate, TLAPS

\* The variables are functions of their domains, and the property.
GateOK ==
  /\ question = [c \in Contexts |-> question[c]]
  /\ told     = [r \in Requests |-> told[r]]
  /\ decided  = [r \in Requests |-> decided[r]]
  /\ OnlyToldIsDecided

LEMMA AskKeeps ==
  ASSUME GateOK, NEW r \in Requests, NEW c \in Contexts, Ask(r, c)
  PROVE  GateOK'
<1> DEFINE asked == question'[c]
<1>1. /\ asked # {} /\ told[r] = {} /\ decided' = decided
      /\ question' = [question EXCEPT ![c] = asked]
      /\ told' = [told EXCEPT ![r] = asked]
  BY DEF Ask
<1> HIDE DEF asked
<1>2. /\ question' = [e \in Contexts |-> IF e = c THEN asked ELSE question[e]]
      /\ told' = [q \in Requests |-> IF q = r THEN asked ELSE told[q]]
      /\ decided' = [q \in Requests |-> decided[q]]
  BY <1>1 DEF GateOK
\* What was told stays told: no request asks twice.
<1>3. \A q \in Requests : told[q] # {} => told'[q] = told[q]
  BY <1>1, <1>2
<1>4. ASSUME NEW e \in Contexts, question'[e] # {}
      PROVE  \E q \in Requests : told'[q] = question'[e]
  <2>1. CASE e = c
    BY <1>2, <2>1
  <2>2. CASE e # c
    <3>1. question'[e] = question[e]
      BY <1>2, <2>2
    <3>2. PICK q \in Requests : told[q] = question[e]
      BY <1>4, <3>1 DEF GateOK, OnlyToldIsDecided, Told
    <3> QED
      BY <1>3, <1>4, <3>1, <3>2
  <2> QED
    BY <2>1, <2>2
<1>5. ASSUME NEW q \in Requests, decided'[q] # {}
      PROVE  \E p \in Requests, result \in Results : decided'[q] = told'[p] \X {result}
  <2>1. decided'[q] = decided[q]
    BY <1>2
  <2>2. PICK p \in Requests, result \in Results : decided[q] = told[p] \X {result}
    BY <1>5, <2>1 DEF GateOK, OnlyToldIsDecided
  <2>3. told[p] # {}
    BY <1>5, <2>1, <2>2
  <2> QED
    BY <1>3, <2>1, <2>2, <2>3
<1> QED
  BY <1>2, <1>4, <1>5 DEF GateOK, OnlyToldIsDecided, Told

LEMMA DecideKeeps ==
  ASSUME GateOK, NEW r \in Requests, NEW c \in Contexts, NEW result \in Results,
         Decide(r, c, result)
  PROVE  GateOK'
<1> DEFINE decisions == question[c] \X {result}
<1>1. /\ question[c] # {} /\ told' = told
      /\ question' = [question EXCEPT ![c] = {}]
      /\ decided' = [decided EXCEPT ![r] = decisions]
  BY DEF Decide
<1>2. PICK p \in Requests : told[p] = question[c]
  BY <1>1 DEF GateOK, OnlyToldIsDecided, Told
<1>3. decisions = told[p] \X {result}
  BY <1>2
<1> HIDE DEF decisions
<1>4. /\ question' = [e \in Contexts |-> IF e = c THEN {} ELSE question[e]]
      /\ told' = [q \in Requests |-> told[q]]
      /\ decided' = [q \in Requests |-> IF q = r THEN decisions ELSE decided[q]]
  BY <1>1 DEF GateOK
<1>5. ASSUME NEW q \in Requests, decided'[q] # {}
      PROVE  \E x \in Requests, res \in Results : decided'[q] = told[x] \X {res}
  <2>1. CASE q = r
    BY <1>3, <1>4, <2>1
  <2>2. CASE q # r
    <3>1. decided'[q] = decided[q]
      BY <1>4, <2>2
    <3> QED
      BY <1>5, <3>1 DEF GateOK, OnlyToldIsDecided
  <2> QED
    BY <2>1, <2>2
<1>6. ASSUME NEW e \in Contexts, question'[e] # {}
      PROVE  Told(question'[e])
  <2>1. question'[e] = question[e]
    BY <1>4, <1>6
  <2> QED
    BY <1>6, <2>1 DEF GateOK, OnlyToldIsDecided
<1>7. OnlyToldIsDecided'
  BY <1>1, <1>5, <1>6 DEF OnlyToldIsDecided, Told
<1>8. /\ question' = [e \in Contexts |-> question'[e]]
      /\ told' = [q \in Requests |-> told'[q]]
      /\ decided' = [q \in Requests |-> decided'[q]]
  BY <1>4
<1> QED
  BY <1>7, <1>8 DEF GateOK

\* Whatever the agent is told in the human's name is one result for all the tools
\* that some response put to the client, and so is whatever is still open.
THEOREM OnlyToldDecided == Spec => []OnlyToldIsDecided
<1>1. Init => GateOK
  BY DEF Init, GateOK, OnlyToldIsDecided
<1>2. GateOK /\ [Next]_gateVars => GateOK'
  <2>1. CASE UNCHANGED gateVars
    BY <2>1 DEF gateVars, GateOK, OnlyToldIsDecided, Told
  <2> QED
    BY <2>1, AskKeeps, DecideKeeps DEF Next
<1>3. GateOK => OnlyToldIsDecided
  BY DEF GateOK
<1> QED
  BY <1>1, <1>2, <1>3, PTL DEF Spec
=============================================================================
