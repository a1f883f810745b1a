---------------------------- MODULE CannealProofs ----------------------------
(* Proofs about Canneal for any number of threads, elements and moves, and     *)
(* any netlist.                                                                *)
EXTENDS Canneal, FiniteSetTheorems, TLAPS

(* Inside the inner loop a move is still to be counted, and it is a move of    *)
(* two different elements: get_random_element never returns its own argument.  *)
(* Get never returns ATOMIC_NULL.                                              *)
InMove ==
    \A t \in Thread :
        /\ pc[t] \in {"cost", "checkout", "checkout_cmpset", "set", "set_cmpset", "checkin"}
            => i[t] < Moves /\ a[t] # b[t]
        /\ pc[t] \in {"checkout_cmpset", "set_cmpset"} => seen[t] \in Elem

(* Who has what checked out.                                                   *)
Claims ==
    /\ \A t \in Thread : Holding(t) => held[t] \in Elem /\ p[first(t)] = ATOMIC_NULL
    /\ \A t, u \in Thread : Holding(t) /\ Holding(u) /\ first(t) = first(u) => t = u
    /\ \A e \in Elem : p[e] = ATOMIC_NULL => \E t \in Thread : Holding(t) /\ first(t) = e

IndInv == TypeOK /\ InMove /\ Claims

(* The barrier: who waits there is one step ahead of everybody else.           *)
InRound ==
    \E n \in Nat : \A t \in Thread : steps[t] = IF pc[t] = "barrier" THEN n + 1 ELSE n

-----------------------------------------------------------------------------
(* The two elements of a move, in address order.                               *)
LEMMA OrderedPair ==
  TypeOK => \A t \in Thread : /\ first(t) \in Elem /\ last(t) \in Elem
                              /\ a[t] # b[t] => first(t) # last(t)
                              /\ {first(t), last(t)} = {a[t], b[t]}
BY DEF TypeOK, first, last, Ordered, Elem

(* Init and every action keep the types (annealer_thread::Run as a whole).     *)
LEMMA TypeInit == Init => TypeOK /\ InMove
BY ConstantsAssumption DEF Init, TypeOK, InMove

(* The two halves of AtomicPtr::PrivateSet.                                    *)
LEMMA GetType ==
  ASSUME TypeOK, InMove, NEW t \in Thread, NEW e \in Elem,
         NEW next \in {"checkout_cmpset", "set_cmpset"},
         pc[t] \in {"checkout", "set"}, Get(t, e, next)
  PROVE  TypeOK' /\ InMove'
<1>1. p[e] \in Elem
  BY DEF Get, TypeOK
<1>2. TypeOK'
  BY <1>1 DEF Get, moveVars, TypeOK
<1>3. InMove'
  BY <1>1 DEF Get, moveVars, TypeOK, InMove
<1> QED
  BY <1>2, <1>3

(* The compare-and-set of AtomicPtr::PrivateSet keeps the types. *)
LEMMA CmpsetType ==
  ASSUME TypeOK, InMove, NEW t \in Thread, NEW e \in Elem, NEW x \in Elem \cup {ATOMIC_NULL},
         NEW retry \in {"checkout", "set"}, NEW next \in {"set", "checkin"},
         pc[t] \in {"checkout_cmpset", "set_cmpset"}, cmpset(t, e, x, retry, next)
  PROVE  TypeOK' /\ InMove'
<1>0. /\ p' = p \/ p' = [p EXCEPT ![e] = x]
      /\ held' = held \/ held' = [held EXCEPT ![t] = seen[t]]
  BY DEF cmpset
<1>1. p' \in [Elem -> Elem \cup {ATOMIC_NULL}] /\ held' \in [Thread -> Elem \cup {ATOMIC_NULL}]
  <2>1. /\ p \in [Elem -> Elem \cup {ATOMIC_NULL}] /\ held \in [Thread -> Elem \cup {ATOMIC_NULL}]
        /\ seen[t] \in Elem \cup {ATOMIC_NULL}
    BY DEF TypeOK
  <2>2. p' \in [Elem -> Elem \cup {ATOMIC_NULL}]
    BY <1>0, <2>1
  <2>3. held' \in [Thread -> Elem \cup {ATOMIC_NULL}]
    BY <1>0, <2>1
  <2> QED
    BY <2>2, <2>3
<1>2. pc' = [pc EXCEPT ![t] = next] \/ pc' = [pc EXCEPT ![t] = retry]
  BY DEF cmpset
<1>3. UNCHANGED <<i, todo, moveVars>> /\ seen' = [seen EXCEPT ![t] = ATOMIC_NULL]
  BY DEF cmpset
<1>4. TypeOK'
  BY <1>1, <1>2, <1>3 DEF moveVars, TypeOK
<1>5. InMove'
  BY <1>2, <1>3 DEF moveVars, TypeOK, InMove
<1> QED
  BY <1>4, <1>5

(* So does every step of Run and of main. *)
LEMMA TypeStep == TypeOK /\ InMove /\ [Next]_vars => TypeOK' /\ InMove'
<1> SUFFICES ASSUME TypeOK, InMove, [Next]_vars PROVE TypeOK' /\ InMove'
  OBVIOUS
<1> USE ConstantsAssumption
<1>1. CASE UNCHANGED vars
  BY <1>1 DEF vars, moveVars, TypeOK, InMove
<1>2. CASE total_routing_cost
  BY <1>2 DEF total_routing_cost, TypeOK, InMove
<1>3. ASSUME NEW t \in Thread, Run(t) PROVE TypeOK' /\ InMove'
  <2>1. CASE keep_going(t)
    <3>1. TypeOK'
      <4>1. flag' \in BOOLEAN
        BY <2>1 DEF keep_going, TypeOK
      <4>2. 0 \in Nat /\ 0 \in Nat \cup {-1} /\ 0 \in 0 .. Moves
        OBVIOUS
      <4>3. /\ good' \in [Thread -> Nat] /\ bad' \in [Thread -> Nat \cup {-1}]
            /\ i' \in [Thread -> 0 .. Moves]
        <5>1. /\ good' = good \/ good' = [good EXCEPT ![t] = 0]
              /\ bad' = bad \/ bad' = [bad EXCEPT ![t] = 0]
              /\ i' = i \/ i' = [i EXCEPT ![t] = 0]
          BY <2>1 DEF keep_going
        <5>2. good' \in [Thread -> Nat]
          BY <5>1, <4>2 DEF TypeOK
        <5>3. bad' \in [Thread -> Nat \cup {-1}]
          BY <5>1, <4>2 DEF TypeOK
        <5>4. i' \in [Thread -> 0 .. Moves]
          BY <5>1, <4>2 DEF TypeOK
        <5> QED
          BY <5>2, <5>3, <5>4
      <4> QED
        BY <2>1, <4>1, <4>3 DEF keep_going, TypeOK
    <3>2. InMove'
      BY <2>1 DEF keep_going, TypeOK, InMove
    <3> QED
      BY <3>1, <3>2
  <2>2. CASE get_random_element(t)
    <3>1. PICK e \in Elem \ {b[t]} :
              /\ a' = [a EXCEPT ![t] = b[t]] /\ b' = [b EXCEPT ![t] = e]
              /\ todo' = [todo EXCEPT ![t] = <<b[t], e>> \o Pins[b[t]] \o Pins[e]]
      BY <2>2 DEF get_random_element
    <3>2. <<b[t], e>> \o Pins[b[t]] \o Pins[e] \in Seq(Elem)
      <4>1. Pins[b[t]] \in Seq(Elem) /\ Pins[e] \in Seq(Elem) /\ <<b[t], e>> \in Seq(Elem)
        BY <3>1 DEF TypeOK
      <4> QED
        BY <4>1
    <3> QED
      BY <2>2, <3>1, <3>2 DEF get_random_element, TypeOK, InMove
  <2>3. CASE swap_cost(t)
    <3>1. todo' \in [Thread -> Seq(Elem)]
      <4>1. todo[t] \in Seq(Elem) /\ todo[t] # <<>>
        BY <2>3 DEF swap_cost, TypeOK
      <4>2. Tail(todo[t]) \in Seq(Elem)
        BY <4>1
      <4> QED
        BY <2>3, <4>2 DEF swap_cost, TypeOK
    <3> QED
      BY <2>3, <3>1 DEF swap_cost, moveVars, TypeOK, InMove
  <2>4. CASE accept_move(t)
    <3>1. TypeOK'
      <4>1. i[t] + 1 \in 0 .. Moves /\ good[t] + 1 \in Nat /\ bad[t] + 1 \in Nat \cup {-1}
        <5>1. i[t] < Moves /\ i[t] \in 0 .. Moves
          BY <2>4 DEF accept_move, InMove, TypeOK
        <5>2. good[t] \in Nat /\ bad[t] \in Nat \cup {-1}
          BY DEF TypeOK
        <5> QED
          BY <5>1, <5>2
      <4>2. /\ good' \in [Thread -> Nat] /\ bad' \in [Thread -> Nat \cup {-1}]
            /\ i' \in [Thread -> 0 .. Moves]
        <5>1. /\ good' = good \/ good' = [good EXCEPT ![t] = good[t] + 1]
              /\ bad' = bad \/ bad' = [bad EXCEPT ![t] = bad[t] + 1]
              /\ i' = i \/ i' = [i EXCEPT ![t] = i[t] + 1]
          BY <2>4 DEF accept_move
        <5>2. good' \in [Thread -> Nat]
          BY <5>1, <4>1 DEF TypeOK
        <5>3. bad' \in [Thread -> Nat \cup {-1}]
          BY <5>1, <4>1 DEF TypeOK
        <5>4. i' \in [Thread -> 0 .. Moves]
          BY <5>1, <4>1 DEF TypeOK
        <5> QED
          BY <5>2, <5>3, <5>4
      <4> QED
        BY <2>4, <4>2 DEF accept_move, TypeOK
    <3>2. InMove'
      BY <2>4 DEF accept_move, TypeOK, InMove
    <3> QED
      BY <3>1, <3>2
  <2>5. CASE Checkout(t)
    BY <2>5, OrderedPair, GetType, CmpsetType DEF Checkout
  <2>6. CASE PrivateSet(t)
    <3>1. held[t] \in Elem \cup {ATOMIC_NULL}
      BY DEF TypeOK
    <3> QED
      BY <2>6, <3>1, OrderedPair, GetType, CmpsetType DEF PrivateSet
  <2>7. CASE Checkin(t)
    <3>1. TypeOK'
      <4>1. i[t] + 1 \in 0 .. Moves
        BY <2>7 DEF Checkin, InMove, TypeOK
      <4> QED
        BY <2>7, <4>1, OrderedPair DEF Checkin, moveVars, TypeOK
    <3>2. InMove'
      BY <2>7, OrderedPair DEF Checkin, moveVars, TypeOK, InMove
    <3> QED
      BY <3>1, <3>2
  <2>8. CASE EndTemperature(t)
    <3>1. TypeOK'
      <4>1. steps' \in [Thread -> Nat]
        BY <2>8 DEF EndTemperature, TypeOK
      <4> QED
        <5>1. pc' = [u \in Thread |-> "keep_going"] \/ pc' = [pc EXCEPT ![t] = "barrier"]
          BY <2>8 DEF EndTemperature, Arrives
        <5> QED
          BY <2>8, <4>1, <5>1 DEF EndTemperature, TypeOK
    <3>2. InMove'
      BY <2>8 DEF EndTemperature, Arrives, TypeOK, InMove
    <3> QED
      BY <3>1, <3>2
  <2> QED
    BY <1>3, <2>1, <2>2, <2>3, <2>4, <2>5, <2>6, <2>7, <2>8 DEF Run
<1> QED
  BY <1>1, <1>2, <1>3 DEF Next

(* Thread steps and barrier rounds: the thread that completes the barrier is   *)
(* the one that brings everybody to the same count.                            *)
LEMMA RoundStep == TypeOK /\ InRound /\ [Next]_vars => InRound'
<1> SUFFICES ASSUME TypeOK, InRound, [Next]_vars PROVE InRound'
  OBVIOUS
<1>1. PICK n \in Nat : \A t \in Thread : steps[t] = IF pc[t] = "barrier" THEN n + 1 ELSE n
  BY DEF InRound
<1>2. CASE UNCHANGED vars \/ total_routing_cost
  BY <1>2 DEF vars, moveVars, total_routing_cost, InRound
<1>3. ASSUME NEW t \in Thread, Run(t) PROVE InRound'
  <2>1. CASE EndTemperature(t)
    <3>1. steps[t] = n /\ pc[t] # "barrier"
      BY <1>1, <2>1 DEF EndTemperature
    <3>2. CASE \A u \in Thread \ {t} : pc[u] = "barrier"
      <4>1. \A u \in Thread : steps'[u] = n + 1 /\ pc'[u] = "keep_going"
        BY <1>1, <2>1, <3>1, <3>2 DEF EndTemperature, Arrives, TypeOK
      <4> QED
        BY <4>1 DEF InRound
    <3>3. CASE ~ \A u \in Thread \ {t} : pc[u] = "barrier"
      <4>1. pc' = [pc EXCEPT ![t] = "barrier"] /\ steps' = [steps EXCEPT ![t] = n + 1]
        BY <2>1, <3>1, <3>3 DEF EndTemperature, Arrives
      <4>2. \A u \in Thread : steps'[u] = IF pc'[u] = "barrier" THEN n + 1 ELSE n
        BY <1>1, <4>1 DEF TypeOK
      <4> QED
        BY <4>2 DEF InRound
    <3> QED
      BY <3>2, <3>3
  <2>2. CASE ~ EndTemperature(t)
    <3>1. steps' = steps /\ pc[t] # "barrier"
      BY <1>3, <2>2 DEF Run, keep_going, get_random_element, swap_cost, accept_move,
         Checkout, PrivateSet, Checkin, Get, cmpset, moveVars
    <3>2. /\ \A u \in Thread \ {t} : pc'[u] = pc[u]
          /\ pc'[t] # "barrier"
      BY <1>3, <2>2 DEF Run, keep_going, get_random_element, swap_cost, accept_move,
         Checkout, PrivateSet, Checkin, Get, cmpset, moveVars, TypeOK
    <3> QED
      BY <1>1, <3>1, <3>2 DEF InRound
  <2> QED
    BY <2>1, <2>2
<1> QED
  BY <1>2, <1>3 DEF Next

(* What a step does to the pointers: nothing, or one of the three steps of     *)
(* AtomicPtr::Swap that write one (Checkout, last->PrivateSet, Checkin).       *)
Quiet ==
    /\ UNCHANGED <<p, held>>
    /\ \A u \in Thread : /\ Holding(u)' <=> Holding(u)
                         /\ Holding(u) => first(u)' = first(u)

OnlyBy(t) ==
    /\ \A u \in Thread : first(u)' = first(u)
    /\ \A u \in Thread \ {t} : (Holding(u)' <=> Holding(u)) /\ held'[u] = held[u]

TakesFirst(t) ==
    /\ OnlyBy(t) /\ ~Holding(t) /\ Holding(t)'
    /\ p[first(t)] \in Elem /\ held'[t] = p[first(t)]
    /\ p' = [p EXCEPT ![first(t)] = ATOMIC_NULL]

SetsLast(t) ==
    /\ OnlyBy(t) /\ Holding(t) /\ Holding(t)'
    /\ p[last(t)] \in Elem /\ held'[t] = p[last(t)]
    /\ p' = [p EXCEPT ![last(t)] = held[t]]

GivesBack(t) ==
    /\ OnlyBy(t) /\ Holding(t) /\ ~Holding(t)'
    /\ p' = [p EXCEPT ![first(t)] = held[t]]

(* Every step of the program is one of these. *)
LEMMA Effect ==
  ASSUME TypeOK, InMove, [Next]_vars
  PROVE  Quiet \/ \E t \in Thread : TakesFirst(t) \/ SetsLast(t) \/ GivesBack(t)
<1>1. CASE UNCHANGED vars \/ total_routing_cost
  BY <1>1 DEF vars, moveVars, total_routing_cost, Quiet, Holding, first, Ordered
<1>2. ASSUME NEW t \in Thread, Run(t)
      PROVE  Quiet \/ TakesFirst(t) \/ SetsLast(t) \/ GivesBack(t)
  <2>1. CASE keep_going(t)
    BY <2>1 DEF keep_going, Quiet, Holding, first, Ordered, TypeOK
  <2>2. CASE get_random_element(t)
    BY <2>2 DEF get_random_element, Quiet, Holding, first, Ordered, TypeOK
  <2>3. CASE swap_cost(t)
    BY <2>3 DEF swap_cost, moveVars, Quiet, Holding, first, Ordered
  <2>4. CASE accept_move(t)
    BY <2>4 DEF accept_move, Quiet, Holding, first, Ordered, TypeOK
  <2>5. CASE Checkout(t)
    <3>1. CASE pc[t] = "checkout"
      BY <2>5, <3>1 DEF Checkout, Get, moveVars, Quiet, Holding, first, Ordered, TypeOK
    <3>2. CASE pc[t] = "checkout_cmpset" /\ p[first(t)] # seen[t]
      BY <2>5, <3>2 DEF Checkout, cmpset, moveVars, Quiet, Holding, first, Ordered, TypeOK
    <3>3. CASE pc[t] = "checkout_cmpset" /\ p[first(t)] = seen[t]
      <4>1. seen[t] \in Elem
        BY <3>3 DEF InMove
      <4>2. cmpset(t, first(t), ATOMIC_NULL, "checkout", "set")
        BY <2>5, <3>3 DEF Checkout
      <4>3. \A u \in Thread : first(u)' = first(u)
        BY <4>2 DEF cmpset, moveVars, first, Ordered
      <4>4. /\ p' = [p EXCEPT ![first(t)] = ATOMIC_NULL]
            /\ held' = [held EXCEPT ![t] = seen[t]]
            /\ pc' = [pc EXCEPT ![t] = "set"]
        BY <4>2, <3>3 DEF cmpset
      <4> QED
        BY <3>3, <4>1, <4>3, <4>4 DEF TakesFirst, OnlyBy, Holding, TypeOK
    <3> QED
      BY <2>5, <3>1, <3>2, <3>3 DEF Checkout
  <2>6. CASE PrivateSet(t)
    <3>1. CASE pc[t] = "set"
      BY <2>6, <3>1 DEF PrivateSet, Get, moveVars, Quiet, Holding, first, Ordered, TypeOK
    <3>2. CASE pc[t] = "set_cmpset" /\ p[last(t)] # seen[t]
      BY <2>6, <3>2 DEF PrivateSet, cmpset, moveVars, Quiet, Holding, first, Ordered, TypeOK
    <3>3. CASE pc[t] = "set_cmpset" /\ p[last(t)] = seen[t]
      <4>1. seen[t] \in Elem
        BY <3>3 DEF InMove
      <4>2. cmpset(t, last(t), held[t], "set", "checkin")
        BY <2>6, <3>3 DEF PrivateSet
      <4>3. \A u \in Thread : first(u)' = first(u)
        BY <4>2 DEF cmpset, moveVars, first, Ordered
      <4>4. /\ p' = [p EXCEPT ![last(t)] = held[t]]
            /\ held' = [held EXCEPT ![t] = seen[t]]
            /\ pc' = [pc EXCEPT ![t] = "checkin"]
        BY <4>2, <3>3 DEF cmpset
      <4> QED
        BY <3>3, <4>1, <4>3, <4>4 DEF SetsLast, OnlyBy, Holding, TypeOK
    <3> QED
      BY <2>6, <3>1, <3>2, <3>3 DEF PrivateSet
  <2>7. CASE Checkin(t)
    <3>1. \A u \in Thread : first(u)' = first(u)
      BY <2>7 DEF Checkin, moveVars, first, Ordered
    <3> QED
      BY <2>7, <3>1 DEF Checkin, GivesBack, OnlyBy, Holding, TypeOK
  <2>8. CASE EndTemperature(t)
    BY <2>8 DEF EndTemperature, Arrives, Quiet, Holding, first, Ordered, TypeOK
  <2> QED
    BY <1>2, <2>1, <2>2, <2>3, <2>4, <2>5, <2>6, <2>7, <2>8 DEF Run
<1> QED
  BY <1>1, <1>2 DEF Next

(* Each kind of step leaves every checked-out pointer with one owner.          *)
LEMMA ClaimsStep ==
  ASSUME TypeOK, InMove, Claims, [Next]_vars
  PROVE  Claims'
<1>1. CASE Quiet
  BY <1>1 DEF Quiet, Claims
<1>2. ASSUME NEW t \in Thread, TakesFirst(t) PROVE Claims'
  <2>0. /\ \A u \in Thread : first(u) \in Elem /\ first(u)' = first(u)
        /\ last(t) \in Elem /\ held[t] \in Elem \cup {ATOMIC_NULL}
    BY <1>2, OrderedPair DEF TakesFirst, OnlyBy, TypeOK
  <2>1. ASSUME NEW u \in Thread, Holding(u)'
        PROVE  held'[u] \in Elem /\ p'[first(u)] = ATOMIC_NULL
    BY <1>2, <2>0, <2>1, NullAssumption DEF TakesFirst, OnlyBy, Claims, TypeOK
  <2>2. ASSUME NEW u \in Thread, NEW v \in Thread, Holding(u)', Holding(v)', first(u) = first(v)
        PROVE  u = v
    BY <1>2, <2>0, <2>2, NullAssumption DEF TakesFirst, OnlyBy, Claims
  <2>3. ASSUME NEW e \in Elem, p'[e] = ATOMIC_NULL
        PROVE  \E u \in Thread : Holding(u)' /\ first(u) = e
    BY <1>2, <2>0, <2>3, NullAssumption DEF TakesFirst, OnlyBy, Claims, TypeOK
  <2> QED
    BY <2>0, <2>1, <2>2, <2>3 DEF Claims
<1>3. ASSUME NEW t \in Thread, SetsLast(t) PROVE Claims'
  <2>0. /\ \A u \in Thread : first(u) \in Elem /\ first(u)' = first(u)
        /\ last(t) \in Elem /\ held[t] \in Elem \cup {ATOMIC_NULL}
    BY <1>3, OrderedPair DEF SetsLast, OnlyBy, TypeOK
  <2>4. first(t) # last(t) /\ held[t] \in Elem
    BY <1>3, OrderedPair DEF SetsLast, Holding, InMove, Claims
  <2>1. ASSUME NEW u \in Thread, Holding(u)'
        PROVE  held'[u] \in Elem /\ p'[first(u)] = ATOMIC_NULL
    BY <1>3, <2>0, <2>1, <2>4, NullAssumption DEF SetsLast, OnlyBy, Claims, TypeOK
  <2>2. ASSUME NEW u \in Thread, NEW v \in Thread, Holding(u)', Holding(v)', first(u) = first(v)
        PROVE  u = v
    BY <1>3, <2>0, <2>2, <2>4, NullAssumption DEF SetsLast, OnlyBy, Claims
  <2>3. ASSUME NEW e \in Elem, p'[e] = ATOMIC_NULL
        PROVE  \E u \in Thread : Holding(u)' /\ first(u) = e
    BY <1>3, <2>0, <2>3, <2>4, NullAssumption DEF SetsLast, OnlyBy, Claims, TypeOK
  <2> QED
    BY <2>0, <2>1, <2>2, <2>3 DEF Claims
<1>4. ASSUME NEW t \in Thread, GivesBack(t) PROVE Claims'
  <2>0. /\ \A u \in Thread : first(u) \in Elem /\ first(u)' = first(u)
        /\ last(t) \in Elem /\ held[t] \in Elem \cup {ATOMIC_NULL}
    BY <1>4, OrderedPair DEF GivesBack, OnlyBy, TypeOK
  <2>4. held[t] \in Elem
    BY <1>4 DEF GivesBack, Claims
  <2>1. ASSUME NEW u \in Thread, Holding(u)'
        PROVE  held'[u] \in Elem /\ p'[first(u)] = ATOMIC_NULL
    BY <1>4, <2>0, <2>1, <2>4, NullAssumption DEF GivesBack, OnlyBy, Claims, TypeOK
  <2>2. ASSUME NEW u \in Thread, NEW v \in Thread, Holding(u)', Holding(v)', first(u) = first(v)
        PROVE  u = v
    BY <1>4, <2>0, <2>2, <2>4, NullAssumption DEF GivesBack, OnlyBy, Claims
  <2>3. ASSUME NEW e \in Elem, p'[e] = ATOMIC_NULL
        PROVE  \E u \in Thread : Holding(u)' /\ first(u) = e
    BY <1>4, <2>0, <2>3, <2>4, NullAssumption DEF GivesBack, OnlyBy, Claims, TypeOK
  <2> QED
    BY <2>0, <2>1, <2>2, <2>3 DEF Claims
<1> QED
  BY <1>1, <1>2, <1>3, <1>4, Effect

(* Where an element is, in terms of the pointer or of its owner.               *)
LEMMA LocationOf ==
  TypeOK /\ Claims =>
      /\ \A e \in Elem : p[e] # ATOMIC_NULL => Location(e) = p[e]
      /\ \A t \in Thread : Holding(t) => Location(first(t)) = held[t]
<1> SUFFICES ASSUME TypeOK, Claims, NEW t \in Thread, Holding(t)
             PROVE  Location(first(t)) = held[t]
  BY DEF Location
<1>1. p[first(t)] = ATOMIC_NULL
  BY DEF Claims
<1>2. \A u \in Thread : Holding(u) /\ first(u) = first(t) => u = t
  BY DEF Claims
<1>3. (CHOOSE u \in Thread : Holding(u) /\ first(u) = first(t)) = t
  BY <1>2
<1> QED
  BY <1>1, <1>3 DEF Location

(* Every step exchanges two locations or leaves all of them where they are.    *)
Loc == [e \in Elem |-> Location(e)]

(* AtomicPtr::Swap as the other threads can tell it. *)
LEMMA LocationStep ==
  ASSUME IndInv, IndInv', [Next]_vars
  PROVE  \/ Loc' = Loc
         \/ \E x, y \in Elem : Loc' = [Loc EXCEPT ![x] = Loc[y], ![y] = Loc[x]]
<1>1. /\ \A e \in Elem : p[e] # ATOMIC_NULL => Location(e) = p[e]
      /\ \A t \in Thread : Holding(t) => Location(first(t)) = held[t]
  BY LocationOf DEF IndInv
<1>2. /\ \A e \in Elem : p'[e] # ATOMIC_NULL => Location(e)' = p'[e]
      /\ \A t \in Thread : Holding(t)' => Location(first(t))' = held'[t]
  <2>1. TypeOK' /\ Claims'
    BY DEF IndInv
  <2>2. (/\ \A e \in Elem : p[e] # ATOMIC_NULL => Location(e) = p[e]
         /\ \A t \in Thread : Holding(t) => Location(first(t)) = held[t])'
    BY <2>1, LocationOf, PTL
  <2> QED
    BY <2>2
<1>3. \A e \in Elem : p[e] = ATOMIC_NULL => \E t \in Thread : Holding(t) /\ first(t) = e
  BY DEF IndInv, Claims
<1>4. \A t \in Thread : first(t) \in Elem /\ last(t) \in Elem
  BY OrderedPair DEF IndInv
<1>5. CASE Quiet
  <2>1. ASSUME NEW e \in Elem PROVE Location(e)' = Location(e)
    <3>1. CASE p[e] # ATOMIC_NULL
      BY <1>1, <1>2, <1>5, <3>1 DEF Quiet
    <3>2. CASE p[e] = ATOMIC_NULL
      BY <1>1, <1>2, <1>3, <1>5, <3>2 DEF Quiet
    <3> QED
      BY <3>1, <3>2
  <2> QED
    BY <2>1 DEF Loc
<1>6. ASSUME NEW t \in Thread, TakesFirst(t) PROVE Loc' = Loc
  <2>1. ASSUME NEW e \in Elem PROVE Location(e)' = Location(e)
    <3>1. CASE e = first(t)
      <4>1. Location(e)' = held'[t]
        BY <1>2, <1>6, <3>1 DEF TakesFirst, OnlyBy
      <4>2. Location(e) = p[e]
        BY <1>1, <1>6, <3>1, NullAssumption DEF TakesFirst
      <4> QED
        BY <1>6, <3>1, <4>1, <4>2 DEF TakesFirst
    <3>2. CASE e # first(t) /\ p[e] # ATOMIC_NULL
      <4>1. p'[e] = p[e]
        BY <1>6, <3>2 DEF TakesFirst, IndInv, TypeOK
      <4> QED
        BY <1>1, <1>2, <3>2, <4>1
    <3>3. CASE e # first(t) /\ p[e] = ATOMIC_NULL
      BY <1>1, <1>2, <1>3, <1>6, <3>3 DEF TakesFirst, OnlyBy
    <3> QED
      BY <3>1, <3>2, <3>3
  <2> QED
    BY <2>1 DEF Loc
<1>7. ASSUME NEW t \in Thread, GivesBack(t) PROVE Loc' = Loc
  <2>0. held[t] \in Elem
    BY <1>7 DEF GivesBack, IndInv, Claims
  <2>1. ASSUME NEW e \in Elem PROVE Location(e)' = Location(e)
    <3>1. CASE e = first(t)
      <4>1. p'[e] = held[t]
        BY <1>7, <3>1 DEF GivesBack, IndInv, TypeOK
      <4>2. Location(e) = held[t]
        BY <1>1, <1>7, <3>1 DEF GivesBack
      <4> QED
        BY <1>2, <2>0, <4>1, <4>2, NullAssumption
    <3>2. CASE e # first(t) /\ p[e] # ATOMIC_NULL
      <4>1. p'[e] = p[e]
        BY <1>7, <3>2 DEF GivesBack, IndInv, TypeOK
      <4> QED
        BY <1>1, <1>2, <3>2, <4>1
    <3>3. CASE e # first(t) /\ p[e] = ATOMIC_NULL
      BY <1>1, <1>2, <1>3, <1>7, <3>3 DEF GivesBack, OnlyBy
    <3> QED
      BY <3>1, <3>2, <3>3
  <2> QED
    BY <2>1 DEF Loc
<1>8. ASSUME NEW t \in Thread, SetsLast(t)
      PROVE  Loc' = [Loc EXCEPT ![first(t)] = Loc[last(t)], ![last(t)] = Loc[first(t)]]
  <2>0. held[t] \in Elem /\ first(t) # last(t)
    BY <1>8, OrderedPair DEF SetsLast, Holding, IndInv, Claims, InMove
  <2>1. Location(first(t)) = held[t] /\ Location(last(t)) = p[last(t)]
    BY <1>1, <1>4, <1>8, NullAssumption DEF SetsLast
  <2>2. \A e \in Elem : e = first(t) => Location(e)' = p[last(t)]
    BY <1>2, <1>8 DEF SetsLast, OnlyBy
  <2>3. \A e \in Elem : e = last(t) => Location(e)' = held[t]
    <3>1. p'[last(t)] = held[t]
      BY <1>4, <1>8 DEF SetsLast, IndInv, TypeOK
    <3> QED
      BY <1>2, <2>0, <3>1, NullAssumption
  <2>4. ASSUME NEW e \in Elem, e # first(t), e # last(t) PROVE Location(e)' = Location(e)
    <3>1. p'[e] = p[e]
      BY <1>8, <2>4 DEF SetsLast, IndInv, TypeOK
    <3>2. CASE p[e] # ATOMIC_NULL
      BY <1>1, <1>2, <3>1, <3>2
    <3>3. CASE p[e] = ATOMIC_NULL
      BY <1>1, <1>2, <1>3, <1>8, <2>4, <3>3 DEF SetsLast, OnlyBy
    <3> QED
      BY <3>2, <3>3
  <2> QED
    BY <1>4, <2>0, <2>1, <2>2, <2>3, <2>4 DEF Loc
<1> QED
  BY <1>4, <1>5, <1>6, <1>7, <1>8, Effect DEF IndInv

(* annealer_thread::Run keeps its types, and never makes more moves in a       *)
(* temperature step than _moves_per_thread_temp, for all threads and elements. *)
THEOREM TypeCorrect == Spec => []TypeOK
<1>1. Init => TypeOK /\ InMove
  BY TypeInit
<1>2. TypeOK /\ InMove /\ [Next]_vars => TypeOK' /\ InMove'
  BY TypeStep
<1> QED
  BY <1>1, <1>2, PTL DEF Spec

(* pthread_barrier_wait in Run: for any number of threads, nobody is more than *)
(* one temperature step ahead of anybody, deserters included.                  *)
THEOREM Temperature == Spec => []SameTemperature
<1>1. Init => InRound
  BY DEF Init, InRound
<1>2. TypeOK /\ InRound /\ [Next]_vars => InRound'
  BY RoundStep
<1>3. InRound => SameTemperature
  BY DEF InRound, SameTemperature
<1> QED
  BY <1>1, <1>2, <1>3, TypeCorrect, PTL DEF Spec

(* The inductive invariant of AtomicPtr::Swap under Run.                       *)
THEOREM Invariance == Spec => []IndInv
<1>1. Init => IndInv
  <2>1. Init => Claims
    BY NullAssumption DEF Init, Claims, Holding
  <2> QED
    BY <2>1, TypeInit DEF IndInv
<1>2. IndInv /\ [Next]_vars => IndInv'
  BY TypeStep, ClaimsStep DEF IndInv
<1> QED
  BY <1>1, <1>2, PTL DEF Spec

(* AtomicPtr::Checkout: for any number of threads a checked-out pointer has    *)
(* exactly one thread inside Swap that will check it in.                       *)
THEOREM CheckedOut == Spec => []CheckedOutByOne
<1>1. IndInv => CheckedOutByOne
  <2> SUFFICES ASSUME IndInv, NEW e \in Elem
               PROVE  Cardinality({t \in Thread : Holding(t) /\ first(t) = e})
                          = IF p[e] = ATOMIC_NULL THEN 1 ELSE 0
    BY DEF CheckedOutByOne
  <2>1. CASE p[e] = ATOMIC_NULL
    <3>1. PICK t \in Thread : Holding(t) /\ first(t) = e
      BY <2>1 DEF IndInv, Claims
    <3>2. {u \in Thread : Holding(u) /\ first(u) = e} = {t}
      BY <3>1 DEF IndInv, Claims
    <3> QED
      BY <2>1, <3>2, FS_Singleton
  <2>2. CASE p[e] # ATOMIC_NULL
    <3>1. {u \in Thread : Holding(u) /\ first(u) = e} = {}
      BY <2>2 DEF IndInv, Claims
    <3> QED
      BY <2>2, <3>1, FS_EmptySet
  <2> QED
    BY <2>1, <2>2
<1> QED
  BY <1>1, Invariance, PTL

(* AtomicPtr::Swap is an atomic exchange of two locations: whatever swaps of   *)
(* the same elements overlap, the successful cmpset of last->PrivateSet is the *)
(* moment at which both elements change places.                                *)
THEOREM Refinement == Spec => ImplementsPlacement
<1>1. Init => P!Init
  BY NullAssumption DEF Init, P!Init, Location
<1>2. IndInv /\ IndInv' /\ [Next]_vars => [P!Next]_([e \in Elem |-> Location(e)])
  BY LocationStep DEF Loc, P!Next, P!Exchange
<1> QED
  BY <1>1, <1>2, Invariance, PTL DEF Spec, ImplementsPlacement, P!Spec

(* What makes the placement a permutation while swaps are under way, and main  *)
(* past its joins.                                                             *)
AllApart == /\ \A e \in Elem : Location(e) \in Elem
            /\ \A e, f \in Elem : Location(e) = Location(f) => e = f

Finished == main = "returned" => \A t \in Thread : pc[t] = "done"

(* No location is lost or doubled in the placement that main reports after     *)
(* joining the threads, for any number of them.                                *)
THEOREM Permutation == Spec => []OnePlaceEach
<1>1. Init => AllApart /\ Finished
  BY NullAssumption DEF Init, AllApart, Finished, Location
<1>2. AllApart /\ IndInv /\ IndInv' /\ [Next]_vars => AllApart'
  <2> SUFFICES ASSUME AllApart, IndInv, IndInv', [Next]_vars PROVE AllApart'
    OBVIOUS
  <2>1. /\ \A e \in Elem : Loc[e] \in Elem
        /\ \A e, f \in Elem : Loc[e] = Loc[f] => e = f
    BY DEF AllApart, Loc
  <2>2. /\ \A e \in Elem : Loc'[e] \in Elem
        /\ \A e, f \in Elem : Loc'[e] = Loc'[f] => e = f
    <3>1. CASE Loc' = Loc
      BY <2>1, <3>1
    <3>2. ASSUME NEW x \in Elem, NEW y \in Elem,
                 Loc' = [Loc EXCEPT ![x] = Loc[y], ![y] = Loc[x]]
          PROVE  /\ \A e \in Elem : Loc'[e] \in Elem
                 /\ \A e, f \in Elem : Loc'[e] = Loc'[f] => e = f
      <4>1. DOMAIN Loc = Elem /\ Loc = [e \in Elem |-> Loc[e]]
        BY DEF Loc
      <4>2. \A e \in Elem : Loc'[e] = IF e = y THEN Loc[x] ELSE IF e = x THEN Loc[y] ELSE Loc[e]
        BY <3>2, <4>1
      <4> QED
        BY <2>1, <4>2
    <3> QED
      BY <3>1, <3>2, LocationStep
  <2> QED
    BY <2>2 DEF AllApart, Loc
<1>3. Finished /\ TypeOK /\ [Next]_vars => Finished'
  <2> SUFFICES ASSUME Finished, TypeOK, [Next]_vars PROVE Finished'
    OBVIOUS
  <2>1. CASE UNCHANGED vars \/ total_routing_cost
    BY <2>1 DEF vars, moveVars, total_routing_cost, Finished
  <2>2. ASSUME NEW t \in Thread, Run(t) PROVE pc[t] # "done" /\ main' = main
    BY <2>2 DEF Run, keep_going, get_random_element, swap_cost, accept_move, Checkout,
       PrivateSet, Checkin, EndTemperature, Get, cmpset, moveVars
  <2> QED
    BY <2>1, <2>2 DEF Next, Finished
<1>4. AllApart /\ Finished /\ IndInv => OnePlaceEach
  <2> SUFFICES ASSUME AllApart, Finished, IndInv, main = "returned"
               PROVE  p \in [Elem -> Elem] /\ \A e, f \in Elem : p[e] = p[f] => e = f
    BY DEF OnePlaceEach
  <2>1. \A e \in Elem : p[e] # ATOMIC_NULL
    BY DEF Finished, IndInv, Claims, Holding
  <2>2. \A e \in Elem : Location(e) = p[e]
    BY <2>1, LocationOf DEF IndInv
  <2> QED
    BY <2>1, <2>2 DEF AllApart, IndInv, TypeOK
<1> QED
  BY <1>1, <1>2, <1>3, <1>4, Invariance, TypeCorrect, PTL DEF Spec
=============================================================================
