-------------------------- MODULE OrderPathProofs --------------------------
(***************************************************************************)
(* Proofs about OrderPath, for any orders, batches, calls, quantities and  *)
(* numbers of slices and restarts.                                         *)
(***************************************************************************)
EXTENDS OrderPath, TLAPS

\* A call holds an order from its reservation until the order is done with.
Held(t, o) == (pc[t] = "lookup" /\ cur[t] = o) \/ o \in toSubmit[t]

\* What is held was reserved, and the order looked up is a real one.
HeldIsSeen ==
    /\ \A t \in Calls, o \in Orders : Held(t, o) => o \in seen
    /\ \A t \in Calls : pc[t] = "lookup" => cur[t] \in Orders

\* No order is held by two calls.
OneHolder ==
    \A t, u \in Calls, o \in Orders : Held(t, o) /\ Held(u, o) => t = u

\* The order being sliced is held, and sent but for what is left.
SliceCounts ==
    \A t \in Calls : pc[t] = "slice" =>
        /\ cur[t] \in toSubmit[t]
        /\ placedNow[cur[t]] + left[t] = Qty[cur[t]]
        /\ left[t] > 0

\* Nothing was sent of an order not reserved, or held and not being sliced.
FreshIsUnsent ==
    /\ \A o \in Orders : o \notin seen => placedNow[o] = 0
    /\ \A t \in Calls, o \in Orders :
         Held(t, o) /\ ~(pc[t] = "slice" /\ cur[t] = o) => placedNow[o] = 0

IInv == TypeOK /\ HeldIsSeen /\ OneHolder /\ SliceCounts /\ FreshIsUnsent
        /\ OncePerProcess

-----------------------------------------------------------------------------
\* A TWAP slice is never empty.
LEMMA SliceQtyPositive ==
    ASSUME NEW o \in Orders PROVE SliceQty(o) \in Nat \ {0}
  <1>1. Qty[o] \in Nat /\ TwapSlices \in Nat \ {0}
    BY OrderPathAssumption
  <1>2. Qty[o] \div TwapSlices \in Int
    BY <1>1
  <1> QED BY <1>2 DEF SliceQty

\* The next slice is at least one share and no more than what is left.
LEMMA ChildRange ==
    ASSUME TypeOK, NEW t \in Calls, cur[t] \in Orders, left[t] > 0
    PROVE  Child(t) \in 1..left[t]
  <1>1. SliceQty(cur[t]) \in Nat \ {0}
    BY SliceQtyPositive
  <1>2. left[t] \in Nat
    BY DEF TypeOK
  <1> QED BY <1>1, <1>2 DEF Child

\* What an accepted order changes at the broker.
LEMMA Accepted ==
    ASSUME TypeOK, NEW o \in Orders, NEW tactic, NEW n \in Nat,
           Accept(o, tactic, n)
    PROVE  /\ placed' \in [Orders -> Nat] /\ placedNow' \in [Orders -> Nat]
           /\ placedNow'[o] = placedNow[o] + n
           /\ placed'[o] = placed[o] + n
           /\ \A p \in Orders \ {o} :
                placedNow'[p] = placedNow[p] /\ placed'[p] = placed[p]
           /\ onBooks' \subseteq Orders /\ limited' \subseteq Orders
           /\ onBooks \subseteq onBooks' /\ limited \subseteq limited'
  BY DEF Accept, TypeOK

\* ... and what an attempt that failed may change.
LEMMA FailedSend ==
    ASSUME TypeOK, NEW o \in Orders, NEW tactic, NEW n \in Nat,
           Failed(o, tactic, n)
    PROVE  /\ placed' \in [Orders -> Nat] /\ placedNow' \in [Orders -> Nat]
           /\ placedNow'[o] \in {placedNow[o], placedNow[o] + n}
           /\ \A p \in Orders \ {o} : placedNow'[p] = placedNow[p]
           /\ onBooks' \subseteq Orders /\ limited' \subseteq Orders
  <1>1. CASE UNCHANGED broker
    BY <1>1 DEF broker, TypeOK
  <1>2. CASE Accept(o, tactic, n)
    BY <1>2, Accepted
  <1> QED BY <1>1, <1>2 DEF Failed

\* The invariant after an order of a call is done with: n of its shares were
\* sent by this last step.
LEMMA DoneStep ==
    ASSUME IInv, NEW t \in Calls, NEW o \in toSubmit[t], NEW ok \in BOOLEAN,
           pc[t] = "send" \/ (pc[t] = "slice" /\ cur[t] = o),
           Done(t, o, ok), left' \in [Calls -> Nat],
           \A u \in Calls \ {t} : left'[u] = left[u],
           placed' \in [Orders -> Nat], placedNow' \in [Orders -> Nat],
           placedNow'[o] <= Qty[o],
           \A p \in Orders \ {o} : placedNow'[p] = placedNow[p],
           onBooks' \subseteq Orders, limited' \subseteq Orders,
           UNCHANGED <<process, seen, todo>>
    PROVE  IInv'
  <1> USE DEF IInv
  <1>0. /\ o \in Orders
        /\ pc' = [pc EXCEPT ![t] = IF toSubmit[t] \ {o} = {} THEN "idle" ELSE "send"]
        /\ toSubmit' = [toSubmit EXCEPT ![t] = toSubmit[t] \ {o}]
        /\ cur' = [cur EXCEPT ![t] = NoOrder]
        /\ settled' = settled \cup {o}
        /\ UNCHANGED <<proc, soak, crashes, seen, todo>>
    BY DEF Done, Remaining, TypeOK, process
  <1>1. TypeOK'
    BY <1>0 DEF TypeOK
  <1>2. pc'[t] \in {"idle", "send"} /\ toSubmit'[t] = toSubmit[t] \ {o}
    BY <1>0 DEF TypeOK
  <1>3. ASSUME NEW u \in Calls, u # t
        PROVE pc'[u] = pc[u] /\ toSubmit'[u] = toSubmit[u] /\ cur'[u] = cur[u]
    BY <1>0, <1>3 DEF TypeOK
  <1>4. ASSUME NEW u \in Calls, NEW p \in Orders, Held(u, p)'
        PROVE Held(u, p) /\ p # o
    <2>1. CASE u = t
      BY <2>1, <1>2, <1>4 DEF Held
    <2>2. CASE u # t
      <3>1. Held(u, p)
        BY <2>2, <1>3, <1>4 DEF Held
      <3>2. p # o
        BY <3>1, <2>2 DEF OneHolder, Held, TypeOK
      <3> QED BY <3>1, <3>2
    <2> QED BY <2>1, <2>2
  <1>5. HeldIsSeen'
    BY <1>0, <1>2, <1>3, <1>4 DEF HeldIsSeen
  <1>6. OneHolder'
    BY <1>4 DEF OneHolder
  <1>7. SliceCounts'
    <2> SUFFICES ASSUME NEW u \in Calls, pc'[u] = "slice"
                 PROVE  /\ cur'[u] \in toSubmit'[u]
                        /\ placedNow'[cur'[u]] + left'[u] = Qty[cur'[u]]
                        /\ left'[u] > 0
      BY DEF SliceCounts
    <2>1. u # t
      BY <1>2
    <2>2. /\ pc[u] = "slice" /\ cur'[u] = cur[u] /\ toSubmit'[u] = toSubmit[u]
          /\ left'[u] = left[u]
      BY <1>3, <2>1
    <2>3. cur[u] \in toSubmit[u] /\ placedNow[cur[u]] + left[u] = Qty[cur[u]]
          /\ left[u] > 0
      BY <2>2 DEF SliceCounts
    <2>4. cur[u] \in Orders /\ cur[u] # o
      BY <2>1, <2>3, <1>0 DEF OneHolder, Held, TypeOK
    <2> QED BY <2>2, <2>3, <2>4
  <1>8. FreshIsUnsent'
    <2>1. ASSUME NEW p \in Orders, p \notin seen' PROVE placedNow'[p] = 0
      <3>1. p # o
        BY <2>1, <1>0 DEF HeldIsSeen, Held
      <3> QED BY <3>1, <2>1, <1>0 DEF FreshIsUnsent
    <2>2. ASSUME NEW u \in Calls, NEW p \in Orders, Held(u, p)',
                 ~(pc'[u] = "slice" /\ cur'[u] = p)
          PROVE placedNow'[p] = 0
      <3>1. Held(u, p) /\ p # o
        BY <1>4, <2>2
      <3>2. CASE u # t
        BY <3>1, <3>2, <2>2, <1>3 DEF FreshIsUnsent
      <3>3. CASE u = t
        BY <3>1, <3>3 DEF FreshIsUnsent
      <3> QED BY <3>2, <3>3
    <2> QED BY <2>1, <2>2 DEF FreshIsUnsent
  <1>9. OncePerProcess'
    BY DEF OncePerProcess
  <1> QED BY <1>1, <1>5, <1>6, <1>7, <1>8, <1>9

-----------------------------------------------------------------------------
(* The other steps of a call.                                              *)

LEMMA SubmitStep ==
    ASSUME IInv, NEW t \in Calls, NEW b \in Batches, Submit(t, b)
    PROVE  IInv'
  <1> USE DEF IInv
  <1>0. UNCHANGED <<proc, soak, crashes, seen, cur, left, settled, onBooks,
                    placed, placedNow, limited>>
    BY DEF Submit, process, broker
  <1>1. TypeOK'
    <2>1. b \in Seq(Orders)
      BY OrderPathAssumption
    <2> QED BY <1>0, <2>1 DEF Submit, TypeOK
  <1>2. pc'[t] = "loop" /\ toSubmit'[t] = {}
    BY DEF Submit, TypeOK
  <1>3. ASSUME NEW u \in Calls, u # t
        PROVE pc'[u] = pc[u] /\ toSubmit'[u] = toSubmit[u]
    BY <1>3 DEF Submit, TypeOK
  <1>4. ASSUME NEW u \in Calls, NEW p \in Orders, Held(u, p)'
        PROVE Held(u, p) /\ u # t
    BY <1>0, <1>2, <1>3, <1>4 DEF Held
  <1>5. HeldIsSeen'
    BY <1>0, <1>2, <1>3, <1>4 DEF HeldIsSeen
  <1>6. OneHolder'
    BY <1>4 DEF OneHolder
  <1>7. SliceCounts'
    BY <1>0, <1>2, <1>3 DEF SliceCounts
  <1>8. FreshIsUnsent'
    BY <1>0, <1>3, <1>4 DEF FreshIsUnsent
  <1>9. OncePerProcess'
    BY <1>0 DEF OncePerProcess
  <1> QED BY <1>1, <1>5, <1>6, <1>7, <1>8, <1>9

LEMMA ReserveStep ==
    ASSUME IInv, NEW t \in Calls, Reserve(t)
    PROVE  IInv'
  <1> USE DEF IInv
  <1> DEFINE o == Head(todo[t])
  <1>0. UNCHANGED <<proc, soak, crashes, toSubmit, left, settled, onBooks,
                    placed, placedNow, limited>>
    BY DEF Reserve, process, broker
  <1>1. o \in Orders /\ todo' \in [Calls -> Seq(Orders)]
    BY DEF Reserve, TypeOK
  <1> HIDE DEF o
  <1>2. CASE o \in seen
    <2>1. UNCHANGED <<seen, pc, cur>>
      BY <1>2 DEF Reserve, o
    <2>2. TypeOK'
      BY <1>0, <1>1, <2>1 DEF TypeOK
    <2> QED
      BY <1>0, <2>1, <2>2 DEF HeldIsSeen, OneHolder, SliceCounts, FreshIsUnsent,
         OncePerProcess, Held
  <1>3. CASE o \notin seen
    <2>1. /\ seen' = seen \cup {o}
          /\ cur' = [cur EXCEPT ![t] = o]
          /\ pc' = [pc EXCEPT ![t] = "lookup"]
      BY <1>3 DEF Reserve, Reserved, o
    <2>2. TypeOK'
      BY <1>0, <1>1, <2>1 DEF TypeOK
    <2>3. pc'[t] = "lookup" /\ cur'[t] = o /\ pc[t] = "loop"
      BY <2>1 DEF TypeOK, Reserve
    <2>4. ASSUME NEW u \in Calls, u # t
          PROVE pc'[u] = pc[u] /\ cur'[u] = cur[u]
      BY <2>1, <2>4 DEF TypeOK
    <2>5. ASSUME NEW u \in Calls, NEW p \in Orders, Held(u, p)'
          PROVE (Held(u, p) /\ p # o) \/ (u = t /\ p = o)
      <3>1. CASE u = t
        BY <3>1, <1>0, <1>3, <2>3, <2>5 DEF Held, HeldIsSeen
      <3>2. CASE u # t
        BY <3>2, <1>0, <1>3, <2>4, <2>5 DEF Held, HeldIsSeen
      <3> QED BY <3>1, <3>2
    <2>6. HeldIsSeen'
      BY <1>1, <2>1, <2>3, <2>4, <2>5 DEF HeldIsSeen
    <2>7. OneHolder'
      BY <2>5 DEF OneHolder
    <2>8. SliceCounts'
      BY <1>0, <2>3, <2>4 DEF SliceCounts
    <2>9. FreshIsUnsent'
      BY <1>0, <1>1, <1>3, <2>1, <2>3, <2>4, <2>5 DEF FreshIsUnsent
    <2>10. OncePerProcess'
      BY <1>0 DEF OncePerProcess
    <2> QED BY <2>2, <2>6, <2>7, <2>8, <2>9, <2>10
  <1> QED BY <1>2, <1>3

LEMMA LookupStep ==
    ASSUME IInv, NEW t \in Calls, Lookup(t)
    PROVE  IInv'
  <1> USE DEF IInv
  <1>0. /\ UNCHANGED <<proc, soak, crashes, seen, todo, left, onBooks, placed,
                       placedNow, limited>>
        /\ pc' = [pc EXCEPT ![t] = "loop"]
        /\ cur' = [cur EXCEPT ![t] = NoOrder]
        /\ pc[t] = "lookup" /\ cur[t] \in Orders
    BY DEF Lookup, process, broker, HeldIsSeen
  <1>1. /\ toSubmit' \in [Calls -> SUBSET Orders]
        /\ settled' \subseteq Orders
        /\ toSubmit'[t] \subseteq toSubmit[t] \cup {cur[t]}
        /\ \A u \in Calls \ {t} : toSubmit'[u] = toSubmit[u]
    <2>1. CASE UNCHANGED toSubmit /\ settled' = settled \cup {cur[t]}
      BY <2>1, <1>0 DEF TypeOK
    <2>2. CASE /\ toSubmit' = [toSubmit EXCEPT ![t] = @ \cup {cur[t]}]
               /\ UNCHANGED settled
      BY <2>2, <1>0 DEF TypeOK
    <2> QED BY <2>1, <2>2 DEF Lookup
  <1>2. TypeOK'
    BY <1>0, <1>1 DEF TypeOK
  <1>3. pc'[t] = "loop"
    BY <1>0 DEF TypeOK
  <1>4. ASSUME NEW u \in Calls, u # t
        PROVE pc'[u] = pc[u] /\ cur'[u] = cur[u] /\ toSubmit'[u] = toSubmit[u]
    BY <1>0, <1>1, <1>4 DEF TypeOK
  <1>5. ASSUME NEW u \in Calls, NEW p \in Orders, Held(u, p)'
        PROVE Held(u, p)
    <2>1. CASE u = t
      BY <2>1, <1>0, <1>1, <1>3, <1>5 DEF Held
    <2>2. CASE u # t
      BY <2>2, <1>4, <1>5 DEF Held
    <2> QED BY <2>1, <2>2
  <1>6. HeldIsSeen'
    BY <1>0, <1>3, <1>4, <1>5 DEF HeldIsSeen
  <1>7. OneHolder'
    BY <1>5 DEF OneHolder
  <1>8. SliceCounts'
    BY <1>0, <1>3, <1>4 DEF SliceCounts
  <1>9. FreshIsUnsent'
    BY <1>0, <1>3, <1>4, <1>5 DEF FreshIsUnsent
  <1>10. OncePerProcess'
    BY <1>0 DEF OncePerProcess
  <1> QED BY <1>2, <1>6, <1>7, <1>8, <1>9, <1>10

LEMMA DelegateStep ==
    ASSUME IInv, NEW t \in Calls, Delegate(t)
    PROVE  IInv'
  <1> USE DEF IInv
  <1>0. /\ UNCHANGED <<proc, soak, crashes, seen, todo, cur, toSubmit, left,
                       settled, onBooks, placed, placedNow, limited>>
        /\ pc' = [pc EXCEPT ![t] = IF toSubmit[t] = {} THEN "idle" ELSE "send"]
        /\ pc[t] = "loop"
    BY DEF Delegate, process, broker
  <1>1. TypeOK'
    BY <1>0 DEF TypeOK
  <1>2. pc'[t] \in {"idle", "send"} /\ \A u \in Calls \ {t} : pc'[u] = pc[u]
    BY <1>0 DEF TypeOK
  <1>3. ASSUME NEW u \in Calls, NEW p \in Orders, Held(u, p)'
        PROVE Held(u, p)
    BY <1>0, <1>2, <1>3 DEF Held
  <1> QED
    BY <1>0, <1>1, <1>2, <1>3 DEF HeldIsSeen, OneHolder, SliceCounts, FreshIsUnsent,
       OncePerProcess

LEMMA SoakStep ==
    ASSUME IInv, NEW t \in Calls, SoakBlocked(t)
    PROVE  IInv'
  <1> USE DEF IInv
  <1>0. /\ UNCHANGED <<proc, soak, crashes, seen, todo, cur, left, onBooks,
                       placed, placedNow, limited>>
        /\ pc' = [pc EXCEPT ![t] = "idle"]
        /\ toSubmit' = [toSubmit EXCEPT ![t] = {}]
        /\ settled' = settled \cup toSubmit[t]
        /\ pc[t] = "send"
    BY DEF SoakBlocked, process, broker
  <1>1. TypeOK'
    BY <1>0 DEF TypeOK
  <1>2. /\ pc'[t] = "idle" /\ toSubmit'[t] = {}
        /\ \A u \in Calls \ {t} : pc'[u] = pc[u] /\ toSubmit'[u] = toSubmit[u]
    BY <1>0 DEF TypeOK
  <1>3. ASSUME NEW u \in Calls, NEW p \in Orders, Held(u, p)'
        PROVE Held(u, p)
    BY <1>0, <1>2, <1>3 DEF Held
  <1> QED
    BY <1>0, <1>1, <1>2, <1>3 DEF HeldIsSeen, OneHolder, SliceCounts, FreshIsUnsent,
       OncePerProcess

LEMMA SingleStep ==
    ASSUME IInv, NEW t \in Calls, SendSingle(t)
    PROVE  IInv'
  <1>1. PICK o \in toSubmit[t], ctx \in Contexts :
             \/ Accept(o, Tactic(o, ctx), Qty[o]) /\ Done(t, o, TRUE)
             \/ Failed(o, Tactic(o, ctx), Qty[o]) /\ Done(t, o, FALSE)
    BY DEF SendSingle
  <1>2. pc[t] = "send" /\ UNCHANGED <<process, seen, todo, left>>
    BY DEF SendSingle
  <1>3. o \in Orders /\ Qty[o] \in Nat /\ placedNow[o] = 0
    BY <1>2, OrderPathAssumption DEF IInv, TypeOK, FreshIsUnsent, Held
  <1>4. left' \in [Calls -> Nat] /\ \A u \in Calls \ {t} : left'[u] = left[u]
    BY <1>2 DEF IInv, TypeOK
  <1>5. CASE Accept(o, Tactic(o, ctx), Qty[o]) /\ Done(t, o, TRUE)
    <2>1. /\ placed' \in [Orders -> Nat] /\ placedNow' \in [Orders -> Nat]
          /\ placedNow'[o] = placedNow[o] + Qty[o]
          /\ \A p \in Orders \ {o} : placedNow'[p] = placedNow[p]
          /\ onBooks' \subseteq Orders /\ limited' \subseteq Orders
      BY <1>3, <1>5, Accepted DEF IInv
    <2>2. placedNow'[o] <= Qty[o]
      BY <2>1, <1>3
    <2> QED BY <2>1, <2>2, <1>2, <1>4, <1>5, DoneStep
  <1>6. CASE Failed(o, Tactic(o, ctx), Qty[o]) /\ Done(t, o, FALSE)
    <2>1. /\ placed' \in [Orders -> Nat] /\ placedNow' \in [Orders -> Nat]
          /\ placedNow'[o] \in {placedNow[o], placedNow[o] + Qty[o]}
          /\ \A p \in Orders \ {o} : placedNow'[p] = placedNow[p]
          /\ onBooks' \subseteq Orders /\ limited' \subseteq Orders
      BY <1>3, <1>6, FailedSend DEF IInv
    <2>2. placedNow'[o] <= Qty[o]
      BY <2>1, <1>3
    <2> QED BY <2>1, <2>2, <1>2, <1>4, <1>6, DoneStep
  <1> QED BY <1>1, <1>5, <1>6

LEMMA StartTwapStep ==
    ASSUME IInv, NEW t \in Calls, StartTwap(t)
    PROVE  IInv'
  <1> USE DEF IInv
  <1>0. PICK o \in toSubmit[t] :
            /\ cur' = [cur EXCEPT ![t] = o]
            /\ left' = [left EXCEPT ![t] = Qty[o]]
    BY DEF StartTwap
  <1>1. /\ UNCHANGED <<proc, soak, crashes, seen, todo, toSubmit, settled, onBooks,
                       placed, placedNow, limited>>
        /\ pc' = [pc EXCEPT ![t] = "slice"]
        /\ pc[t] = "send"
    BY DEF StartTwap, process, broker
  <1>2. o \in Orders /\ Qty[o] \in Nat \ {0} /\ placedNow[o] = 0
    BY <1>1, OrderPathAssumption DEF TypeOK, FreshIsUnsent, Held
  <1>3. TypeOK'
    BY <1>0, <1>1, <1>2 DEF TypeOK
  <1>4. pc'[t] = "slice" /\ cur'[t] = o /\ left'[t] = Qty[o]
    BY <1>0, <1>1 DEF TypeOK
  <1>5. ASSUME NEW u \in Calls, u # t
        PROVE pc'[u] = pc[u] /\ cur'[u] = cur[u] /\ left'[u] = left[u]
    BY <1>0, <1>1, <1>5 DEF TypeOK
  <1>6. ASSUME NEW u \in Calls, NEW p \in Orders, Held(u, p)'
        PROVE Held(u, p)
    BY <1>1, <1>4, <1>5, <1>6 DEF Held
  <1>7. HeldIsSeen'
    BY <1>1, <1>4, <1>5, <1>6 DEF HeldIsSeen
  <1>8. OneHolder'
    BY <1>6 DEF OneHolder
  <1>9. SliceCounts'
    <2> SUFFICES ASSUME NEW u \in Calls, pc'[u] = "slice"
                 PROVE  /\ cur'[u] \in toSubmit'[u]
                        /\ placedNow'[cur'[u]] + left'[u] = Qty[cur'[u]]
                        /\ left'[u] > 0
      BY DEF SliceCounts
    <2>1. CASE u = t
      BY <2>1, <1>1, <1>2, <1>4
    <2>2. CASE u # t
      BY <2>2, <1>1, <1>5 DEF SliceCounts
    <2> QED BY <2>1, <2>2
  <1>10. FreshIsUnsent'
    BY <1>1, <1>2, <1>5, <1>6 DEF FreshIsUnsent
  <1>11. OncePerProcess'
    BY <1>1 DEF OncePerProcess
  <1> QED BY <1>3, <1>7, <1>8, <1>9, <1>10, <1>11

LEMMA SliceStep ==
    ASSUME IInv, NEW t \in Calls, SendSlice(t)
    PROVE  IInv'
  <1> DEFINE o == cur[t]
  <1>1. /\ pc[t] = "slice" /\ UNCHANGED <<process, seen, todo>>
        /\ o \in toSubmit[t] /\ o \in Orders
        /\ placedNow[o] + left[t] = Qty[o] /\ left[t] > 0
    BY DEF SendSlice, IInv, SliceCounts, TypeOK
  <1>2. /\ Child(t) \in Nat /\ Child(t) > 0 /\ Child(t) <= left[t]
        /\ left[t] \in Nat /\ placedNow[o] \in Nat /\ Qty[o] \in Nat
    <2>1. Child(t) \in 1..left[t] /\ left[t] \in Nat /\ placedNow[o] \in Nat
      BY <1>1, ChildRange DEF IInv, TypeOK
    <2> QED BY <2>1, <1>1, OrderPathAssumption
  <1> HIDE DEF o
  <1>3. CASE /\ Accept(o, "twap", Child(t))
             /\ left' = [left EXCEPT ![t] = @ - Child(t)]
             /\ IF left'[t] <= 0 THEN Done(t, o, TRUE)
                ELSE UNCHANGED <<toSubmit, cur, settled, pc>>
    <2>1. /\ placed' \in [Orders -> Nat] /\ placedNow' \in [Orders -> Nat]
          /\ placedNow'[o] = placedNow[o] + Child(t)
          /\ \A p \in Orders \ {o} : placedNow'[p] = placedNow[p]
          /\ onBooks' \subseteq Orders /\ limited' \subseteq Orders
      BY <1>1, <1>2, <1>3, Accepted DEF IInv
    <2>2. placedNow'[o] <= Qty[o]
      BY <2>1, <1>1, <1>2
    <2>3. /\ left' \in [Calls -> Nat] /\ \A u \in Calls \ {t} : left'[u] = left[u]
          /\ left'[t] = left[t] - Child(t)
      BY <1>2, <1>3 DEF IInv, TypeOK
    <2>4. CASE left'[t] <= 0
      <3>1. Done(t, o, TRUE)
        BY <1>3, <2>4
      <3> QED BY <3>1, <2>1, <2>2, <2>3, <1>1, DoneStep DEF o
    <2>5. CASE ~(left'[t] <= 0)
      <3> USE DEF IInv
      <3>1. UNCHANGED <<toSubmit, cur, settled, pc, proc, soak, crashes, seen, todo>>
        BY <1>1, <1>3, <2>5 DEF process
      <3>2. TypeOK'
        BY <2>1, <2>3, <3>1 DEF TypeOK
      <3>3. HeldIsSeen' /\ OneHolder'
        BY <3>1 DEF HeldIsSeen, OneHolder, Held
      <3>4. SliceCounts'
        <4> SUFFICES ASSUME NEW u \in Calls, pc[u] = "slice"
                     PROVE  /\ cur[u] \in toSubmit[u]
                            /\ placedNow'[cur[u]] + left'[u] = Qty[cur[u]]
                            /\ left'[u] > 0
          BY <3>1 DEF SliceCounts
        <4>1. CASE u = t
          BY <4>1, <1>1, <1>2, <2>1, <2>3, <2>5 DEF o
        <4>2. CASE u # t
          <5>1. cur[u] \in toSubmit[u] /\ cur[u] \in Orders
            BY DEF SliceCounts, TypeOK
          <5>2. cur[u] # o
            BY <4>2, <5>1, <1>1 DEF OneHolder, Held
          <5> QED BY <4>2, <5>1, <5>2, <2>1, <2>3 DEF SliceCounts
        <4> QED BY <4>1, <4>2
      <3>5. FreshIsUnsent'
        <4>1. ASSUME NEW p \in Orders, p \notin seen PROVE placedNow'[p] = 0
          <5>1. p # o
            BY <4>1, <1>1 DEF HeldIsSeen, Held
          <5> QED BY <5>1, <4>1, <2>1 DEF FreshIsUnsent
        <4>2. ASSUME NEW u \in Calls, NEW p \in Orders, Held(u, p),
                     ~(pc[u] = "slice" /\ cur[u] = p)
              PROVE placedNow'[p] = 0
          <5>1. p # o
            BY <4>2, <1>1 DEF OneHolder, Held, o
          <5> QED BY <5>1, <4>2, <2>1 DEF FreshIsUnsent
        <4> QED BY <4>1, <4>2, <3>1 DEF FreshIsUnsent, Held
      <3>6. OncePerProcess'
        BY <2>1, <2>2 DEF OncePerProcess
      <3> QED BY <3>2, <3>3, <3>4, <3>5, <3>6
    <2> QED BY <2>4, <2>5
  <1>4. CASE /\ Failed(o, "twap", Child(t))
             /\ left' = [left EXCEPT ![t] = 0]
             /\ Done(t, o, FALSE)
    <2>1. /\ placed' \in [Orders -> Nat] /\ placedNow' \in [Orders -> Nat]
          /\ placedNow'[o] \in {placedNow[o], placedNow[o] + Child(t)}
          /\ \A p \in Orders \ {o} : placedNow'[p] = placedNow[p]
          /\ onBooks' \subseteq Orders /\ limited' \subseteq Orders
      BY <1>1, <1>2, <1>4, FailedSend DEF IInv
    <2>2. placedNow'[o] <= Qty[o]
      BY <2>1, <1>1, <1>2
    <2>3. left' \in [Calls -> Nat] /\ \A u \in Calls \ {t} : left'[u] = left[u]
      BY <1>4 DEF IInv, TypeOK
    <2> QED BY <2>1, <2>2, <2>3, <1>1, <1>4, DoneStep DEF o
  <1> QED BY <1>3, <1>4 DEF SendSlice, o

-----------------------------------------------------------------------------
LEMMA Start == Init => IInv
  <1> SUFFICES ASSUME Init PROVE IInv
    OBVIOUS
  <1> USE OrderPathAssumption DEF Init
  <1>1. TypeOK
    BY DEF TypeOK
  <1>2. HeldIsSeen /\ OneHolder /\ SliceCounts
    BY DEF HeldIsSeen, OneHolder, SliceCounts, Held
  <1>3. FreshIsUnsent
    BY DEF FreshIsUnsent
  <1>4. OncePerProcess
    <2> SUFFICES ASSUME NEW o \in Orders PROVE placedNow[o] <= Qty[o]
      BY DEF OncePerProcess
    <2>1. placedNow[o] = 0
      OBVIOUS
    <2>2. 0 <= Qty[o]
      <3>1. Qty[o] \in Nat
        OBVIOUS
      <3> QED BY <3>1
    <2> QED BY <2>1, <2>2
  <1> QED BY <1>1, <1>2, <1>3, <1>4 DEF IInv

LEMMA CrashStep == ASSUME IInv, Crash PROVE IInv'
  <1> USE OrderPathAssumption DEF IInv, Crash
  <1>1. TypeOK'
    BY DEF TypeOK
  <1>2. HeldIsSeen' /\ OneHolder' /\ SliceCounts'
    BY DEF HeldIsSeen, OneHolder, SliceCounts, Held
  <1>3. FreshIsUnsent'
    BY DEF FreshIsUnsent
  <1>4. OncePerProcess'
    BY DEF OncePerProcess
  <1> QED BY <1>1, <1>2, <1>3, <1>4

LEMMA BootStep == ASSUME IInv, Boot PROVE IInv'
  <1> USE DEF IInv
  <1>0. /\ UNCHANGED <<seen, pc, todo, cur, toSubmit, left, settled, crashes,
                       onBooks, placed, placedNow, limited>>
        /\ proc' = "up" /\ soak' \in BOOLEAN
    BY DEF Boot, broker
  <1>1. TypeOK'
    BY <1>0 DEF TypeOK
  <1> QED
    BY <1>0, <1>1 DEF HeldIsSeen, OneHolder, SliceCounts, FreshIsUnsent,
       OncePerProcess, Held

\* Every step keeps the invariant, one lemma per action above.
LEMMA Inductive == IInv /\ [Next]_vars => IInv'
  <1> SUFFICES ASSUME IInv, [Next]_vars PROVE IInv'
    OBVIOUS
  <1>1. ASSUME NEW t \in Calls, NEW b \in Batches, Submit(t, b) PROVE IInv'
    BY <1>1, SubmitStep
  <1>2. ASSUME NEW t \in Calls, Step(t) PROVE IInv'
    BY <1>2, ReserveStep, LookupStep, DelegateStep, SoakStep, SingleStep,
       StartTwapStep, SliceStep DEF Step
  <1>3. CASE Crash
    BY <1>3, CrashStep
  <1>4. CASE Boot
    BY <1>4, BootStep
  <1>5. CASE UNCHANGED vars
    BY <1>5 DEF vars, IInv, TypeOK, HeldIsSeen, OneHolder, SliceCounts,
       FreshIsUnsent, OncePerProcess, Held
  <1> QED BY <1>1, <1>2, <1>3, <1>4, <1>5 DEF Next

LEMMA Invariance == Spec => []IInv
  BY Start, Inductive, PTL DEF Spec

\* Reservations, queues and counts stay in their ranges.
THEOREM TypeCorrect == Spec => []TypeOK
  <1>1. IInv => TypeOK
    BY DEF IInv
  <1> QED BY <1>1, Invariance, PTL

\* IdempotentExecutionAdapter.submit_orders: one process never gives the
\* broker more than an order's quantity, for any interleaving of calls.
THEOREM SentOncePerProcess == Spec => []OncePerProcess
  <1>1. IInv => OncePerProcess
    BY DEF IInv
  <1> QED BY <1>1, Invariance, PTL

-----------------------------------------------------------------------------
\* An order that only went out with its id and is not on the books was never
\* accepted.
Unlisted == \A o \in Orders \ limited : o \notin onBooks => placed[o] = 0

MInv == TypeOK /\ Unlisted /\ MarketOnce

\* A whole order the broker accepts keeps market orders placed once.
LEMMA AcceptKeeps ==
    ASSUME MInv, NEW o \in Orders, NEW tactic, Accept(o, tactic, Qty[o])
    PROVE  (Unlisted /\ MarketOnce)'
  <1>1. /\ Qty[o] \in Nat
        /\ placed'[o] = placed[o] + Qty[o]
        /\ \A p \in Orders \ {o} : placed'[p] = placed[p]
        /\ onBooks \subseteq onBooks' /\ limited \subseteq limited'
    BY Accepted, OrderPathAssumption DEF MInv
  <1>2. o \notin limited' => o \notin onBooks /\ o \in onBooks'
    BY DEF Accept, CarriesId
  <1>3. o \notin limited' => placed'[o] = Qty[o]
    BY <1>1, <1>2 DEF MInv, Unlisted
  <1>4. Unlisted'
    BY <1>1, <1>2 DEF MInv, Unlisted
  <1>5. MarketOnce'
    BY <1>1, <1>3 DEF MInv, MarketOnce
  <1> QED BY <1>4, <1>5

\* So does a slice, which makes its order a limited one.
LEMMA SliceKeeps ==
    ASSUME MInv, NEW o \in Orders, NEW n \in Nat, Accept(o, "twap", n)
    PROVE  (Unlisted /\ MarketOnce)'
  <1>1. /\ \A p \in Orders \ {o} : placed'[p] = placed[p]
        /\ onBooks \subseteq onBooks' /\ limited \subseteq limited'
    BY Accepted DEF MInv
  <1>2. o \in limited'
    BY DEF Accept
  <1> QED BY <1>1, <1>2 DEF MInv, Unlisted, MarketOnce

\* AlpacaBroker._submit_market_sync: across restarts and failed lookups, an
\* order that only went out as a market order is placed at most once.
THEOREM MarketIsOnce == Spec => []MarketOnce
  <1>1. Init => MInv
    <2>1. Init => TypeOK
      BY Start DEF IInv
    <2>2. Init => Unlisted
      BY DEF Init, Unlisted
    <2>3. Init => MarketOnce
      <3> SUFFICES ASSUME Init, NEW o \in Orders PROVE placed[o] <= Qty[o]
        BY DEF MarketOnce
      <3>1. placed[o] = 0
        BY DEF Init
      <3>2. Qty[o] \in Nat
        BY OrderPathAssumption
      <3>3. 0 <= Qty[o]
        BY <3>2
      <3> QED BY <3>1, <3>3
    <2> QED BY <2>1, <2>2, <2>3 DEF MInv
  <1>2. IInv /\ MInv /\ [Next]_vars => (Unlisted /\ MarketOnce)'
    <2> SUFFICES ASSUME IInv, MInv, [Next]_vars PROVE (Unlisted /\ MarketOnce)'
      OBVIOUS
    <2>0. ASSUME UNCHANGED <<onBooks, placed, limited>>
          PROVE  (Unlisted /\ MarketOnce)'
      BY <2>0 DEF MInv, Unlisted, MarketOnce
    <2>1. ASSUME NEW t \in Calls, NEW b \in Batches, Submit(t, b)
          PROVE  (Unlisted /\ MarketOnce)'
      BY <2>1, <2>0 DEF Submit, broker
    <2>2. ASSUME NEW t \in Calls, SendSingle(t)
          PROVE  (Unlisted /\ MarketOnce)'
      <3>1. PICK o \in toSubmit[t], ctx \in Contexts :
                 Accept(o, Tactic(o, ctx), Qty[o]) \/ UNCHANGED broker
        BY <2>2 DEF SendSingle, Failed
      <3>2. o \in Orders
        BY DEF IInv, TypeOK
      <3> QED BY <3>1, <3>2, <2>0, AcceptKeeps DEF broker
    <2>3. ASSUME NEW t \in Calls, SendSlice(t)
          PROVE  (Unlisted /\ MarketOnce)'
      <3>1. Accept(cur[t], "twap", Child(t)) \/ UNCHANGED broker
        BY <2>3 DEF SendSlice, Failed
      <3>2. cur[t] \in Orders /\ left[t] > 0
        BY <2>3 DEF SendSlice, IInv, SliceCounts, TypeOK
      <3>3. Child(t) \in Nat
        BY <3>2, ChildRange DEF IInv, TypeOK
      <3> QED BY <3>1, <3>2, <3>3, <2>0, SliceKeeps DEF broker
    <2>4. ASSUME NEW t \in Calls,
                 Reserve(t) \/ Lookup(t) \/ Delegate(t) \/ SoakBlocked(t)
                 \/ StartTwap(t)
          PROVE  (Unlisted /\ MarketOnce)'
      BY <2>4, <2>0 DEF Reserve, Lookup, Delegate, SoakBlocked, StartTwap, broker
    <2>5. CASE Crash \/ Boot
      BY <2>5, <2>0 DEF Crash, Boot, broker
    <2>6. CASE UNCHANGED vars
      BY <2>6, <2>0 DEF vars
    <2> QED BY <2>1, <2>2, <2>3, <2>4, <2>5, <2>6 DEF Next, Step
  <1>3. IInv' => TypeOK'
    BY DEF IInv
  <1>4. IInv /\ MInv /\ [Next]_vars => MInv'
    BY <1>2, <1>3, Inductive DEF MInv
  <1>5. MInv => MarketOnce
    BY DEF MInv
  <1> QED BY <1>1, <1>4, <1>5, Invariance, PTL DEF Spec
=============================================================================
