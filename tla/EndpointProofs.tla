---------------------------- MODULE EndpointProofs ----------------------------
(***************************************************************************)
(* Proofs about the endpoints of topics.                                   *)
(*                                                                         *)
(* SubscriptionTake: for any number of threads, addresses and samples and  *)
(* any limit, no loan is lost but by a failure of Fast DDS, and no message *)
(* in the application's hands is loaned to anybody else.                   *)
(*                                                                         *)
(* EndpointSupport: for any endpoints, participants and threads, any       *)
(* profiles, and any type whose keys are walked as TypeSupport walks them, *)
(* instance handles tell keys apart, and QoS is kept.                      *)
(***************************************************************************)
EXTENDS SubscriptionTake, EndpointSupport, FiniteSetTheorems, TLAPS

------------------------------------------------------------------------------
(***************************************************************************)
(* SubscriptionTake.                                                       *)
(***************************************************************************)

\* The item in the hand of a call is one of the loans that Fast DDS counts.
LEMMA HandIsLoan ==
  ASSUME TypeOK, LoanInv
  PROVE  /\ \A t \in Busy : hand[t] \in outstanding \ (items \cup leaked) /\ hand[t] \in Loans
         /\ items \subseteq outstanding
BY DEF TypeOK, LoanInv, InHand

\* The reader's oldest sample, and the ones behind it.
LEMMA OldestSample ==
  ASSUME history \in Seq(Samples), history # <<>>
  PROVE  /\ Head(history) \in Samples /\ Tail(history) \in Seq(Samples)
         /\ Head(history).id \in 1..MaxSamples /\ Head(history).valid \in BOOLEAN
<1>1. Head(history) \in Samples /\ Tail(history) \in Seq(Samples)
  OBVIOUS
<1> QED BY <1>1 DEF Samples

\* Every step keeps the types.
LEMMA TypeStep == TypeOK /\ LoanInv /\ [Next]_vars => TypeOK'
<1> SUFFICES ASSUME TypeOK, LoanInv, [Next]_vars PROVE TypeOK'
  OBVIOUS
<1>inHand. \A t \in Busy : hand[t] \in Loans
  BY HandIsLoan DEF Busy
<1>0. history # <<>> => /\ Head(history) \in Samples
                        /\ Head(history).id \in 1..MaxSamples
                        /\ Head(history).valid \in BOOLEAN
                        /\ Tail(history) \in Seq(Samples)
  BY OldestSample DEF TypeOK
<1> USE TakeAssumption DEF TypeOK, subVars, loanVars, callVars, fateVars
<1>1. ASSUME NEW valid \in BOOLEAN, NEW local \in BOOLEAN, Arrive(valid, local) PROVE TypeOK'
  <2>1. [id |-> arrived + 1, valid |-> valid, local |-> local] \in Samples
    BY <1>1 DEF Arrive, Samples
  <2>2. history' \in Seq(Samples) /\ arrived' \in 0..MaxSamples
    BY <1>1, <2>1 DEF Arrive
  <2> QED BY <1>1, <2>2 DEF Arrive
<1>2. ASSUME NEW t \in Threads, NEW k \in Kinds, NEW count \in 1..MaxCount, StartTake(t, k, count)
      PROVE TypeOK'
  BY <1>2 DEF StartTake
<1>3. ASSUME NEW t \in Threads, PassOver(t) PROVE TypeOK'
  BY <1>0, <1>3 DEF PassOver
<1>4. ASSUME NEW t \in Threads, Deliver(t) PROVE TypeOK'
  <2>1. history' \in Seq(Samples) /\ delivered' \in [1..MaxSamples -> Nat]
    BY <1>0, <1>4 DEF Deliver
  <2>2. /\ got' \in [Threads -> Nat] /\ remaining' \in [Threads -> Int]
        /\ pc' \in [Threads -> {"idle", "take", "add", "skip", "return"}]
    BY <1>4 DEF Deliver, EndIteration
  <2> QED BY <1>4, <2>1, <2>2 DEF Deliver, EndIteration
<1>5. ASSUME NEW t \in Threads, FailToResize(t) PROVE TypeOK'
  BY <1>0, <1>5 DEF FailToResize
<1>6. ASSUME NEW t \in Threads, TakeNothing(t) PROVE TypeOK'
  BY <1>6 DEF TakeNothing, EndIteration
<1>7. ASSUME NEW t \in Threads, TakeLoan(t) PROVE TypeOK'
  <2>1. PICK b \in Buffers :
          LET loan == [buffer |-> b, sample |-> Head(history)]
          IN  /\ outstanding' = outstanding \cup {loan}
              /\ hand' = [hand EXCEPT ![t] = loan]
              /\ pc' = [pc EXCEPT ![t] = IF Head(history).valid THEN "add" ELSE "skip"]
    BY <1>7 DEF TakeLoan
  <2>2. [buffer |-> b, sample |-> Head(history)] \in Loans
    BY <1>0, <1>7 DEF TakeLoan, Loans
  <2>3. /\ outstanding' \subseteq Loans /\ hand' \in [Threads -> Loans \cup {NoLoan}]
        /\ pc' \in [Threads -> {"idle", "take", "add", "skip", "return"}]
    BY <2>1, <2>2
  <2> QED BY <1>0, <1>7, <2>3 DEF TakeLoan
<1>8. ASSUME NEW t \in Threads, TakeNoLoan(t) PROVE TypeOK'
  BY <1>8 DEF TakeNoLoan
<1>9. ASSUME NEW t \in Threads, AddItem(t) PROVE TypeOK'
  <2>0. hand[t] \in Loans
    BY <1>9, <1>inHand DEF AddItem, Busy
  <2>1. hand[t].sample.id \in 1..MaxSamples
    BY <2>0 DEF Loans, Samples
  <2>2. delivered' \in [1..MaxSamples -> Nat]
    BY <1>9, <2>1 DEF AddItem
  <2>3. items' \subseteq Loans /\ leaked' \subseteq Loans /\ held' \subseteq Loans
    BY <1>9, <2>0 DEF AddItem
  <2> QED BY <1>9, <2>2, <2>3 DEF AddItem
<1>10. ASSUME NEW t \in Threads, SkipLoan(t) PROVE TypeOK'
  <2>0. hand[t] \in Loans
    BY <1>10, <1>inHand DEF SkipLoan, Busy
  <2>1. passed' \subseteq 1..MaxSamples
    BY <1>10, <2>0 DEF SkipLoan, Loans, Samples
  <2>2. outstanding' \subseteq Loans /\ leaked' \subseteq Loans /\ failed' \in 0..MaxFailures
    BY <1>10, <2>0 DEF SkipLoan
  <2>3. pc' \in [Threads -> {"idle", "take", "add", "skip", "return"}]
    BY <1>10 DEF SkipLoan
  <2> QED BY <1>10, <2>1, <2>2, <2>3 DEF SkipLoan
<1>11. ASSUME NEW t \in Threads, NEW loan \in held, EraseItem(t, loan) PROVE TypeOK'
  BY <1>11 DEF EraseItem
<1>12. ASSUME NEW t \in Threads, ReturnLoan(t) PROVE TypeOK'
  <2>0. hand[t] \in Loans
    BY <1>12, <1>inHand DEF ReturnLoan, Busy
  <2> QED BY <1>12, <2>0 DEF ReturnLoan
<1>13. ASSUME NEW successor \in {"open", "deleted"}, DeleteReader(successor) PROVE TypeOK'
  <2>1. InHistory \subseteq 1..MaxSamples
    <3>1. \A i \in DOMAIN history : history[i] \in Samples
      OBVIOUS
    <3> QED BY <3>1 DEF InHistory, Samples
  <2>2. CASE /\ reader' = successor /\ inGraph' = (successor = "open")
             /\ history' = <<>> /\ lost' = lost \cup InHistory
    BY <1>13, <2>1, <2>2 DEF DeleteReader
  <2>3. CASE inGraph' = FALSE /\ UNCHANGED <<reader, history, lost>>
    BY <1>13, <2>3 DEF DeleteReader
  <2> QED BY <1>13, <2>2, <2>3 DEF DeleteReader
<1>14. CASE UNCHANGED vars
  BY <1>14 DEF vars
<1> QED
  BY <1>1, <1>2, <1>3, <1>4, <1>5, <1>6, <1>7, <1>8, <1>9, <1>10, <1>11, <1>12, <1>13, <1>14
  DEF Next, Destroy, SetContentFilter

\* While a call has a loan in its hand, the LoanManager has less than Fast DDS allows.
LEMMA ListHasRoom ==
  ASSUME TypeOK, LoanInv, NEW t \in Busy
  PROVE  Cardinality(items) \in Nat /\ Cardinality(items) < MaxOutstanding
<1>1. items \subseteq outstanding \ {hand[t]} /\ hand[t] \in outstanding
  BY HandIsLoan
<1>2. /\ IsFiniteSet(outstanding \ {hand[t]})
      /\ Cardinality(outstanding \ {hand[t]}) = Cardinality(outstanding) - 1
  BY <1>1, FS_RemoveElement DEF LoanInv
<1>3. IsFiniteSet(items) /\ Cardinality(items) <= Cardinality(outstanding) - 1
  BY <1>1, <1>2, FS_Subset
<1>4. Cardinality(items) \in Nat /\ Cardinality(outstanding) \in Nat
  BY <1>3, FS_CardinalityType DEF LoanInv
<1> QED BY <1>3, <1>4, TakeAssumption DEF LoanInv

\* Fast DDS takes back the loan in the hand of a call that ends.
LEMMA LoanTakenBack ==
  ASSUME LoanInv, NEW l \in InHand, InHand' = InHand \ {l}, UNCHANGED <<items, held, failed, leaked>>,
         outstanding' = outstanding \ {l},
         \A u, v \in Busy' : hand'[u] = hand'[v] => u = v
  PROVE  LoanInv'
<1>1. IsFiniteSet(outstanding') /\ Cardinality(outstanding') <= MaxOutstanding
  <2>1. IsFiniteSet(outstanding) /\ outstanding' \subseteq outstanding
    BY DEF LoanInv
  <2>2. /\ IsFiniteSet(outstanding') /\ Cardinality(outstanding') \in Nat
        /\ Cardinality(outstanding') <= Cardinality(outstanding) /\ Cardinality(outstanding) \in Nat
    BY <2>1, FS_Subset, FS_CardinalityType
  <2> QED BY <2>2, TakeAssumption DEF LoanInv
<1>2. HeldIsExclusive'
  BY DEF LoanInv, HeldIsExclusive
<1> QED BY <1>1, <1>2 DEF LoanInv

\* Fast DDS does not take it back: it stays counted, and nobody can return it.
LEMMA LoanLeft ==
  ASSUME LoanInv, NEW l \in InHand, InHand' = InHand \ {l}, UNCHANGED <<items, held, outstanding>>,
         leaked' = leaked \cup {l}, failed \in Nat, failed' = failed + 1,
         \A u, v \in Busy' : hand'[u] = hand'[v] => u = v
  PROVE  LoanInv'
<1>1. HeldIsExclusive'
  BY DEF LoanInv, HeldIsExclusive
<1>2. failed' > 0
  OBVIOUS
<1> QED BY <1>1, <1>2 DEF LoanInv

\* A step that touches no loan and no call that has one in its hand keeps the invariant.
LEMMA LoansUntouched ==
  ASSUME LoanInv, UNCHANGED loanVars, Busy' = Busy
  PROVE  LoanInv'
BY DEF LoanInv, HeldIsExclusive, InHand, loanVars

\* Every step keeps the loans accounted for.
LEMMA LoanStep == TypeOK /\ LoanInv /\ [Next]_vars => LoanInv'
<1> SUFFICES ASSUME TypeOK, LoanInv, [Next]_vars PROVE LoanInv'
  OBVIOUS
<1> USE TakeAssumption
<1>pc. pc \in [Threads -> {"idle", "take", "add", "skip", "return"}]
       /\ hand \in [Threads -> Loans \cup {NoLoan}] /\ failed \in Nat
  BY DEF TypeOK
<1>in. /\ \A t \in Busy : hand[t] \in outstanding \ (items \cup leaked)
       /\ items \subseteq outstanding
  BY HandIsLoan
<1>1. ASSUME NEW valid \in BOOLEAN, NEW local \in BOOLEAN, Arrive(valid, local) PROVE LoanInv'
  BY <1>1, LoansUntouched DEF Arrive, callVars, Busy
<1>2. ASSUME NEW t \in Threads, NEW k \in Kinds, NEW count \in 1..MaxCount, StartTake(t, k, count)
      PROVE LoanInv'
  BY <1>2, <1>pc, LoansUntouched DEF StartTake, Busy
<1>3. ASSUME NEW t \in Threads, PassOver(t) PROVE LoanInv'
  BY <1>3, LoansUntouched DEF PassOver, callVars, Busy
<1>4. ASSUME NEW t \in Threads, Deliver(t) PROVE LoanInv'
  BY <1>4, <1>pc, LoansUntouched DEF Deliver, EndIteration, Busy
<1>5. ASSUME NEW t \in Threads, FailToResize(t) PROVE LoanInv'
  BY <1>5, <1>pc, LoansUntouched DEF FailToResize, Busy
<1>6. ASSUME NEW t \in Threads, TakeNothing(t) PROVE LoanInv'
  BY <1>6, <1>pc, LoansUntouched DEF TakeNothing, EndIteration, Busy
<1>7. ASSUME NEW t \in Threads, TakeLoan(t) PROVE LoanInv'
  <2>1. PICK b \in Buffers \ {l.buffer : l \in outstanding} :
          LET loan == [buffer |-> b, sample |-> Head(history)]
          IN  /\ outstanding' = outstanding \cup {loan}
              /\ hand' = [hand EXCEPT ![t] = loan]
              /\ pc' = [pc EXCEPT ![t] = IF Head(history).valid THEN "add" ELSE "skip"]
    BY <1>7 DEF TakeLoan
  <2> DEFINE loan == [buffer |-> b, sample |-> Head(history)]
  <2>2. loan \notin outstanding /\ \A l \in outstanding : l.buffer # loan.buffer
    BY <2>1
  <2>3. t \notin Busy /\ Busy' = Busy \cup {t}
    BY <1>7, <1>pc, <2>1 DEF TakeLoan, Busy
  <2>4. InHand' = InHand \cup {loan} /\ \A u \in Busy : hand'[u] = hand[u]
    BY <1>pc, <2>1, <2>3 DEF InHand, Busy
  <2>5. hand'[t] = loan
    BY <1>pc, <2>1
  <2>6. UNCHANGED <<items, held, failed, leaked>> /\ outstanding' = outstanding \cup {loan}
    BY <1>7, <2>1 DEF TakeLoan
  <2>7. \A u, v \in Busy' : hand'[u] = hand'[v] => u = v
    BY <1>in, <2>2, <2>3, <2>4, <2>5 DEF LoanInv
  <2>8. HeldIsExclusive'
    BY <2>2, <2>6 DEF LoanInv, HeldIsExclusive
  <2>9. IsFiniteSet(outstanding') /\ Cardinality(outstanding') <= MaxOutstanding
    <3>1. Cardinality(outstanding) < MaxOutstanding
      BY <1>7, FS_CardinalityType DEF TakeLoan, AtLimit, LoanInv
    <3>2. Cardinality(outstanding') = Cardinality(outstanding) + 1 /\ IsFiniteSet(outstanding')
      BY <2>2, <2>6, FS_AddElement DEF LoanInv
    <3> QED BY <3>1, <3>2, FS_CardinalityType DEF LoanInv
  <2>10. /\ outstanding' = items' \cup InHand' \cup leaked'
         /\ items' \cap InHand' = {} /\ leaked' \cap (items' \cup InHand') = {}
         /\ leaked' # {} => failed' > 0
    BY <2>2, <2>4, <2>6 DEF LoanInv
  <2> QED BY <2>7, <2>8, <2>9, <2>10 DEF LoanInv
<1>8. ASSUME NEW t \in Threads, TakeNoLoan(t) PROVE LoanInv'
  BY <1>8, <1>pc, LoansUntouched DEF TakeNoLoan, Busy
<1>out. ASSUME NEW t \in Busy, pc' = [pc EXCEPT ![t] = "idle"] \/ pc' = [pc EXCEPT ![t] = "take"],
               hand' = [hand EXCEPT ![t] = NoLoan]
        PROVE  /\ Busy' = Busy \ {t}
               /\ InHand' = InHand \ {hand[t]}
               /\ \A u, v \in Busy' : hand'[u] = hand'[v] => u = v
  <2>1. Busy' = Busy \ {t} /\ \A u \in Busy' : hand'[u] = hand[u]
    BY <1>out, <1>pc DEF Busy
  <2>2. InHand' = InHand \ {hand[t]}
    BY <2>1 DEF InHand, LoanInv
  <2> QED BY <2>1, <2>2 DEF LoanInv
<1>9. ASSUME NEW t \in Threads, AddItem(t) PROVE LoanInv'
  <2>1. t \in Busy
    BY <1>9 DEF AddItem, Busy
  <2>2. Cardinality(items) \in Nat /\ Cardinality(items) < MaxOutstanding
    BY <2>1, ListHasRoom
  <2>3. items' = items \cup {hand[t]} /\ leaked' = leaked /\ UNCHANGED <<outstanding, failed>>
    BY <1>9, <2>2, TakeAssumption DEF AddItem
  <2>4. InHand' = InHand \ {hand[t]} /\ \A u, v \in Busy' : hand'[u] = hand'[v] => u = v
    BY <1>9, <1>out, <2>1 DEF AddItem
  <2>5. hand[t] \in InHand
    BY <2>1 DEF InHand
  <2>6. HeldIsExclusive'
    BY <1>9, <2>3 DEF AddItem, LoanInv, HeldIsExclusive
  <2> QED BY <2>3, <2>4, <2>5, <2>6 DEF LoanInv
<1>10. ASSUME NEW t \in Threads, SkipLoan(t) PROVE LoanInv'
  <2>1. t \in Busy /\ hand[t] \in InHand
    BY <1>10 DEF SkipLoan, Busy, InHand
  <2>2. InHand' = InHand \ {hand[t]} /\ \A u, v \in Busy' : hand'[u] = hand'[v] => u = v
    BY <1>10, <1>out, <2>1 DEF SkipLoan
  <2>3. UNCHANGED <<items, held>>
    BY <1>10 DEF SkipLoan
  <2>4. CASE outstanding' = outstanding \ {hand[t]} /\ UNCHANGED <<failed, leaked>>
    BY <2>1, <2>2, <2>3, <2>4, LoanTakenBack
  <2>5. CASE failed' = failed + 1 /\ leaked' = leaked \cup {hand[t]} /\ UNCHANGED outstanding
    BY <1>pc, <2>1, <2>2, <2>3, <2>5, LoanLeft
  <2> QED BY <1>10, <2>4, <2>5 DEF SkipLoan
<1>11. ASSUME NEW t \in Threads, NEW loan \in held, EraseItem(t, loan) PROVE LoanInv'
  <2>1. PICK item \in items : /\ item.buffer = loan.buffer
                              /\ items' = items \ {item}
                              /\ hand' = [hand EXCEPT ![t] = item]
    BY <1>11 DEF EraseItem
  <2>2. item = loan
    BY <1>in, <2>1 DEF LoanInv, HeldIsExclusive
  <2>3. t \notin Busy /\ Busy' = Busy \cup {t}
    BY <1>11, <1>pc DEF EraseItem, Busy
  <2>4. InHand' = InHand \cup {item} /\ hand'[t] = item /\ \A u \in Busy : hand'[u] = hand[u]
    BY <1>pc, <2>1, <2>3 DEF InHand, Busy
  <2>5. held' = held \ {loan} /\ UNCHANGED <<outstanding, failed, leaked>>
    BY <1>11 DEF EraseItem
  <2>6. \A u, v \in Busy' : hand'[u] = hand'[v] => u = v
    BY <1>in, <2>1, <2>3, <2>4 DEF LoanInv
  <2>7. HeldIsExclusive'
    BY <2>1, <2>2, <2>5 DEF LoanInv, HeldIsExclusive
  <2> QED BY <2>1, <2>4, <2>5, <2>6, <2>7 DEF LoanInv
<1>12. ASSUME NEW t \in Threads, ReturnLoan(t) PROVE LoanInv'
  <2>1. t \in Busy /\ hand[t] \in InHand
    BY <1>12 DEF ReturnLoan, Busy, InHand
  <2>2. InHand' = InHand \ {hand[t]} /\ \A u, v \in Busy' : hand'[u] = hand'[v] => u = v
    BY <1>12, <1>out, <2>1 DEF ReturnLoan
  <2>3. UNCHANGED <<items, held>>
    BY <1>12 DEF ReturnLoan
  <2>4. CASE outstanding' = outstanding \ {hand[t]} /\ UNCHANGED <<failed, leaked>>
    BY <2>1, <2>2, <2>3, <2>4, LoanTakenBack
  <2>5. CASE failed' = failed + 1 /\ leaked' = leaked \cup {hand[t]} /\ UNCHANGED outstanding
    BY <1>pc, <2>1, <2>2, <2>3, <2>5, LoanLeft
  <2> QED BY <1>12, <2>4, <2>5 DEF ReturnLoan
<1>13. ASSUME NEW successor \in {"open", "deleted"}, DeleteReader(successor) PROVE LoanInv'
  BY <1>13, LoansUntouched DEF DeleteReader, callVars, Busy
<1>14. CASE UNCHANGED vars
  BY <1>14, LoansUntouched DEF vars, callVars, Busy
<1> QED
  BY <1>1, <1>2, <1>3, <1>4, <1>5, <1>6, <1>7, <1>8, <1>9, <1>10, <1>11, <1>12, <1>13, <1>14
  DEF Next, Destroy, SetContentFilter

\* The invariant says what the properties promise.
LEMMA LoanInvImplies == TypeOK /\ LoanInv => LoansAccounted /\ HeldIsExclusive
<1> SUFFICES ASSUME TypeOK, LoanInv PROVE LoansAccounted /\ HeldIsExclusive
  OBVIOUS
<1>1. ASSUME NEW t \in Threads, pc[t] = "add" PROVE Cardinality(items) < MaxOutstanding
  <2>1. t \in Busy
    BY <1>1 DEF Busy
  <2> QED BY <2>1, ListHasRoom
<1> QED BY <1>1 DEF LoanInv, LoansAccounted

\* Types and loans together are inductive.
LEMMA Invariant == Spec => [](TypeOK /\ LoanInv)
<1>1. Init => TypeOK
  BY TakeAssumption DEF Init, TypeOK, Samples, Kinds
<1>2. Init => LoanInv
  <2> SUFFICES ASSUME Init PROVE LoanInv
    OBVIOUS
  <2>1. Busy = {} /\ InHand = {}
    BY DEF Init, Busy, InHand
  <2>2. IsFiniteSet({}) /\ Cardinality({}) = 0
    BY FS_EmptySet
  <2> QED BY <2>1, <2>2, TakeAssumption DEF Init, LoanInv, HeldIsExclusive
<1>3. TypeOK /\ LoanInv /\ [Next]_vars => (TypeOK /\ LoanInv)'
  BY TypeStep, LoanStep
<1> QED BY <1>1, <1>2, <1>3, PTL DEF Spec

\* A step that keeps the call of every thread, or ends one that had delivered, satisfies it.
LEMMA EmptyStep ==
  ASSUME TypeOK, [Next]_vars, NEW t \in Threads,
         pc[t] \in {"take", "skip"}, pc'[t] = "idle", got'[t] = 0
  PROVE  \/ history = <<>>
         \/ (kind[t] = "loaned" /\ AtLimit)
         \/ failed' > failed
         \/ Head(history).id \in lost'
<1>pc. /\ pc \in [Threads -> {"idle", "take", "add", "skip", "return"}]
       /\ got \in [Threads -> Nat] /\ failed \in Nat
  BY TakeAssumption DEF TypeOK
<1>other. ASSUME NEW u \in Threads, NEW p, pc' = [pc EXCEPT ![u] = p] PROVE u = t
  BY <1>other, <1>pc
<1>1. ASSUME NEW valid \in BOOLEAN, NEW local \in BOOLEAN, Arrive(valid, local) PROVE FALSE
  BY <1>1 DEF Arrive, callVars
<1>2. ASSUME NEW u \in Threads, NEW k \in Kinds, NEW count \in 1..MaxCount, StartTake(u, k, count)
      PROVE FALSE
  BY <1>2, <1>pc DEF StartTake
<1>3. ASSUME NEW u \in Threads, PassOver(u) PROVE FALSE
  BY <1>3 DEF PassOver, callVars
<1>4. ASSUME NEW u \in Threads, Deliver(u) PROVE FALSE
  <2>1. u = t
    BY <1>4, <1>pc DEF Deliver, EndIteration
  <2>2. got'[t] = got[t] + 1
    BY <1>4, <1>pc, <2>1 DEF Deliver, EndIteration
  <2> QED BY <1>pc, <2>2
<1>5. ASSUME NEW u \in Threads, FailToResize(u) PROVE Head(history).id \in lost'
  BY <1>5 DEF FailToResize
<1>6. ASSUME NEW u \in Threads, TakeNothing(u) PROVE history = <<>>
  BY <1>6 DEF TakeNothing
<1>7. ASSUME NEW u \in Threads, TakeLoan(u) PROVE FALSE
  <2>1. \E p \in {"add", "skip"} : pc' = [pc EXCEPT ![u] = p]
    BY <1>7 DEF TakeLoan
  <2> QED BY <1>pc, <2>1
<1>8. ASSUME NEW u \in Threads, TakeNoLoan(u) PROVE history = <<>> \/ (kind[t] = "loaned" /\ AtLimit)
  <2>1. u = t
    BY <1>8, <1>other DEF TakeNoLoan
  <2>2. kind[u] = "loaned" /\ (history = <<>> \/ AtLimit)
    BY <1>8 DEF TakeNoLoan
  <2> QED BY <2>1, <2>2
<1>9. ASSUME NEW u \in Threads, AddItem(u) PROVE FALSE
  BY <1>9, <1>pc DEF AddItem
<1>10. ASSUME NEW u \in Threads, SkipLoan(u) PROVE failed' > failed
  <2>1. CASE pc' = [pc EXCEPT ![u] = "take"]
    BY <1>pc, <2>1
  <2>2. CASE failed' = failed + 1
    BY <1>pc, <2>2
  <2> QED BY <1>10, <2>1, <2>2 DEF SkipLoan
<1>11. ASSUME NEW u \in Threads, NEW loan \in held, EraseItem(u, loan) PROVE FALSE
  BY <1>11, <1>pc DEF EraseItem
<1>12. ASSUME NEW u \in Threads, ReturnLoan(u) PROVE FALSE
  BY <1>12, <1>pc DEF ReturnLoan
<1>13. ASSUME NEW successor \in {"open", "deleted"}, DeleteReader(successor) PROVE FALSE
  BY <1>13 DEF DeleteReader, callVars
<1>14. CASE UNCHANGED vars
  BY <1>14 DEF vars, callVars
<1> QED
  BY <1>1, <1>2, <1>3, <1>4, <1>5, <1>6, <1>7, <1>8, <1>9, <1>10, <1>11, <1>12, <1>13, <1>14
  DEF Next, Destroy, SetContentFilter

\* The variables of the subscription keep their types.
THEOREM TypeCorrect == Spec => []TypeOK
BY Invariant, PTL

\* For any number of threads and any limit: every loan that Fast DDS counts can still be
\* returned but for those whose return has failed, and the LoanManager always has room.
THEOREM NoLoanForgotten == Spec => []LoansAccounted
BY Invariant, LoanInvImplies, PTL

\* A message in the application's hands is loaned to nobody else, and returning it finds
\* its item.
THEOREM LoansExclusive == Spec => []HeldIsExclusive
BY Invariant, LoanInvImplies, PTL

\* Whatever the threads mix, a take that comes back empty-handed has found the reader empty,
\* at its limit of loans, or has failed.
THEOREM EmptyIsEmpty == Spec => EmptyOnlyIfEmpty
<1>1. TypeOK /\ [Next]_vars =>
        [\A t \in Threads :
           pc[t] \in {"take", "skip"} /\ pc'[t] = "idle" /\ got'[t] = 0 =>
             \/ history = <<>>
             \/ (kind[t] = "loaned" /\ AtLimit)
             \/ failed' > failed
             \/ Head(history).id \in lost']_vars
  BY EmptyStep
<1> QED BY <1>1, Invariant, PTL DEF Spec, EmptyOnlyIfEmpty

------------------------------------------------------------------------------
(***************************************************************************)
(* Every sample has one fate.  The sums of OneFate become a partition: the *)
(* samples that have arrived are divided among the reader, the calls and   *)
(* the three ends, and no sample is twice in the reader or in two calls.   *)
(***************************************************************************)
Holding   == {t \in Threads : pc[t] \in {"add", "skip"}}
InCalls   == {hand[t].sample.id : t \in Holding}
Delivered == {s \in 1..MaxSamples : delivered[s] = 1}

FateInv ==
  /\ \A i, j \in DOMAIN history : history[i].id = history[j].id => i = j
  /\ \A t, u \in Holding : hand[t].sample.id = hand[u].sample.id => t = u
  /\ \A s \in 1..MaxSamples : delivered[s] \in {0, 1}
  /\ InHistory \cap (InCalls \cup Delivered \cup passed \cup lost) = {}
  /\ InCalls \cap (Delivered \cup passed \cup lost) = {}
  /\ Delivered \cap (passed \cup lost) = {} /\ passed \cap lost = {}
  /\ InHistory \cup InCalls \cup Delivered \cup passed \cup lost = 1..arrived


\* The oldest sample leaves the reader, and the others stay.
LEMMA SampleLeaves ==
  ASSUME TypeOK, FateInv, history # <<>>, history' = Tail(history)
  PROVE  /\ Head(history).id \in InHistory /\ Head(history).id \in 1..MaxSamples
         /\ InHistory' = InHistory \ {Head(history).id}
         /\ \A i, j \in DOMAIN history' : history'[i].id = history'[j].id => i = j
<1>0. history \in Seq(Samples) /\ Len(history) \in Nat /\ DOMAIN history = 1..Len(history)
  BY DEF TypeOK
<1>1. Len(history) > 0 /\ Head(history) = history[1] /\ Head(history).id \in 1..MaxSamples
  BY <1>0, OldestSample
<1>2. /\ DOMAIN history' = 1..(Len(history) - 1)
      /\ \A i \in DOMAIN history' : history'[i] = history[i + 1] /\ i + 1 \in DOMAIN history
  BY <1>0, <1>1
<1>3. \A i \in DOMAIN history : i # 1 => i - 1 \in DOMAIN history' /\ history'[i - 1] = history[i]
  BY <1>0, <1>1, <1>2
<1>4. \A i, j \in DOMAIN history' : history'[i].id = history'[j].id => i = j
  <2> SUFFICES ASSUME NEW i \in DOMAIN history', NEW j \in DOMAIN history',
                      history'[i].id = history'[j].id
               PROVE  i = j
    OBVIOUS
  <2>1. i + 1 = j + 1
    BY <1>2 DEF FateInv
  <2>2. i \in Int /\ j \in Int
    BY <1>2, <1>0
  <2> QED BY <2>1, <2>2
<1>5. InHistory' \subseteq InHistory \ {Head(history).id}
  <2> SUFFICES ASSUME NEW i \in DOMAIN history'
               PROVE  history'[i].id \in InHistory /\ history'[i].id # history[1].id
    BY <1>1 DEF InHistory
  <2>1. i \in Int /\ i >= 1 /\ 1 \in DOMAIN history
    BY <1>0, <1>1, <1>2
  <2> QED BY <1>2, <2>1 DEF InHistory, FateInv
<1>6. InHistory \ {Head(history).id} \subseteq InHistory'
  BY <1>1, <1>3 DEF InHistory
<1>7. Head(history).id \in InHistory
  BY <1>0, <1>1 DEF InHistory
<1> QED BY <1>1, <1>4, <1>5, <1>6, <1>7

\* What is delivered when one more sample is.
LEMMA OneMoreDelivered ==
  ASSUME TypeOK, FateInv, NEW s \in 1..MaxSamples, s \notin Delivered,
         delivered' = [delivered EXCEPT ![s] = @ + 1]
  PROVE  Delivered' = Delivered \cup {s} /\ \A r \in 1..MaxSamples : delivered'[r] \in {0, 1}
<1>1. delivered \in [1..MaxSamples -> Nat] /\ delivered[s] = 0
  BY DEF TypeOK, FateInv, Delivered
<1>2. \A r \in 1..MaxSamples : delivered'[r] = IF r = s THEN 1 ELSE delivered[r]
  BY <1>1
<1> QED BY <1>2 DEF Delivered, FateInv

\* A step that moves no sample keeps the partition.
LEMMA SamplesUntouched ==
  ASSUME FateInv, UNCHANGED <<history, arrived, fateVars>>, Holding' = Holding,
         \A t \in Holding : hand'[t] = hand[t]
  PROVE  FateInv'
<1>1. InHistory' = InHistory /\ Delivered' = Delivered
  BY DEF InHistory, Delivered, fateVars
<1>2. InCalls' = InCalls
  BY DEF InCalls
<1> QED BY <1>1, <1>2 DEF FateInv, fateVars

\* A call that holds a sample lets go of it.
LEMMA CallLetsGo ==
  ASSUME TypeOK, FateInv, NEW t \in Holding, Holding' = Holding \ {t},
         hand' = [hand EXCEPT ![t] = NoLoan]
  PROVE  /\ hand[t].sample.id \in InCalls
         /\ InCalls' = InCalls \ {hand[t].sample.id}
         /\ \A u, v \in Holding' : hand'[u].sample.id = hand'[v].sample.id => u = v
<1>1. \A u \in Holding' : hand'[u] = hand[u]
  BY DEF TypeOK, Holding
<1> QED BY <1>1 DEF InCalls, FateInv

\* Every step keeps every sample in one place.
LEMMA FateStep == TypeOK /\ LoanInv /\ FateInv /\ [Next]_vars => FateInv'
<1> SUFFICES ASSUME TypeOK, LoanInv, FateInv, [Next]_vars PROVE FateInv'
  OBVIOUS
<1>pc. pc \in [Threads -> {"idle", "take", "add", "skip", "return"}]
       /\ hand \in [Threads -> Loans \cup {NoLoan}] /\ arrived \in Nat
  BY TakeAssumption DEF TypeOK
<1>id. \A t \in Holding : hand[t].sample.id \in 1..MaxSamples
  BY HandIsLoan DEF Holding, Busy, Loans, Samples
<1>1. ASSUME NEW valid \in BOOLEAN, NEW local \in BOOLEAN, Arrive(valid, local) PROVE FateInv'
  <2> DEFINE new == [id |-> arrived + 1, valid |-> valid, local |-> local]
  <2>0. history \in Seq(Samples) /\ Len(history) \in Nat /\ DOMAIN history = 1..Len(history)
    BY DEF TypeOK
  <2>1. new \in Samples
    BY <1>1, <1>pc, TakeAssumption DEF Arrive, Samples
  <2>2. /\ DOMAIN history' = 1..(Len(history) + 1)
        /\ history'[Len(history) + 1].id = arrived + 1
        /\ \A i \in DOMAIN history : history'[i] = history[i]
    BY <1>1, <2>0, <2>1 DEF Arrive
  <2>3. InHistory' = InHistory \cup {arrived + 1}
    BY <2>0, <2>2 DEF InHistory
  <2>4. \A i \in DOMAIN history : history[i].id # arrived + 1
    <3>1. \A i \in DOMAIN history : history[i].id \in 1..arrived
      BY DEF FateInv, InHistory
    <3> QED BY <1>pc, <3>1
  <2>5. \A i, j \in DOMAIN history' : history'[i].id = history'[j].id => i = j
    <3>1. \A i \in DOMAIN history' : i = Len(history) + 1 \/ i \in DOMAIN history
      BY <2>0, <2>2
    <3> QED BY <2>2, <2>4, <3>1 DEF FateInv
  <2>6. 1..arrived' = 1..arrived \cup {arrived + 1} /\ arrived + 1 \notin 1..arrived
    BY <1>1, <1>pc DEF Arrive
  <2>7. Holding' = Holding /\ InCalls' = InCalls /\ Delivered' = Delivered
        /\ UNCHANGED <<hand, delivered, passed, lost>>
    BY <1>1 DEF Arrive, loanVars, callVars, fateVars, Holding, InCalls, Delivered
  <2> QED BY <2>3, <2>5, <2>6, <2>7 DEF FateInv
<1>2. ASSUME NEW t \in Threads, NEW k \in Kinds, NEW count \in 1..MaxCount, StartTake(t, k, count)
      PROVE FateInv'
  BY <1>2, <1>pc, SamplesUntouched DEF StartTake, loanVars, Holding
<1>3. ASSUME NEW t \in Threads, PassOver(t) PROVE FateInv'
  <2>1. history # <<>> /\ history' = Tail(history)
    BY <1>3 DEF PassOver
  <2>2. Holding' = Holding /\ InCalls' = InCalls /\ Delivered' = Delivered
        /\ UNCHANGED <<hand, delivered, arrived, lost>>
    BY <1>3 DEF PassOver, loanVars, callVars, Holding, InCalls, Delivered
  <2>3. passed' = passed \cup {Head(history).id}
    BY <1>3 DEF PassOver
  <2> QED BY <2>1, <2>2, <2>3, SampleLeaves DEF FateInv
<1>4. ASSUME NEW t \in Threads, Deliver(t) PROVE FateInv'
  <2>1. history # <<>> /\ history' = Tail(history)
    BY <1>4 DEF Deliver
  <2>2. Holding' = Holding /\ InCalls' = InCalls /\ UNCHANGED <<hand, arrived, passed, lost>>
    BY <1>4, <1>pc DEF Deliver, EndIteration, loanVars, Holding, InCalls
  <2>3. /\ Delivered' = Delivered \cup {Head(history).id}
        /\ \A r \in 1..MaxSamples : delivered'[r] \in {0, 1}
    BY <1>4, <2>1, SampleLeaves, OneMoreDelivered DEF Deliver, FateInv
  <2> QED BY <2>1, <2>2, <2>3, SampleLeaves DEF FateInv
<1>5. ASSUME NEW t \in Threads, FailToResize(t) PROVE FateInv'
  <2>1. history # <<>> /\ history' = Tail(history)
    BY <1>5 DEF FailToResize
  <2>2. Holding' = Holding /\ InCalls' = InCalls /\ Delivered' = Delivered
        /\ UNCHANGED <<hand, arrived, delivered, passed>>
    BY <1>5, <1>pc DEF FailToResize, loanVars, Holding, InCalls, Delivered
  <2>3. lost' = lost \cup {Head(history).id}
    BY <1>5 DEF FailToResize
  <2> QED BY <2>1, <2>2, <2>3, SampleLeaves DEF FateInv
<1>6. ASSUME NEW t \in Threads, TakeNothing(t) PROVE FateInv'
  BY <1>6, <1>pc, SamplesUntouched DEF TakeNothing, EndIteration, loanVars, Holding
<1>7. ASSUME NEW t \in Threads, TakeLoan(t) PROVE FateInv'
  <2>1. PICK b \in Buffers :
          LET loan == [buffer |-> b, sample |-> Head(history)]
          IN  /\ hand' = [hand EXCEPT ![t] = loan]
              /\ pc' = [pc EXCEPT ![t] = IF Head(history).valid THEN "add" ELSE "skip"]
    BY <1>7 DEF TakeLoan
  <2>2. history # <<>> /\ history' = Tail(history) /\ UNCHANGED <<arrived, delivered, passed, lost>>
    BY <1>7 DEF TakeLoan, fateVars
  <2>3. t \notin Holding /\ Holding' = Holding \cup {t}
    BY <1>7, <1>pc, <2>1 DEF TakeLoan, Holding
  <2>4. hand'[t].sample.id = Head(history).id /\ \A u \in Holding : hand'[u] = hand[u]
    BY <1>pc, <2>1, <2>3 DEF Holding
  <2>5. InCalls' = InCalls \cup {Head(history).id}
    BY <2>3, <2>4 DEF InCalls
  <2>6. Head(history).id \notin InCalls
    BY <2>2, SampleLeaves DEF FateInv
  <2>7. \A u, v \in Holding' : hand'[u].sample.id = hand'[v].sample.id => u = v
    BY <2>3, <2>4, <2>6 DEF InCalls, FateInv
  <2>8. Delivered' = Delivered
    BY <2>2 DEF Delivered
  <2> QED BY <2>2, <2>5, <2>7, <2>8, SampleLeaves DEF FateInv
<1>8. ASSUME NEW t \in Threads, TakeNoLoan(t) PROVE FateInv'
  BY <1>8, <1>pc, SamplesUntouched DEF TakeNoLoan, loanVars, Holding
<1>9. ASSUME NEW t \in Threads, AddItem(t) PROVE FateInv'
  <2> DEFINE s == hand[t].sample.id
  <2>1. t \in Holding /\ Holding' = Holding \ {t}
    BY <1>9, <1>pc DEF AddItem, Holding
  <2>2. /\ s \in InCalls /\ InCalls' = InCalls \ {s}
        /\ \A u, v \in Holding' : hand'[u].sample.id = hand'[v].sample.id => u = v
    BY <1>9, <2>1, CallLetsGo DEF AddItem
  <2>3. Delivered' = Delivered \cup {s} /\ \A r \in 1..MaxSamples : delivered'[r] \in {0, 1}
    BY <1>9, <1>id, <2>1, <2>2, OneMoreDelivered DEF AddItem, FateInv
  <2>4. InHistory' = InHistory /\ UNCHANGED <<history, arrived, passed, lost>>
    BY <1>9 DEF AddItem, InHistory
  <2> QED BY <2>2, <2>3, <2>4 DEF FateInv
<1>10. ASSUME NEW t \in Threads, SkipLoan(t) PROVE FateInv'
  <2> DEFINE s == hand[t].sample.id
  <2>1. t \in Holding /\ Holding' = Holding \ {t}
    BY <1>10, <1>pc DEF SkipLoan, Holding
  <2>2. /\ s \in InCalls /\ InCalls' = InCalls \ {s}
        /\ \A u, v \in Holding' : hand'[u].sample.id = hand'[v].sample.id => u = v
    BY <1>10, <2>1, CallLetsGo DEF SkipLoan
  <2>3. passed' = passed \cup {s}
    BY <1>10 DEF SkipLoan
  <2>4. InHistory' = InHistory /\ Delivered' = Delivered /\ UNCHANGED <<history, arrived, delivered, lost>>
    BY <1>10 DEF SkipLoan, InHistory, Delivered
  <2> QED BY <2>2, <2>3, <2>4 DEF FateInv
<1>11. ASSUME NEW t \in Threads, NEW loan \in held, EraseItem(t, loan) PROVE FateInv'
  <2>1. PICK item \in items : hand' = [hand EXCEPT ![t] = item]
    BY <1>11 DEF EraseItem
  <2>2. t \notin Holding /\ Holding' = Holding
    BY <1>11, <1>pc DEF EraseItem, Holding
  <2>3. \A u \in Holding : hand'[u] = hand[u]
    BY <1>pc, <2>1, <2>2 DEF Holding
  <2> QED BY <1>11, <2>2, <2>3, SamplesUntouched DEF EraseItem
<1>12. ASSUME NEW t \in Threads, ReturnLoan(t) PROVE FateInv'
  <2>1. t \notin Holding /\ Holding' = Holding
    BY <1>12, <1>pc DEF ReturnLoan, Holding
  <2>2. \A u \in Holding : hand'[u] = hand[u]
    BY <1>12, <1>pc, <2>1 DEF ReturnLoan, Holding
  <2> QED BY <1>12, <2>1, <2>2, SamplesUntouched DEF ReturnLoan
<1>13. ASSUME NEW successor \in {"open", "deleted"}, DeleteReader(successor) PROVE FateInv'
  <2>0. Holding' = Holding /\ InCalls' = InCalls /\ Delivered' = Delivered
        /\ UNCHANGED <<hand, arrived, delivered, passed>>
    BY <1>13 DEF DeleteReader, loanVars, callVars, Holding, InCalls, Delivered
  <2>1. CASE history' = <<>> /\ lost' = lost \cup InHistory
    <3>1. InHistory' = {} /\ DOMAIN history' = {}
      BY <2>1 DEF InHistory
    <3> QED BY <2>0, <2>1, <3>1 DEF FateInv
  <2>2. CASE UNCHANGED <<history, lost>>
    <3>1. InHistory' = InHistory
      BY <2>2 DEF InHistory
    <3> QED BY <2>0, <2>2, <3>1 DEF FateInv
  <2> QED BY <1>13, <2>1, <2>2 DEF DeleteReader
<1>14. CASE UNCHANGED vars
  BY <1>14, SamplesUntouched DEF vars, loanVars, callVars, fateVars, Holding
<1> QED
  BY <1>1, <1>2, <1>3, <1>4, <1>5, <1>6, <1>7, <1>8, <1>9, <1>10, <1>11, <1>12, <1>13, <1>14
  DEF Next, Destroy, SetContentFilter

\* A set whose members are all equal has one member or none.
LEMMA AtMostOne ==
  ASSUME NEW S, \A x, y \in S : x = y
  PROVE  Cardinality(S) = IF S = {} THEN 0 ELSE 1
<1>1. CASE S = {}
  BY <1>1, FS_EmptySet
<1>2. CASE S # {}
  <2>1. PICK x : S = {x}
    BY <1>2
  <2> QED BY <2>1, <1>2, FS_Singleton
<1> QED BY <1>1, <1>2

\* The partition says what the sums promise.
LEMMA FateInvImplies == TypeOK /\ FateInv => OneFate
<1> SUFFICES ASSUME TypeOK, FateInv, NEW s \in 1..MaxSamples
             PROVE  Places(s) = IF s <= arrived THEN 1 ELSE 0
  BY DEF OneFate
<1> DEFINE inReader == {i \in DOMAIN history : history[i].id = s}
           inCall   == {t \in Threads : pc[t] \in {"add", "skip"} /\ hand[t].sample.id = s}
<1>1. Cardinality(inReader) = IF s \in InHistory THEN 1 ELSE 0
  <2>1. Cardinality(inReader) = IF inReader = {} THEN 0 ELSE 1
    BY AtMostOne DEF FateInv
  <2>2. inReader # {} <=> s \in InHistory
    BY DEF InHistory
  <2> QED BY <2>1, <2>2
<1>2. Cardinality(inCall) = IF s \in InCalls THEN 1 ELSE 0
  <2>1. Cardinality(inCall) = IF inCall = {} THEN 0 ELSE 1
    <3>1. \A t, u \in inCall : t = u
      BY DEF FateInv, Holding
    <3> HIDE DEF inCall
    <3> QED BY <3>1, AtMostOne
  <2>2. inCall # {} <=> s \in InCalls
    BY DEF InCalls, Holding
  <2> QED BY <2>1, <2>2
<1>3. delivered[s] = IF s \in Delivered THEN 1 ELSE 0
  BY DEF FateInv, Delivered
<1>4. s <= arrived <=> s \in 1..arrived
  BY TakeAssumption DEF TypeOK
<1> HIDE DEF inReader, inCall
<1>5. Places(s) = Cardinality(inReader) + Cardinality(inCall) + delivered[s]
                    + (IF s \in passed THEN 1 ELSE 0) + (IF s \in lost THEN 1 ELSE 0)
  BY DEF Places, inReader, inCall
<1> QED BY <1>1, <1>2, <1>3, <1>4, <1>5 DEF FateInv

\* Whatever the threads mix, every sample that arrived is in the reader, in one call, or has
\* come to one end: it is delivered once, passed over once, or lost with a call that failed
\* or a reader that was replaced.
THEOREM EverySampleHasOneFate == Spec => []OneFate
<1>1. Init => FateInv
  <2> SUFFICES ASSUME Init PROVE FateInv
    OBVIOUS
  <2>1. InHistory = {} /\ Holding = {} /\ InCalls = {} /\ Delivered = {} /\ 1..arrived = {}
    BY DEF Init, InHistory, Holding, InCalls, Delivered
  <2> QED BY <2>1 DEF Init, FateInv
<1>2. TypeOK /\ LoanInv /\ FateInv /\ [Next]_vars => FateInv'
  BY FateStep
<1> QED BY <1>1, <1>2, Invariant, FateInvImplies, PTL DEF Spec

------------------------------------------------------------------------------
(***************************************************************************)
(* EndpointSupport: endpoints and the threads that compute keys.           *)
(***************************************************************************)

\* What a thread that computes a key knows.
KeyThread ==
  [step : {"grown", "written"}, e : Endpoints, msg : Keys(case), end : Nat, alone : BOOLEAN]

\* Endpoints have holders.
LEMMA HolderTyped == \A e \in Endpoints : Holder(e) \in Holders /\ ParticipantOf(e) \in Participants
BY EndpointAssumption DEF Holder, HolderOf, Holders

\* What is open, at work or refused is not closed, idle or a profile.
LEMMA RecordsApart ==
  /\ \A asked, qos : [asked |-> asked, qos |-> qos] # Closed
  /\ \A b, f : [md5 |-> b, bytes |-> f] # Thrown
  /\ \A q \in EntityQos : q # Refused
<1>1. \A asked, qos : [asked |-> asked, qos |-> qos] # Closed
  <2> SUFFICES ASSUME NEW asked, NEW qos, [asked |-> asked, qos |-> qos] = Closed PROVE FALSE
    OBVIOUS
  <2>1. DOMAIN [asked |-> asked, qos |-> qos] = {"asked", "qos"} /\ DOMAIN Closed = {"closed"}
    BY DEF Closed
  <2> QED
    BY <2>1
<1>2. \A b, f : [md5 |-> b, bytes |-> f] # Thrown
  <2> SUFFICES ASSUME NEW b, NEW f, [md5 |-> b, bytes |-> f] = Thrown PROVE FALSE
    OBVIOUS
  <2>1. DOMAIN [md5 |-> b, bytes |-> f] = {"md5", "bytes"} /\ DOMAIN Thrown = {"thrown"}
    BY DEF Thrown
  <2> QED
    BY <2>1
<1>3. \A q \in EntityQos : q # Refused
  <2> SUFFICES ASSUME NEW q \in EntityQos, q = Refused PROVE FALSE
    OBVIOUS
  <2>1. "history" \in DOMAIN q /\ DOMAIN Refused = {"refused"}
    BY DEF EntityQos, Refused
  <2> QED
    BY <2>1
<1> QED
  BY <1>1, <1>2, <1>3

\* A thread is idle, or computes a key.
LEMMA ThreadKinds ==
  ASSUME SupportTypeOK, NEW t \in Writers
  PROVE  /\ thread[t] # Idle <=> thread[t] \in KeyThread
         /\ thread[t] # Idle <=> thread[t].step \in {"grown", "written"}
<1>1. thread[t] \in {Idle} \cup KeyThread
  BY DEF SupportTypeOK, KeyThread
<1>2. Idle.step = "idle"
  BY DEF Idle
<1>3. \A r \in KeyThread : r.step \in {"grown", "written"}
  BY DEF KeyThread
<1> QED
  BY <1>1, <1>2, <1>3

\* Where another thread works, and what a thread that begins makes of it.
LEMMA BeginFacts ==
  ASSUME SupportTypeOK, NEW t \in Writers, NEW e \in Endpoints, NEW msg \in Keys(case), BeginKey(t, e, msg)
  PROVE  /\ thread[t] = Idle /\ thread'[t] # Idle /\ thread' \in [Writers -> {Idle} \cup KeyThread]
         /\ thread'[t] = [step |-> "grown", e |-> e, msg |-> msg, end |-> 0,
                          alone |-> Overlapping(t, ParticipantOf(e)) = {}]
         /\ \A u \in Writers \ {t} :
              /\ thread'[u] # Idle <=> thread[u] # Idle
              /\ thread[u] # Idle =>
                   /\ thread'[u].e = thread[u].e /\ thread'[u].msg = thread[u].msg
                   /\ thread'[u].step = thread[u].step /\ thread'[u].end = thread[u].end
                   /\ thread'[u].alone = (thread[u].alone /\ u \notin Overlapping(t, ParticipantOf(e)))
<1> DEFINE new == [step |-> "grown", e |-> e, msg |-> msg, end |-> 0,
                   alone |-> Overlapping(t, ParticipantOf(e)) = {}]
<1>1. new \in KeyThread /\ new # Idle
  <2>1. new \in KeyThread
    BY DEF KeyThread
  <2>2. new.step = "grown" /\ Idle.step = "idle"
    BY DEF Idle
  <2> QED
    BY <2>1, <2>2
<1>2. thread[t] = Idle /\ thread'[t] = new
  BY DEF BeginKey
<1>3. ASSUME NEW u \in Writers \ {t}
      PROVE  /\ thread'[u] \in {Idle} \cup KeyThread
             /\ thread'[u] # Idle <=> thread[u] # Idle
             /\ thread[u] # Idle =>
                   /\ thread'[u].e = thread[u].e /\ thread'[u].msg = thread[u].msg
                   /\ thread'[u].step = thread[u].step /\ thread'[u].end = thread[u].end
                   /\ thread'[u].alone = (thread[u].alone /\ u \notin Overlapping(t, ParticipantOf(e)))
  <2>1. CASE u \notin Overlapping(t, ParticipantOf(e))
    <3>1. thread'[u] = thread[u]
      BY <2>1 DEF BeginKey
    <3>2. thread[u] # Idle => thread[u].alone \in BOOLEAN
      BY ThreadKinds DEF KeyThread
    <3> QED
      BY <2>1, <3>1, <3>2, ThreadKinds
  <2>2. CASE u \in Overlapping(t, ParticipantOf(e))
    <3>1. thread'[u] = [thread[u] EXCEPT !.alone = FALSE]
      BY <2>2 DEF BeginKey
    <3>2. thread[u] \in KeyThread
      BY <2>2, ThreadKinds DEF Overlapping
    <3>3. /\ thread'[u] \in KeyThread
          /\ thread'[u].e = thread[u].e /\ thread'[u].msg = thread[u].msg
          /\ thread'[u].step = thread[u].step /\ thread'[u].end = thread[u].end
          /\ thread'[u].alone = FALSE
      BY <3>1, <3>2 DEF KeyThread
    <3>4. thread'[u].step # "idle" /\ Idle.step = "idle"
      BY <3>2, <3>3 DEF KeyThread, Idle
    <3> QED
      BY <2>2, <3>2, <3>3, <3>4, ThreadKinds
  <2> QED
    BY <2>1, <2>2
<1>4. thread' \in [Writers -> {Idle} \cup KeyThread]
  <2>1. thread' = [u \in Writers |-> thread'[u]]
    BY DEF BeginKey
  <2>2. \A u \in Writers : thread'[u] \in {Idle} \cup KeyThread
    BY <1>1, <1>2, <1>3
  <2> HIDE DEF new
  <2> QED
    BY <2>1, <2>2
<1> QED
  BY <1>1, <1>2, <1>3, <1>4

\* The end of a call: only its thread and its mutex are let go.
LEMMA ComputedFacts ==
  ASSUME SupportTypeOK, NEW t \in Writers, thread[t] # Idle, NEW handle, Computed(t, handle)
  PROVE  /\ thread' = [thread EXCEPT ![t] = Idle] /\ thread'[t] = Idle
         /\ thread' \in [Writers -> {Idle} \cup KeyThread]
         /\ \A u \in Writers \ {t} : thread'[u] = thread[u]
         /\ lock' = [lock EXCEPT ![ParticipantOf(thread[t].e)] = None]
         /\ lock' \in [Participants -> Writers \cup {None}]
BY ThreadKinds, EndpointAssumption DEF Computed, SupportTypeOK, KeyThread

\* A key written that fits.
LEMMA WrittenFacts ==
  ASSUME SupportTypeOK, NEW t \in Writers, thread[t].step = "grown", NEW end \in Nat,
         thread' = [thread EXCEPT ![t].step = "written", ![t].end = end]
  PROVE  /\ thread[t] # Idle /\ thread'[t] # Idle /\ thread' \in [Writers -> {Idle} \cup KeyThread]
         /\ thread'[t].e = thread[t].e /\ thread'[t].msg = thread[t].msg
         /\ thread'[t].step = "written" /\ thread'[t].end = end
         /\ thread'[t].alone = thread[t].alone
         /\ \A u \in Writers \ {t} : thread'[u] = thread[u]
<1>1. thread[t] \in KeyThread /\ thread[t] # Idle
  BY ThreadKinds
<1>2. thread \in [Writers -> {Idle} \cup KeyThread]
  BY DEF SupportTypeOK, KeyThread
<1>3. thread'[t] = [thread[t] EXCEPT !.step = "written", !.end = end]
  BY <1>2
<1>4. /\ thread'[t] \in KeyThread
      /\ thread'[t].e = thread[t].e /\ thread'[t].msg = thread[t].msg
      /\ thread'[t].step = "written" /\ thread'[t].end = end
      /\ thread'[t].alone = thread[t].alone
  <2> SUFFICES ASSUME NEW r \in KeyThread, NEW q, q = [r EXCEPT !.step = "written", !.end = end]
               PROVE  /\ q \in KeyThread /\ q.e = r.e /\ q.msg = r.msg
                      /\ q.step = "written" /\ q.end = end /\ q.alone = r.alone
    BY <1>1, <1>3
  <2>1. q = [step |-> "written", e |-> r.e, msg |-> r.msg, end |-> end, alone |-> r.alone]
    BY DEF KeyThread
  <2> QED
    BY <2>1 DEF KeyThread
<1>5. thread'[t] # Idle
  <2>1. Idle.step = "idle"
    BY DEF Idle
  <2> QED
    BY <2>1, <1>4
<1>6. \A u \in Writers \ {t} : thread'[u] = thread[u]
  BY <1>2
<1>7. thread' \in [Writers -> {Idle} \cup KeyThread]
  <2>1. \A u \in Writers : thread'[u] \in {Idle} \cup KeyThread
    BY <1>2, <1>4, <1>6
  <2>2. thread' = [u \in Writers |-> thread'[u]]
    BY <1>2
  <2> QED
    BY <2>1, <2>2
<1> QED
  BY <1>1, <1>4, <1>5, <1>6, <1>7

------------------------------------------------------------------------------
(***************************************************************************)
(* What endpoints are created with.                                        *)
(***************************************************************************)

\* A profile's policies, over the defaults.
Filled(profile, default) ==
  [history |-> Chosen(profile.history, default.history),
   durability |-> Chosen(profile.durability, default.durability),
   reliability |-> Chosen(profile.reliability, default.reliability),
   liveliness |-> Chosen(profile.liveliness, default.liveliness),
   depth |-> ChosenDepth(profile.depth, default.depth),
   lifespan |-> ChosenTime(profile.lifespan, default.lifespan),
   deadline |-> ChosenTime(profile.deadline, default.deadline),
   lease |-> ChosenTime(profile.lease, default.lease),
   announcement |-> IF profile.lease = 0 THEN default.announcement
                          ELSE Announcement(ToDuration(profile.lease)),
   perInstance |-> default.perInstance]

\* Filling the QoS of an endpoint gives such a QoS, or refuses.
LEMMA FilledQos ==
  ASSUME NEW default \in EntityQos, NEW profile \in RmwQos
  PROVE  FillEntityQos(profile, default) # Refused =>
           /\ Accepts(profile, default)
           /\ FillEntityQos(profile, default) = Filled(profile, default)
           /\ FillEntityQos(profile, default) \in EntityQos
<1> SUFFICES ASSUME FillEntityQos(profile, default) # Refused
             PROVE  /\ Accepts(profile, default)
                    /\ FillEntityQos(profile, default) = Filled(profile, default)
                    /\ FillEntityQos(profile, default) \in EntityQos
  OBVIOUS
<1>1. Accepts(profile, default)
  BY DEF FillEntityQos
<1>2. FillEntityQos(profile, default) = Filled(profile, default)
  BY <1>1 DEF FillEntityQos, EntityQos, Filled
<1>3. /\ ChosenDepth(profile.depth, default.depth) \in 0 .. MaxInt
      /\ ChosenTime(profile.lifespan, default.lifespan) \in Times
      /\ ChosenTime(profile.deadline, default.deadline) \in Times
      /\ ChosenTime(profile.lease, default.lease) \in Times
  BY <1>1, MaxIntAssumption DEF RmwQos, EntityQos, ChosenDepth, ChosenTime, ToDuration, Accepts, Times, Infinite
<1>4. (IF profile.lease = 0 THEN default.announcement ELSE Announcement(ToDuration(profile.lease))) \in Times
  BY MaxIntAssumption DEF RmwQos, EntityQos, ToDuration, Announcement, Times, Infinite
<1>5. /\ Chosen(profile.history, default.history) \in STRING
      /\ Chosen(profile.durability, default.durability) \in STRING
      /\ Chosen(profile.reliability, default.reliability) \in STRING
      /\ Chosen(profile.liveliness, default.liveliness) \in STRING
  BY DEF RmwQos, EntityQos, Chosen
<1>6. default.perInstance \in Nat
  BY DEF EntityQos
<1> QED
  BY <1>1, <1>2, <1>3, <1>4, <1>5, <1>6 DEF EntityQos, Filled

\* A profile read back from the QoS it filled says what was asked for.
LEMMA FilledHonours ==
  ASSUME NEW default \in EntityQos, NEW profile \in RmwQos, FillEntityQos(profile, default) # Refused,
         NEW qos, qos = FillEntityQos(profile, default)
  PROVE  /\ Honours(ToRmw(qos), profile)
         /\ Honours(DiscoveredToRmw(qos, TRUE, profile), profile)
         /\ Honours(DiscoveredToRmw(qos, FALSE, profile), [profile EXCEPT !.history = "default"])
         /\ profile.lease > 0 => qos.announcement < qos.lease
         /\ qos.depth >= profile.depth
<1>1. /\ KindKept(profile.history, qos.history) /\ KindKept(profile.durability, qos.durability)
      /\ KindKept(profile.reliability, qos.reliability) /\ KindKept(profile.liveliness, qos.liveliness)
  BY FilledQos DEF Filled, KindKept, Chosen
<1>2. qos.depth >= profile.depth
  BY FilledQos DEF Filled, ChosenDepth, RmwQos, EntityQos
<1>3. ASSUME NEW asked \in Times, NEW time \in Times PROVE TimeKept(asked, ChosenTime(asked, time))
  BY MaxIntAssumption DEF TimeKept, ChosenTime, ToDuration, Times, Infinite
<1>4. /\ TimeKept(profile.lifespan, qos.lifespan) /\ TimeKept(profile.deadline, qos.deadline)
      /\ TimeKept(profile.lease, qos.lease)
  BY <1>3, FilledQos DEF Filled, RmwQos, EntityQos
<1>5. Honours(ToRmw(qos), profile)
  BY <1>1, <1>2, <1>4 DEF Honours, ToRmw
<1>6. Honours(DiscoveredToRmw(qos, FALSE, profile), [profile EXCEPT !.history = "default"])
  <2> DEFINE seen == DiscoveredToRmw(qos, FALSE, profile)
             asked == [profile EXCEPT !.history = "default"]
  <2>1. /\ seen.durability = qos.durability /\ seen.reliability = qos.reliability
        /\ seen.liveliness = qos.liveliness /\ seen.depth = profile.depth
        /\ seen.lifespan = qos.lifespan /\ seen.deadline = qos.deadline /\ seen.lease = qos.lease
    BY DEF DiscoveredToRmw, ToRmw
  <2>2. /\ asked.history = "default"
        /\ asked.durability = profile.durability /\ asked.reliability = profile.reliability
        /\ asked.liveliness = profile.liveliness /\ asked.depth = profile.depth
        /\ asked.lifespan = profile.lifespan /\ asked.deadline = profile.deadline
        /\ asked.lease = profile.lease
    BY DEF RmwQos
  <2>3. profile.depth >= profile.depth
    BY DEF RmwQos
  <2>4. KindKept("default", seen.history)
    BY DEF KindKept
  <2> HIDE DEF seen, asked
  <2>5. Honours(seen, asked)
    BY <1>1, <1>4, <2>1, <2>2, <2>3, <2>4 DEF Honours
  <2> QED
    BY <2>5 DEF seen, asked
<1>7. profile.lease > 0 => qos.announcement < qos.lease
  BY FilledQos, MaxIntAssumption DEF Filled, RmwQos, ToDuration, ChosenTime, Announcement, Times, Infinite
<1> QED
  BY <1>2, <1>5, <1>6, <1>7 DEF DiscoveredToRmw

\* The QoS of an endpoint that is created.
LEMMA CreatedQos ==
  ASSUME SupportTypeOK, NEW e \in Endpoints, NEW profile \in Profiles(case, e), EndpointQos(profile) # Refused
  PROVE  /\ profile \in RmwQos /\ case.default \in EntityQos
         /\ FillEntityQos(profile, case.default) # Refused
         /\ EndpointQos(profile) \in EntityQos
         /\ EndpointQos(profile) = IF desc.keyed /\ ~case.keepDefault
                                   THEN LimitForKeys(FillEntityQos(profile, case.default))
                                   ELSE FillEntityQos(profile, case.default)
<1>1. profile \in RmwQos /\ case.default \in EntityQos
  BY QosAssumption DEF SupportTypeOK
<1>2. FillEntityQos(profile, case.default) # Refused
  BY DEF EndpointQos
<1>3. ASSUME NEW q \in EntityQos PROVE LimitForKeys(q) \in EntityQos
  BY DEF LimitForKeys, EntityQos
<1> QED
  BY <1>1, <1>2, <1>3, FilledQos DEF EndpointQos

------------------------------------------------------------------------------
(***************************************************************************)
(* What endpoints and their destruction do to the type supports.           *)
(***************************************************************************)

\* An endpoint that is created uses the type support of its participant.
LEMMA CreateFacts ==
  ASSUME SupportTypeOK, NEW e \in Endpoints, NEW profile \in Profiles(case, e),
         CreateEndpoint(e, profile), EndpointQos(profile) # Refused, NEW h, h = Holder(e)
  PROVE  /\ h \in Holders /\ endpoint[e] = Closed /\ UNCHANGED <<case, desc, keyVars>>
         /\ endpoint' \in [Endpoints -> {Closed} \cup [asked : RmwQos, qos : EntityQos]]
         /\ endpoint'[e] = [asked |-> profile, qos |-> EndpointQos(profile)] /\ endpoint'[e] # Closed
         /\ \A f \in Endpoints \ {e} : endpoint'[f] = endpoint[f]
         /\ users' = [users EXCEPT ![h] = @ + 1]
         /\ IF users[h] > 0 THEN UNCHANGED <<keyMax, buffer>>
            ELSE /\ keyMax' = [keyMax EXCEPT ![h] = desc.keyMax]
                 /\ buffer' = [buffer EXCEPT ![h] = Resized(<<>>, desc.keyMax)]
<1>1. /\ h \in Holders /\ endpoint[e] = Closed /\ UNCHANGED <<case, desc, keyVars>>
      /\ GetSupport(h) /\ endpoint' = [endpoint EXCEPT ![e] = [asked |-> profile, qos |-> EndpointQos(profile)]]
  BY HolderTyped DEF CreateEndpoint
<1>2. [asked |-> profile, qos |-> EndpointQos(profile)] \in [asked : RmwQos, qos : EntityQos]
  BY CreatedQos
<1> QED
  BY <1>1, <1>2, RecordsApart DEF SupportTypeOK, GetSupport

\* An endpoint that is destroyed gives it back.
LEMMA DestroyFacts ==
  ASSUME SupportTypeOK, NEW e \in Endpoints, DestroyEndpoint(e), NEW h, h = Holder(e)
  PROVE  /\ h \in Holders /\ endpoint[e] # Closed /\ UNCHANGED <<case, desc, keyVars>>
         /\ \A t \in Writers : thread[t] # Idle => thread[t].e # e
         /\ endpoint' \in [Endpoints -> {Closed} \cup [asked : RmwQos, qos : EntityQos]]
         /\ endpoint'[e] = Closed
         /\ \A f \in Endpoints \ {e} : endpoint'[f] = endpoint[f]
         /\ users' = [users EXCEPT ![h] = IF users[h] = 1 THEN 0 ELSE @ - 1]
         /\ IF users[h] = 1 THEN /\ keyMax' = [keyMax EXCEPT ![h] = 0]
                                /\ buffer' = [buffer EXCEPT ![h] = <<>>]
            ELSE UNCHANGED <<keyMax, buffer>>
<1>1. /\ h \in Holders /\ endpoint[e] # Closed /\ UNCHANGED <<case, desc, keyVars>>
      /\ \A t \in Writers : thread[t] # Idle => thread[t].e # e
      /\ ReturnSupport(h) /\ endpoint' = [endpoint EXCEPT ![e] = Closed]
  BY HolderTyped DEF DestroyEndpoint
<1> QED
  BY <1>1 DEF SupportTypeOK, ReturnSupport

\* The count follows the endpoints.
LEMMA UsersNext ==
  ASSUME SupportTypeOK, UsersCounted, [SupportNext]_supportVars
  PROVE  UsersCounted'
<1>0. \A h : IsFiniteSet(EndpointsOf(h))
  BY EndpointAssumption, FS_Subset DEF EndpointsOf
<1>1. ASSUME NEW e \in Endpoints, NEW profile \in Profiles(case, e), CreateEndpoint(e, profile)
      PROVE  UsersCounted'
  <2>1. CASE EndpointQos(profile) = Refused
    BY <1>1, <2>1 DEF CreateEndpoint, UsersCounted, EndpointsOf, Holder, HolderOf, Holders
  <2>2. CASE EndpointQos(profile) # Refused
    <3> SUFFICES ASSUME NEW k \in Holders PROVE users'[k] = Cardinality(EndpointsOf(k)')
      BY DEF UsersCounted, Holders
    <3> DEFINE h == Holder(e)
    <3>1. \A f \in Endpoints : Holder(f)' = Holder(f)
      BY <1>1 DEF CreateEndpoint, Holder, HolderOf
    <3>0. /\ h \in Holders /\ endpoint[e] = Closed /\ endpoint'[e] # Closed
          /\ \A f \in Endpoints \ {e} : endpoint'[f] = endpoint[f]
          /\ users' = [users EXCEPT ![h] = @ + 1]
      BY <1>1, <2>2, CreateFacts
    <3>2. CASE k = h
      <4>1. EndpointsOf(k)' = EndpointsOf(k) \cup {e} /\ e \notin EndpointsOf(k)
        BY <3>0, <3>1, <3>2 DEF EndpointsOf
      <4>2. Cardinality(EndpointsOf(k)') = Cardinality(EndpointsOf(k)) + 1
        BY <1>0, <4>1, FS_AddElement
      <4> QED
        BY <3>0, <3>2, <4>2 DEF SupportTypeOK, UsersCounted
    <3>3. CASE k # h
      <4>1. EndpointsOf(k)' = EndpointsOf(k)
        BY <3>0, <3>1, <3>3 DEF EndpointsOf
      <4> QED
        BY <3>0, <3>3, <4>1 DEF SupportTypeOK, UsersCounted
    <3> QED
      BY <3>2, <3>3
  <2> QED
    BY <2>1, <2>2
<1>2. ASSUME NEW e \in Endpoints, DestroyEndpoint(e) PROVE UsersCounted'
  <2> SUFFICES ASSUME NEW k \in Holders PROVE users'[k] = Cardinality(EndpointsOf(k)')
    BY DEF UsersCounted, Holders
  <2> DEFINE h == Holder(e)
  <2>1. \A f \in Endpoints : Holder(f)' = Holder(f)
    BY <1>2 DEF DestroyEndpoint, Holder, HolderOf
  <2>2. CASE k = h
    <3>1. EndpointsOf(k)' = EndpointsOf(k) \ {e} /\ e \in EndpointsOf(k)
      BY <1>2, <2>1, <2>2, DestroyFacts DEF EndpointsOf
    <3>2. Cardinality(EndpointsOf(k)') = Cardinality(EndpointsOf(k)) - 1
      BY <1>0, <3>1, FS_RemoveElement
    <3> QED
      BY <1>2, <2>2, <3>2, DestroyFacts DEF SupportTypeOK, UsersCounted
  <2>3. CASE k # h
    <3>1. EndpointsOf(k)' = EndpointsOf(k)
      BY <1>2, <2>1, <2>3, DestroyFacts DEF EndpointsOf
    <3> QED
      BY <1>2, <2>3, <3>1, DestroyFacts DEF SupportTypeOK, UsersCounted
  <2> QED
    BY <2>2, <2>3
<1>3. CASE UNCHANGED <<case, users, endpoint>>
  BY <1>3 DEF UsersCounted, EndpointsOf, Holder, HolderOf, Holders
<1>4. ASSUME NEW t \in Writers, NEW e \in Endpoints, NEW msg \in Keys(case), BeginKey(t, e, msg)
      PROVE  UsersCounted'
  BY <1>3, <1>4 DEF BeginKey
<1>5. ASSUME NEW t \in Writers, WriteKey(t) \/ HashKey(t) PROVE UsersCounted'
  BY <1>3, <1>5 DEF WriteKey, HashKey
<1> QED
  BY <1>1, <1>2, <1>3, <1>4, <1>5 DEF SupportNext, supportVars

\* Who computes a key uses the type support of the buffer.
LEMMA InUse ==
  ASSUME SupportTypeOK, UsersCounted, NEW e \in Endpoints, endpoint[e] # Closed
  PROVE  Holder(e) \in Holders /\ users[Holder(e)] > 0
<1>1. e \in EndpointsOf(Holder(e)) /\ IsFiniteSet(EndpointsOf(Holder(e)))
  BY EndpointAssumption, FS_Subset DEF EndpointsOf
<1>2. Cardinality(EndpointsOf(Holder(e))) # 0 /\ Cardinality(EndpointsOf(Holder(e))) \in Nat
  BY <1>1, FS_EmptySet, FS_CardinalityType
<1> QED
  BY <1>2, HolderTyped DEF UsersCounted

\* It stays in use by another endpoint when the one that is destroyed is not its own.
LEMMA InUseByOther ==
  ASSUME SupportTypeOK, UsersCounted, NEW e \in Endpoints, NEW f \in Endpoints \ {e},
         endpoint[e] # Closed, endpoint[f] # Closed, Holder(e) = Holder(f)
  PROVE  users[Holder(e)] > 1
<1> DEFINE S == EndpointsOf(Holder(e))
<1>1. e \in S /\ f \in S /\ IsFiniteSet(S)
  BY EndpointAssumption, FS_Subset DEF EndpointsOf
<1>2. f \in S \ {e} /\ IsFiniteSet(S \ {e}) /\ Cardinality(S \ {e}) = Cardinality(S) - 1
  BY <1>1, FS_RemoveElement
<1>3. Cardinality(S \ {e}) # 0 /\ Cardinality(S \ {e}) \in Nat /\ Cardinality(S) \in Nat
  BY <1>1, <1>2, FS_EmptySet, FS_CardinalityType
<1>4. users[Holder(e)] = Cardinality(S)
  BY HolderTyped DEF UsersCounted
<1> QED
  BY <1>2, <1>3, <1>4

------------------------------------------------------------------------------
(***************************************************************************)
(* The key buffers.                                                        *)
(***************************************************************************)

\* A type's description never changes, and its bound is a number.
LEMMA DescTyped ==
  ASSUME SupportTypeOK
  PROVE  /\ case \in Cases /\ desc = DescOf(case) /\ desc.keyMax \in Nat
         /\ KeyIsFixed(case) => ~desc.keyUnbounded
         /\ \A msg \in Keys(case) :
              /\ KeyRoom(case, msg) \in Nat /\ KeyStream(case, msg).at \in Nat
              /\ DOMAIN KeyStream(case, msg).bytes \subseteq 0 .. KeyStream(case, msg).at - 1
BY KeyRoomAssumption DEF SupportTypeOK

\* Making room keeps what is in the buffer.
LEMMA RoomFacts ==
  ASSUME SupportTypeOK, NEW t \in Writers, NEW e \in Endpoints, NEW msg \in Keys(case), BeginKey(t, e, msg),
         NEW h, h = Holder(e)
  PROVE  /\ h \in Holders /\ keyMax' \in [Holders -> Nat] /\ DOMAIN buffer' = Holders
         /\ \A g \in Holders \ {h} : keyMax'[g] = keyMax[g] /\ buffer'[g] = buffer[g]
         /\ keyMax'[h] >= keyMax[h]
         /\ ~desc.keyUnbounded => keyMax'[h] = keyMax[h]
         /\ desc.keyUnbounded => keyMax'[h] >= KeyRoom(case, msg)
         /\ DOMAIN buffer'[h] = 0 .. keyMax'[h] - 1
         /\ \A k \in DOMAIN buffer[h] : k \in DOMAIN buffer'[h] /\ buffer'[h][k] = buffer[h][k]
         /\ \A k \in DOMAIN buffer'[h] : k \in DOMAIN buffer[h] \/ buffer'[h][k] = 0
<1> DEFINE size == IF desc.keyUnbounded THEN Larger(keyMax[h], KeyRoom(case, msg)) ELSE keyMax[h]
<1>1. h \in Holders /\ keyMax \in [Holders -> Nat] /\ DOMAIN buffer = Holders
      /\ DOMAIN buffer[h] = 0 .. keyMax[h] - 1
  BY HolderTyped DEF SupportTypeOK
<1>2. /\ size \in Nat /\ size >= keyMax[h] /\ (~desc.keyUnbounded => size = keyMax[h])
      /\ (desc.keyUnbounded => size >= KeyRoom(case, msg))
  BY <1>1, DescTyped DEF Larger
<1>3. keyMax' = [keyMax EXCEPT ![h] = size] /\ buffer' = [buffer EXCEPT ![h] = Resized(@, size)]
  BY DEF BeginKey
<1> HIDE DEF size
<1>4. /\ keyMax'[h] = size /\ keyMax' \in [Holders -> Nat] /\ DOMAIN buffer' = Holders
      /\ \A g \in Holders \ {h} : keyMax'[g] = keyMax[g] /\ buffer'[g] = buffer[g]
      /\ buffer'[h] = Resized(buffer[h], size)
  BY <1>1, <1>2, <1>3
<1>5. /\ DOMAIN buffer'[h] = 0 .. size - 1
      /\ \A k \in 0 .. size - 1 : buffer'[h][k] = IF k \in DOMAIN buffer[h] THEN buffer[h][k] ELSE 0
  BY <1>4 DEF Resized
<1>6. \A k \in DOMAIN buffer[h] : k \in 0 .. size - 1
  BY <1>1, <1>2
<1> QED
  BY <1>1, <1>2, <1>4, <1>5, <1>6

\* Writing changes the bytes of the key and no others.
LEMMA OverwriteFacts ==
  ASSUME SupportTypeOK, NEW t \in Writers, WriteKey(t),
         NEW h, h = Holder(thread[t].e), NEW bytes, bytes = KeyStream(case, thread[t].msg).bytes
  PROVE  /\ h \in Holders /\ DOMAIN buffer' = Holders /\ DOMAIN buffer'[h] = DOMAIN buffer[h]
         /\ \A g \in Holders \ {h} : buffer'[g] = buffer[g]
         /\ \A k \in DOMAIN buffer[h] : /\ k \in DOMAIN bytes => buffer'[h][k] = bytes[k]
                                        /\ k \notin DOMAIN bytes => buffer'[h][k] = buffer[h][k]
<1>1. h \in Holders
  BY ThreadKinds, HolderTyped DEF WriteKey, KeyThread
<1>2. buffer' = [buffer EXCEPT ![h] = Overwritten(@, bytes)]
  BY DEF WriteKey
<1>3. DOMAIN buffer' = Holders /\ buffer'[h] = Overwritten(buffer[h], bytes)
      /\ \A g \in Holders \ {h} : buffer'[g] = buffer[g]
  BY <1>1, <1>2 DEF SupportTypeOK
<1> QED
  BY <1>1, <1>3 DEF Overwritten

\* A key that does not fit ends the call, any other is written.
LEMMA WriteFacts ==
  ASSUME SupportTypeOK, NEW t \in Writers, WriteKey(t),
         NEW h, h = Holder(thread[t].e), NEW key, key = KeyStream(case, thread[t].msg)
  PROVE  /\ thread[t] # Idle /\ thread[t].msg \in Keys(case) /\ thread[t].e \in Endpoints /\ h \in Holders
         /\ UNCHANGED <<case, desc, users, keyMax, endpoint>>
         /\ \/ key.at > keyMax[h] /\ Computed(t, Thrown)
            \/ /\ ~(key.at > keyMax[h])
               /\ thread' = [thread EXCEPT ![t].step = "written", ![t].end = key.at]
               /\ UNCHANGED <<lock, handles>>
<1>1. thread[t] # Idle /\ thread[t].msg \in Keys(case) /\ thread[t].e \in Endpoints /\ h \in Holders
  BY ThreadKinds, HolderTyped DEF WriteKey, KeyThread
<1>2. /\ UNCHANGED <<case, desc, users, keyMax, endpoint>>
      /\ \/ key.at > keyMax[h] /\ Computed(t, Thrown)
         \/ /\ ~(key.at > keyMax[h])
            /\ thread' = [thread EXCEPT ![t].step = "written", ![t].end = key.at]
            /\ UNCHANGED <<lock, handles>>
  BY DEF WriteKey
<1> QED
  BY <1>1, <1>2

\* A buffer that is made anew or deleted.
LEMMA NewBuffer ==
  /\ \A n \in Nat : /\ DOMAIN Resized(<<>>, n) = 0 .. n - 1
                    /\ \A k \in 0 .. n - 1 : Resized(<<>>, n)[k] = 0
  /\ DOMAIN <<>> = 0 .. 0 - 1
BY DEF Resized

\* Types are kept by every step.
LEMMA SupportTyped ==
  ASSUME SupportTypeOK, UsersCounted, [SupportNext]_supportVars
  PROVE  SupportTypeOK'
<1>1. ASSUME NEW e \in Endpoints, NEW profile \in Profiles(case, e), CreateEndpoint(e, profile)
      PROVE  SupportTypeOK'
  <2>1. CASE EndpointQos(profile) = Refused
    BY <1>1, <2>1 DEF CreateEndpoint, keyVars, SupportTypeOK, Holders
  <2>2. CASE EndpointQos(profile) # Refused
    <3> SUFFICES ASSUME NEW h, h = Holder(e) PROVE SupportTypeOK'
      OBVIOUS
    <3>1. /\ h \in Holders /\ UNCHANGED <<case, desc, keyVars>>
          /\ endpoint' \in [Endpoints -> {Closed} \cup [asked : RmwQos, qos : EntityQos]]
          /\ users' = [users EXCEPT ![h] = @ + 1]
          /\ IF users[h] > 0 THEN UNCHANGED <<keyMax, buffer>>
             ELSE /\ keyMax' = [keyMax EXCEPT ![h] = desc.keyMax]
                  /\ buffer' = [buffer EXCEPT ![h] = Resized(<<>>, desc.keyMax)]
      BY <1>1, <2>2, CreateFacts
    <3> SUFFICES ASSUME NEW new, new = Resized(<<>>, desc.keyMax), NEW n, n = desc.keyMax PROVE SupportTypeOK'
      OBVIOUS
    <3>2. n \in Nat /\ DOMAIN new = 0 .. n - 1
      BY DescTyped, NewBuffer
    <3>3. /\ users' \in [Holders -> Nat] /\ keyMax' \in [Holders -> Nat] /\ DOMAIN buffer' = Holders
          /\ \A g \in Holders : DOMAIN buffer'[g] = 0 .. keyMax'[g] - 1
      <4>0. /\ users \in [Holders -> Nat] /\ keyMax \in [Holders -> Nat] /\ DOMAIN buffer = Holders
            /\ \A g \in Holders : DOMAIN buffer[g] = 0 .. keyMax[g] - 1
        BY DEF SupportTypeOK
      <4>1. CASE users[h] > 0
        BY <3>1, <4>0, <4>1
      <4>2. CASE ~(users[h] > 0)
        <5>1. keyMax' = [keyMax EXCEPT ![h] = n] /\ buffer' = [buffer EXCEPT ![h] = new]
          BY <3>1, <4>2
        <5>2. ASSUME NEW g \in Holders PROVE DOMAIN buffer'[g] = 0 .. keyMax'[g] - 1
          <6>1. CASE g = h
            BY <3>1, <3>2, <4>0, <5>1, <6>1
          <6>2. CASE g # h
            BY <3>1, <3>2, <4>0, <5>1, <6>2
          <6> QED
            BY <6>1, <6>2
        <5> QED
          BY <3>1, <3>2, <4>0, <5>1, <5>2
      <4> QED
        BY <4>1, <4>2
    <3> QED
      BY <3>1, <3>3 DEF SupportTypeOK, keyVars, Holders
  <2> QED
    BY <2>1, <2>2
<1>2. ASSUME NEW e \in Endpoints, DestroyEndpoint(e) PROVE SupportTypeOK'
  <2> SUFFICES ASSUME NEW h, h = Holder(e) PROVE SupportTypeOK'
    OBVIOUS
  <2>1. /\ h \in Holders /\ UNCHANGED <<case, desc, keyVars>> /\ endpoint[e] # Closed
        /\ endpoint' \in [Endpoints -> {Closed} \cup [asked : RmwQos, qos : EntityQos]]
        /\ users' = [users EXCEPT ![h] = IF users[h] = 1 THEN 0 ELSE @ - 1]
        /\ IF users[h] = 1 THEN /\ keyMax' = [keyMax EXCEPT ![h] = 0]
                               /\ buffer' = [buffer EXCEPT ![h] = <<>>]
           ELSE UNCHANGED <<keyMax, buffer>>
    BY <1>2, DestroyFacts
  <2>2. users[h] > 0
    BY <2>1, InUse
  <2>3. users' \in [Holders -> Nat] /\ keyMax' \in [Holders -> Nat] /\ DOMAIN buffer' = Holders
    BY <2>1, <2>2 DEF SupportTypeOK
  <2>4. \A g \in Holders : DOMAIN buffer'[g] = 0 .. keyMax'[g] - 1
    BY <2>1, NewBuffer DEF SupportTypeOK
  <2> QED
    BY <2>1, <2>3, <2>4 DEF SupportTypeOK, keyVars, Holders
<1>3. ASSUME NEW t \in Writers, NEW e \in Endpoints, NEW msg \in Keys(case), BeginKey(t, e, msg)
      PROVE  SupportTypeOK'
  <2>1. \A g \in Holders : DOMAIN buffer'[g] = 0 .. keyMax'[g] - 1
    BY <1>3, RoomFacts DEF SupportTypeOK
  <2>2. keyMax' \in [Holders -> Nat] /\ DOMAIN buffer' = Holders
    BY <1>3, RoomFacts
  <2>3. thread' \in [Writers -> {Idle} \cup KeyThread]
    BY <1>3, BeginFacts
  <2>4. UNCHANGED <<case, desc, users, endpoint>> /\ lock' \in [Participants -> Writers \cup {None}]
    BY <1>3, HolderTyped DEF BeginKey, SupportTypeOK
  <2> QED
    BY <2>1, <2>2, <2>3, <2>4 DEF SupportTypeOK, Holders, KeyThread
<1>4. ASSUME NEW t \in Writers, WriteKey(t) PROVE SupportTypeOK'
  <2> SUFFICES ASSUME NEW h, h = Holder(thread[t].e), NEW key, key = KeyStream(case, thread[t].msg)
               PROVE  SupportTypeOK'
    OBVIOUS
  <2>1. /\ thread[t] # Idle /\ thread[t].msg \in Keys(case) /\ h \in Holders
        /\ UNCHANGED <<case, desc, users, keyMax, endpoint>> /\ DOMAIN buffer' = Holders
        /\ \A g \in Holders : DOMAIN buffer'[g] = DOMAIN buffer[g]
    BY <1>4, WriteFacts, OverwriteFacts
  <2>2. thread' \in [Writers -> {Idle} \cup KeyThread] /\ lock' \in [Participants -> Writers \cup {None}]
    <3>1. CASE key.at > keyMax[h] /\ Computed(t, Thrown)
      BY <2>1, <3>1, ComputedFacts
    <3>2. CASE thread' = [thread EXCEPT ![t].step = "written", ![t].end = key.at] /\ UNCHANGED lock
      <4>1. key.at \in Nat /\ thread[t].step = "grown"
        BY <1>4, <2>1, DescTyped DEF WriteKey
      <4> QED
        BY <3>2, <4>1, WrittenFacts DEF SupportTypeOK
    <3> QED
      BY <1>4, <3>1, <3>2, WriteFacts
  <2> QED
    BY <2>1, <2>2 DEF SupportTypeOK, Holders, KeyThread
<1>5. ASSUME NEW t \in Writers, HashKey(t) PROVE SupportTypeOK'
  <2>1. thread[t] # Idle
    BY <1>5, ThreadKinds DEF HashKey
  <2>2. thread' \in [Writers -> {Idle} \cup KeyThread] /\ lock' \in [Participants -> Writers \cup {None}]
    BY <1>5, <2>1, ComputedFacts DEF HashKey
  <2> QED
    BY <1>5, <2>2 DEF SupportTypeOK, Holders, KeyThread, HashKey
<1>6. CASE UNCHANGED supportVars
  BY <1>6 DEF supportVars, keyVars, SupportTypeOK, Holders
<1> QED
  BY <1>1, <1>2, <1>3, <1>4, <1>5, <1>6 DEF SupportNext

\* The case and its description are those of the initial state.
LEMMA CaseStays ==
  ASSUME SupportTypeOK, [SupportNext]_supportVars
  PROVE  UNCHANGED <<case, desc>> /\ \A e \in Endpoints : Holder(e)' = Holder(e)
<1>1. UNCHANGED <<case, desc>>
  BY DEF SupportNext, supportVars, CreateEndpoint, DestroyEndpoint, BeginKey, WriteKey, HashKey
<1> QED
  BY <1>1 DEF Holder, HolderOf

\* There is room in the buffers after every step.
LEMMA RoomNext ==
  ASSUME SupportTypeOK, UsersCounted, BufferHasRoom, [SupportNext]_supportVars
  PROVE  BufferHasRoom'
<1>0. /\ users \in [Holders -> Nat] /\ keyMax \in [Holders -> Nat] /\ desc.keyMax \in Nat
      /\ Holders' = Holders /\ UNCHANGED desc
  BY DescTyped, CaseStays DEF SupportTypeOK, Holders
<1>1. ASSUME NEW e \in Endpoints, NEW profile \in Profiles(case, e), CreateEndpoint(e, profile)
      PROVE  BufferHasRoom'
  <2>1. CASE EndpointQos(profile) = Refused
    BY <1>0, <1>1, <2>1 DEF CreateEndpoint, BufferHasRoom
  <2>2. CASE EndpointQos(profile) # Refused
    <3> SUFFICES ASSUME NEW h, h = Holder(e), NEW n, n = desc.keyMax PROVE BufferHasRoom'
      OBVIOUS
    <3>1. /\ h \in Holders /\ users' = [users EXCEPT ![h] = @ + 1]
          /\ users[h] > 0 => UNCHANGED keyMax
          /\ ~(users[h] > 0) => keyMax' = [keyMax EXCEPT ![h] = n]
      BY <1>1, <2>2, CreateFacts
    <3>2. CASE users[h] > 0
      BY <1>0, <3>1, <3>2 DEF BufferHasRoom
    <3>3. CASE ~(users[h] > 0)
      BY <1>0, <3>1, <3>3 DEF BufferHasRoom
    <3> QED
      BY <3>2, <3>3
  <2> QED
    BY <2>1, <2>2
<1>2. ASSUME NEW e \in Endpoints, DestroyEndpoint(e) PROVE BufferHasRoom'
  <2> SUFFICES ASSUME NEW h, h = Holder(e) PROVE BufferHasRoom'
    OBVIOUS
  <2>1. /\ h \in Holders /\ users' = [users EXCEPT ![h] = IF users[h] = 1 THEN 0 ELSE @ - 1]
        /\ users[h] = 1 => keyMax' = [keyMax EXCEPT ![h] = 0]
        /\ users[h] # 1 => UNCHANGED keyMax
        /\ endpoint[e] # Closed
    BY <1>2, DestroyFacts
  <2>2. users[h] > 0
    BY <2>1, InUse
  <2>3. CASE users[h] = 1
    BY <1>0, <2>1, <2>3 DEF BufferHasRoom
  <2>4. CASE users[h] # 1
    BY <1>0, <2>1, <2>2, <2>4 DEF BufferHasRoom
  <2> QED
    BY <2>3, <2>4
<1>3. ASSUME NEW t \in Writers, NEW e \in Endpoints, NEW msg \in Keys(case), BeginKey(t, e, msg)
      PROVE  BufferHasRoom'
  <2> SUFFICES ASSUME NEW h, h = Holder(e) PROVE BufferHasRoom'
    OBVIOUS
  <2>1. /\ h \in Holders /\ keyMax' \in [Holders -> Nat]
        /\ \A g \in Holders \ {h} : keyMax'[g] = keyMax[g]
        /\ keyMax'[h] >= keyMax[h] /\ (~desc.keyUnbounded => keyMax'[h] = keyMax[h])
    BY <1>3, RoomFacts
  <2>2. UNCHANGED users
    BY <1>3 DEF BeginKey
  <2>3. ASSUME NEW g \in Holders, users[g] > 0
        PROVE  keyMax'[g] >= desc.keyMax /\ (~desc.keyUnbounded => keyMax'[g] = desc.keyMax)
    BY <1>0, <2>1, <2>3 DEF BufferHasRoom
  <2> QED
    BY <1>0, <2>2, <2>3 DEF BufferHasRoom
<1>4. CASE UNCHANGED <<users, keyMax>>
  BY <1>0, <1>4 DEF BufferHasRoom
<1>5. ASSUME NEW t \in Writers, WriteKey(t) \/ HashKey(t) PROVE BufferHasRoom'
  BY <1>4, <1>5 DEF WriteKey, HashKey
<1> QED
  BY <1>1, <1>2, <1>3, <1>4, <1>5 DEF SupportNext, supportVars

\* A fixed key never writes its padding.
LEMMA PaddingNext ==
  ASSUME SupportTypeOK, UsersCounted, PaddingIsZero, [SupportNext]_supportVars
  PROVE  PaddingIsZero'
<1> SUFFICES ASSUME KeyIsFixed(case), NEW g \in Holders, NEW m \in Keys(case), NEW B,
                    B = DOMAIN KeyStream(case, m).bytes, NEW k \in DOMAIN buffer'[g] \ B
             PROVE  buffer'[g][k] = 0
  BY CaseStays DEF PaddingIsZero, Holders
<1>0. DOMAIN buffer = Holders /\ \A j \in DOMAIN buffer[g] \ B : buffer[g][j] = 0
  BY DEF PaddingIsZero, SupportTypeOK
<1>1. ASSUME NEW e \in Endpoints, NEW profile \in Profiles(case, e), CreateEndpoint(e, profile)
      PROVE  buffer'[g][k] = 0
  <2>1. CASE EndpointQos(profile) = Refused
    BY <1>0, <1>1, <2>1 DEF CreateEndpoint
  <2>2. CASE EndpointQos(profile) # Refused
    <3> SUFFICES ASSUME NEW h, h = Holder(e), NEW new, new = Resized(<<>>, desc.keyMax), NEW n, n = desc.keyMax
                 PROVE  buffer'[g][k] = 0
      OBVIOUS
    <3>1. /\ h \in Holders
          /\ users[h] > 0 => UNCHANGED buffer
          /\ ~(users[h] > 0) => buffer' = [buffer EXCEPT ![h] = new]
      BY <1>1, <2>2, CreateFacts
    <3>2. \A j \in DOMAIN new : new[j] = 0
      BY DescTyped, NewBuffer
    <3> QED
      BY <1>0, <3>1, <3>2
  <2> QED
    BY <2>1, <2>2
<1>2. ASSUME NEW e \in Endpoints, DestroyEndpoint(e) PROVE buffer'[g][k] = 0
  <2> SUFFICES ASSUME NEW h, h = Holder(e), NEW new, new = <<>> PROVE buffer'[g][k] = 0
    OBVIOUS
  <2>1. /\ h \in Holders
        /\ users[h] = 1 => buffer' = [buffer EXCEPT ![h] = new]
        /\ users[h] # 1 => UNCHANGED buffer
    BY <1>2, DestroyFacts
  <2>2. DOMAIN new = {}
    BY NewBuffer
  <2> QED
    BY <1>0, <2>1, <2>2
<1>3. ASSUME NEW t \in Writers, NEW e \in Endpoints, NEW msg \in Keys(case), BeginKey(t, e, msg)
      PROVE  buffer'[g][k] = 0
  <2> SUFFICES ASSUME NEW h, h = Holder(e) PROVE buffer'[g][k] = 0
    OBVIOUS
  <2>1. /\ \A f \in Holders \ {h} : buffer'[f] = buffer[f]
        /\ \A j \in DOMAIN buffer[h] : buffer'[h][j] = buffer[h][j]
        /\ \A j \in DOMAIN buffer'[h] : j \in DOMAIN buffer[h] \/ buffer'[h][j] = 0
    BY <1>3, RoomFacts
  <2> QED
    BY <1>0, <2>1
<1>4. ASSUME NEW t \in Writers, WriteKey(t) PROVE buffer'[g][k] = 0
  <2> SUFFICES ASSUME NEW h, h = Holder(thread[t].e), NEW bytes, bytes = KeyStream(case, thread[t].msg).bytes
               PROVE  buffer'[g][k] = 0
    OBVIOUS
  <2>1. /\ h \in Holders /\ DOMAIN buffer'[h] = DOMAIN buffer[h]
        /\ \A f \in Holders \ {h} : buffer'[f] = buffer[f]
        /\ \A j \in DOMAIN buffer[h] : j \notin DOMAIN bytes => buffer'[h][j] = buffer[h][j]
    BY <1>4, OverwriteFacts
  <2>2. case \in Cases /\ thread[t].msg \in Keys(case)
    BY <1>4, DescTyped, WriteFacts
  <2>3. DOMAIN bytes = B
    BY <2>2, KeyBytesAssumption
  <2> QED
    BY <1>0, <2>1, <2>3
<1>5. CASE UNCHANGED buffer
  BY <1>0, <1>5
<1>6. ASSUME NEW t \in Writers, HashKey(t) PROVE buffer'[g][k] = 0
  BY <1>5, <1>6 DEF HashKey
<1> QED
  BY <1>1, <1>2, <1>3, <1>4, <1>5, <1>6 DEF SupportNext, supportVars

\* A profile's QoS is reported as it was filled.
LEMMA QosNext ==
  ASSUME SupportTypeOK, QosFilled, [SupportNext]_supportVars
  PROVE  QosFilled'
<1> SUFFICES ASSUME NEW f \in Endpoints, endpoint'[f] # Closed
             PROVE  (endpoint[f].qos = EndpointQos(endpoint[f].asked))' /\ endpoint'[f].qos # Refused
  BY DEF QosFilled, Closed
<1>0. \A profile : EndpointQos(profile)' = EndpointQos(profile)
  BY CaseStays DEF EndpointQos
<1>1. CASE endpoint'[f] = endpoint[f]
  BY <1>0, <1>1 DEF QosFilled
<1>2. ASSUME NEW e \in Endpoints, NEW profile \in Profiles(case, e), CreateEndpoint(e, profile)
      PROVE  (endpoint[f].qos = EndpointQos(endpoint[f].asked))' /\ endpoint'[f].qos # Refused
  <2>1. CASE EndpointQos(profile) = Refused
    BY <1>1, <1>2, <2>1 DEF CreateEndpoint
  <2>2. CASE EndpointQos(profile) # Refused
    <3>1. /\ endpoint'[e] = [asked |-> profile, qos |-> EndpointQos(profile)]
          /\ \A d \in Endpoints \ {e} : endpoint'[d] = endpoint[d]
      BY <1>2, <2>2, CreateFacts
    <3>2. CASE f = e
      BY <1>0, <2>2, <3>1, <3>2
    <3> QED
      BY <1>1, <3>1, <3>2
  <2> QED
    BY <2>1, <2>2
<1>3. ASSUME NEW e \in Endpoints, DestroyEndpoint(e)
      PROVE  (endpoint[f].qos = EndpointQos(endpoint[f].asked))' /\ endpoint'[f].qos # Refused
  <2>1. endpoint'[e] = Closed /\ \A d \in Endpoints \ {e} : endpoint'[d] = endpoint[d]
    BY <1>3, DestroyFacts
  <2> QED
    BY <1>1, <2>1
<1>4. CASE UNCHANGED endpoint
  BY <1>1, <1>4
<1> QED
  BY <1>2, <1>3, <1>4 DEF SupportNext, supportVars, BeginKey, WriteKey, HashKey

------------------------------------------------------------------------------
(***************************************************************************)
(* The threads that compute keys.                                          *)
(***************************************************************************)

\* Where a thread at work is.
LEMMA ThreadTyped ==
  ASSUME SupportTypeOK, NEW t \in Writers, thread[t] # Idle
  PROVE  /\ thread[t].e \in Endpoints /\ thread[t].msg \in Keys(case)
         /\ thread[t].end \in Nat /\ thread[t].alone \in BOOLEAN
         /\ ParticipantOf(thread[t].e) \in Participants /\ Holder(thread[t].e) \in Holders
BY ThreadKinds, HolderTyped DEF KeyThread

\* Who stops working stops overlapping.
LEMMA OverlappingLess ==
  ASSUME UNCHANGED case, NEW u \in Writers, NEW p,
         \A v \in Writers \ {u} : thread'[v] # Idle => thread[v] # Idle /\ thread'[v].e = thread[v].e
  PROVE  Overlapping(u, p)' \subseteq Overlapping(u, p)
BY DEF Overlapping, Holder, HolderOf, Idle

\* A thread holds the mutex of its participant until it is done.
LEMMA ThreadsNext ==
  ASSUME SupportTypeOK, KeyThreads, [SupportNext]_supportVars
  PROVE  KeyThreads'
<1> SUFFICES ASSUME NEW u \in Writers, thread'[u] # Idle, NEW P, P = ParticipantOf(thread'[u].e)
             PROVE  /\ endpoint'[thread'[u].e] # Closed
                    /\ lock'[P] = u
                    /\ thread'[u].alone => Overlapping(u, P)' = {}
  BY DEF KeyThreads, Idle, Closed, Overlapping, Holder, HolderOf
<1>0. UNCHANGED case /\ lock \in [Participants -> Writers \cup {None}] /\ u # None
  BY CaseStays, EndpointAssumption DEF SupportTypeOK
<1>1. thread[u] # Idle /\ thread'[u].e = thread[u].e =>
        /\ endpoint[thread[u].e] # Closed /\ lock[P] = u /\ P \in Participants
        /\ thread[u].e \in Endpoints
        /\ thread[u].alone => Overlapping(u, P) = {}
  BY ThreadTyped DEF KeyThreads
<1>2. CASE /\ UNCHANGED <<lock, thread>>
           /\ \A e \in Endpoints :
                (\E t \in Writers : thread[t] # Idle /\ thread[t].e = e) /\ endpoint[e] # Closed
                  => endpoint'[e] # Closed
  <2>1. thread[u] # Idle /\ endpoint'[thread[u].e] # Closed
    BY <1>1, <1>2
  <2>2. Overlapping(u, P)' \subseteq Overlapping(u, P)
    BY <1>0, <1>2 DEF Overlapping, Holder, HolderOf
  <2> QED
    BY <1>1, <1>2, <2>1, <2>2
<1>3. ASSUME NEW e \in Endpoints, NEW profile \in Profiles(case, e), CreateEndpoint(e, profile)
      PROVE  /\ UNCHANGED <<lock, thread>>
             /\ \A f \in Endpoints : endpoint[f] # Closed => endpoint'[f] # Closed
  <2>1. CASE EndpointQos(profile) = Refused
    BY <1>3, <2>1 DEF CreateEndpoint, keyVars
  <2>2. CASE EndpointQos(profile) # Refused
    <3>1. /\ UNCHANGED <<case, desc, keyVars>> /\ endpoint'[e] # Closed
          /\ \A f \in Endpoints \ {e} : endpoint'[f] = endpoint[f]
      BY <1>3, <2>2, CreateFacts
    <3> QED
      BY <3>1 DEF keyVars
  <2> QED
    BY <2>1, <2>2
<1>4. ASSUME NEW e \in Endpoints, DestroyEndpoint(e)
      PROVE  /\ UNCHANGED <<lock, thread>>
             /\ \A f \in Endpoints \ {e} : endpoint'[f] = endpoint[f]
             /\ \A t \in Writers : thread[t] # Idle => thread[t].e # e
  BY <1>4, DestroyFacts DEF keyVars
<1>5. ASSUME NEW t \in Writers, NEW e \in Endpoints, NEW msg \in Keys(case), BeginKey(t, e, msg)
      PROVE  /\ endpoint'[thread'[u].e] # Closed
             /\ lock'[P] = u
             /\ thread'[u].alone => Overlapping(u, P)' = {}
  <2> SUFFICES ASSUME NEW p, p = ParticipantOf(e)
               PROVE  /\ endpoint'[thread'[u].e] # Closed
                      /\ lock'[P] = u
                      /\ thread'[u].alone => Overlapping(u, P)' = {}
    OBVIOUS
  <2>0. /\ thread[t] = Idle
        /\ thread'[t] = [step |-> "grown", e |-> e, msg |-> msg, end |-> 0, alone |-> Overlapping(t, p) = {}]
        /\ \A v \in Writers \ {t} :
              /\ thread'[v] # Idle <=> thread[v] # Idle
              /\ thread[v] # Idle =>
                   /\ thread'[v].e = thread[v].e
                   /\ thread'[v].alone = (thread[v].alone /\ v \notin Overlapping(t, p))
    BY <1>5, BeginFacts
  <2>1. /\ endpoint[e] # Closed /\ lock[p] = None /\ lock' = [lock EXCEPT ![p] = t] /\ UNCHANGED endpoint
        /\ p \in Participants
    BY <1>5, HolderTyped DEF BeginKey, KeyLockFree
  <2>2. CASE u = t
    <3>1. thread'[u].e = e /\ thread'[u].alone = (Overlapping(t, p) = {})
      BY <2>0, <2>2
    <3>2. Overlapping(u, p)' \subseteq Overlapping(u, p)
      BY <1>0, <2>0, <2>2, OverlappingLess
    <3> QED
      BY <1>0, <2>1, <2>2, <3>1, <3>2
  <2>3. CASE u # t
    <3>1. thread[u] # Idle /\ thread'[u].e = thread[u].e
          /\ thread'[u].alone = (thread[u].alone /\ u \notin Overlapping(t, p))
      BY <2>0, <2>3
    <3>2. P # p
      BY <1>0, <1>1, <2>1, <3>1
    <3>3. lock'[P] = u
      BY <1>0, <1>1, <2>1, <3>1, <3>2
    <3>4. ASSUME thread'[u].alone, NEW v \in Overlapping(u, P)' PROVE FALSE
      <4>0. /\ v \in Writers \ {u} /\ thread'[v] # Idle /\ ParticipantOf(thread'[v].e) # P
            /\ Holder(thread'[v].e) = HolderOf(P)
        BY <1>0, <3>4 DEF Overlapping, Holder, HolderOf, Idle
      <4>1. CASE v = t
        <5>1. HolderOf(p) = HolderOf(P)
          BY <2>0, <4>0, <4>1 DEF Holder
        <5>2. u \in Overlapping(t, p)
          BY <2>3, <3>1, <3>2, <5>1 DEF Overlapping, Holder
        <5> QED
          BY <3>1, <3>4, <5>2
      <4>2. CASE v # t
        <5>1. v \in Overlapping(u, P)
          BY <2>0, <4>0, <4>2 DEF Overlapping
        <5> QED
          BY <1>1, <3>1, <3>4, <5>1
      <4> QED
        BY <4>1, <4>2
    <3> QED
      BY <1>1, <2>1, <3>1, <3>3, <3>4
  <2> QED
    BY <2>2, <2>3
<1>6. ASSUME NEW t \in Writers, thread[t] # Idle, NEW handle, Computed(t, handle), UNCHANGED endpoint
      PROVE  /\ endpoint'[thread'[u].e] # Closed
             /\ lock'[P] = u
             /\ thread'[u].alone => Overlapping(u, P)' = {}
  <2>1. /\ thread'[t] = Idle /\ \A v \in Writers \ {t} : thread'[v] = thread[v]
        /\ lock' = [lock EXCEPT ![ParticipantOf(thread[t].e)] = None]
    BY <1>6, ComputedFacts
  <2>2. lock[ParticipantOf(thread[t].e)] = t
    BY <1>6 DEF KeyThreads
  <2>3. u # t /\ thread'[u] = thread[u]
    BY <2>1
  <2>4. lock'[P] = u
    BY <1>0, <1>1, <2>1, <2>2, <2>3
  <2>5. Overlapping(u, P)' \subseteq Overlapping(u, P)
    BY <1>0, <2>1, OverlappingLess
  <2> QED
    BY <1>1, <1>6, <2>3, <2>4, <2>5
<1>7. ASSUME NEW t \in Writers, WriteKey(t)
      PROVE  /\ endpoint'[thread'[u].e] # Closed
             /\ lock'[P] = u
             /\ thread'[u].alone => Overlapping(u, P)' = {}
  <2> SUFFICES ASSUME NEW key, key = KeyStream(case, thread[t].msg)
               PROVE  /\ endpoint'[thread'[u].e] # Closed
                      /\ lock'[P] = u
                      /\ thread'[u].alone => Overlapping(u, P)' = {}
    OBVIOUS
  <2>1. /\ thread[t] # Idle /\ UNCHANGED endpoint /\ thread[t].msg \in Keys(case)
        /\ \/ Computed(t, Thrown)
           \/ /\ thread' = [thread EXCEPT ![t].step = "written", ![t].end = key.at]
              /\ UNCHANGED lock
    BY <1>7, WriteFacts
  <2>2. CASE thread' = [thread EXCEPT ![t].step = "written", ![t].end = key.at] /\ UNCHANGED lock
    <3>1. key.at \in Nat /\ thread[t].step = "grown"
      BY <1>7, <2>1, DescTyped DEF WriteKey
    <3>2. /\ thread[t] # Idle /\ thread'[t].e = thread[t].e /\ thread'[t].alone = thread[t].alone
          /\ \A v \in Writers \ {t} : thread'[v] = thread[v]
      BY <2>2, <3>1, WrittenFacts
    <3>3. thread[u] # Idle /\ thread'[u].e = thread[u].e /\ thread'[u].alone = thread[u].alone
      BY <3>2
    <3>4. Overlapping(u, P)' \subseteq Overlapping(u, P)
      BY <1>0, <3>2, OverlappingLess
    <3> QED
      BY <1>1, <2>1, <2>2, <3>3, <3>4
  <2> QED
    BY <1>6, <2>1, <2>2
<1>8. ASSUME NEW t \in Writers, HashKey(t)
      PROVE  /\ endpoint'[thread'[u].e] # Closed
             /\ lock'[P] = u
             /\ thread'[u].alone => Overlapping(u, P)' = {}
  <2>1. thread[t] # Idle
    BY <1>8, ThreadKinds DEF HashKey
  <2> QED
    BY <1>6, <1>8, <2>1 DEF HashKey
<1>9. CASE UNCHANGED supportVars
  BY <1>2, <1>9 DEF supportVars, keyVars
<1> QED
  BY <1>2, <1>3, <1>4, <1>5, <1>7, <1>8, <1>9 DEF SupportNext

\* A thread's key stays while nothing is written over it.
LEMMA KeyKept ==
  ASSUME SupportTypeOK, UNCHANGED case, NEW u \in Writers, thread[u] # Idle, KeyWrittenBy(u),
         thread'[u].e = thread[u].e, thread'[u].msg = thread[u].msg,
         thread'[u].step = thread[u].step, thread'[u].end = thread[u].end,
         thread'[u].alone => thread[u].alone,
         NEW h, h = Holder(thread[u].e), keyMax'[h] \in Nat, keyMax'[h] >= keyMax[h],
         thread'[u].alone => \A k \in DOMAIN buffer[h] : buffer'[h][k] = buffer[h][k]
  PROVE  KeyWrittenBy(u)'
<1> SUFFICES ASSUME NEW key, key = KeyStream(case, thread[u].msg) PROVE KeyWrittenBy(u)'
  OBVIOUS
<1>1. /\ h \in Holders /\ key.at \in Nat /\ DOMAIN key.bytes \subseteq 0 .. key.at - 1
      /\ keyMax[h] \in Nat /\ DOMAIN buffer[h] = 0 .. keyMax[h] - 1
  BY ThreadTyped, DescTyped DEF SupportTypeOK
<1>2. Holder(thread[u].e)' = h
  BY DEF Holder, HolderOf
<1>3. thread'[u].step = "grown" => key.at <= keyMax'[h] \/ KeyIsOpen(case)
  BY <1>1 DEF KeyWrittenBy, Fits
<1>4. ASSUME thread'[u].step = "written"
      PROVE  /\ thread'[u].end = key.at /\ key.at <= keyMax'[h]
             /\ thread'[u].alone => \A k \in DOMAIN key.bytes : buffer'[h][k] = key.bytes[k]
  <2>1. /\ thread[u].end = key.at /\ key.at <= keyMax[h]
        /\ thread[u].alone => \A k \in DOMAIN key.bytes : buffer[h][k] = key.bytes[k]
    BY <1>4 DEF KeyWrittenBy, Fits
  <2>2. \A k \in DOMAIN key.bytes : k \in DOMAIN buffer[h]
    BY <1>1, <2>1
  <2> QED
    BY <1>1, <2>1, <2>2
<1> QED
  BY <1>2, <1>3, <1>4 DEF KeyWrittenBy, Fits

\* Who works is not disturbed by an endpoint created or destroyed.
LEMMA HolderKept ==
  ASSUME SupportTypeOK, UsersCounted, KeyThreads, NEW u \in Writers, thread[u] # Idle,
         NEW e \in Endpoints,
         (\E profile \in Profiles(case, e) : CreateEndpoint(e, profile)) \/ DestroyEndpoint(e),
         NEW h, h = Holder(thread[u].e)
  PROVE  UNCHANGED <<lock, thread, handles>> /\ keyMax'[h] = keyMax[h] /\ buffer'[h] = buffer[h]
<1>0. /\ h \in Holders /\ keyMax \in [Holders -> Nat] /\ DOMAIN buffer = Holders /\ thread[u].e \in Endpoints
      /\ endpoint[thread[u].e] # Closed /\ users[h] > 0 /\ users \in [Holders -> Nat]
  BY ThreadTyped, InUse DEF SupportTypeOK, KeyThreads
<1>1. ASSUME NEW profile \in Profiles(case, e), CreateEndpoint(e, profile)
      PROVE  UNCHANGED keyVars /\ keyMax'[h] = keyMax[h] /\ buffer'[h] = buffer[h]
  <2>1. CASE EndpointQos(profile) = Refused
    BY <1>1, <2>1 DEF CreateEndpoint
  <2>2. CASE EndpointQos(profile) # Refused
    <3> SUFFICES ASSUME NEW g, g = Holder(e), NEW new, new = Resized(<<>>, desc.keyMax)
                 PROVE  UNCHANGED keyVars /\ keyMax'[h] = keyMax[h] /\ buffer'[h] = buffer[h]
      OBVIOUS
    <3>1. /\ UNCHANGED <<case, desc, keyVars>>
          /\ users[g] > 0 => UNCHANGED <<keyMax, buffer>>
          /\ ~(users[g] > 0) => /\ keyMax' = [keyMax EXCEPT ![g] = desc.keyMax]
                                /\ buffer' = [buffer EXCEPT ![g] = new]
      BY <1>1, <2>2, CreateFacts
    <3> QED
      BY <1>0, <3>1
  <2> QED
    BY <2>1, <2>2
<1>2. ASSUME DestroyEndpoint(e) PROVE UNCHANGED keyVars /\ keyMax'[h] = keyMax[h] /\ buffer'[h] = buffer[h]
  <2> SUFFICES ASSUME NEW g, g = Holder(e), NEW none, none = <<>>
               PROVE  UNCHANGED keyVars /\ keyMax'[h] = keyMax[h] /\ buffer'[h] = buffer[h]
    OBVIOUS
  <2>1. /\ UNCHANGED <<case, desc, keyVars>> /\ endpoint[e] # Closed /\ thread[u].e # e
        /\ users[g] = 1 => /\ keyMax' = [keyMax EXCEPT ![g] = 0]
                           /\ buffer' = [buffer EXCEPT ![g] = none]
        /\ users[g] # 1 => UNCHANGED <<keyMax, buffer>>
    BY <1>2, DestroyFacts
  <2>2. ASSUME g = h PROVE users[g] # 1
    <3> SUFFICES ASSUME NEW f \in Endpoints \ {e}, f = thread[u].e PROVE users[Holder(e)] # 1
      BY <1>0, <2>1
    <3>1. users[Holder(e)] > 1
      BY <1>0, <2>1, <2>2, InUseByOther
    <3> QED
      BY <3>1
  <2> QED
    BY <1>0, <2>1, <2>2
<1> QED
  BY <1>1, <1>2 DEF keyVars

\* Two threads never compute a key of one participant.
LEMMA OneByParticipant ==
  ASSUME KeyThreads, NEW t \in Writers, NEW u \in Writers \ {t}, thread[t] # Idle, thread[u] # Idle
  PROVE  ParticipantOf(thread[t].e) # ParticipantOf(thread[u].e)
BY DEF KeyThreads

\* A key written stays until it is hashed, unless a thread of another
\* participant writes in the same buffer.
LEMMA WrittenNext ==
  ASSUME SupportTypeOK, UsersCounted, BufferHasRoom, KeyThreads, KeyWritten, [SupportNext]_supportVars
  PROVE  KeyWritten'
<1> SUFFICES ASSUME NEW u \in Writers PROVE KeyWrittenBy(u)'
  BY DEF KeyWritten
<1>0. KeyWrittenBy(u) /\ UNCHANGED case /\ keyMax \in [Holders -> Nat]
  BY CaseStays DEF KeyWritten, SupportTypeOK
<1>1. CASE thread'[u] = Idle
  BY <1>1 DEF KeyWrittenBy, Idle
<1>2. ASSUME thread[u] # Idle, thread'[u] = thread[u],
             NEW h, h = Holder(thread[u].e), keyMax'[h] = keyMax[h], buffer'[h] = buffer[h]
      PROVE  KeyWrittenBy(u)'
  <2>1. keyMax'[h] \in Nat /\ keyMax'[h] >= keyMax[h]
    BY <1>0, <1>2, ThreadTyped
  <2> QED
    BY <1>0, <1>2, <2>1, KeyKept
<1>3. ASSUME NEW e \in Endpoints,
             (\E profile \in Profiles(case, e) : CreateEndpoint(e, profile)) \/ DestroyEndpoint(e)
      PROVE  KeyWrittenBy(u)'
  <2>1. CASE thread[u] = Idle
    <3>1. UNCHANGED thread
      BY <1>3 DEF CreateEndpoint, DestroyEndpoint, keyVars
    <3> QED
      BY <1>1, <2>1, <3>1
  <2>2. CASE thread[u] # Idle
    <3> SUFFICES ASSUME NEW h, h = Holder(thread[u].e) PROVE KeyWrittenBy(u)'
      OBVIOUS
    <3>1. UNCHANGED <<lock, thread, handles>> /\ keyMax'[h] = keyMax[h] /\ buffer'[h] = buffer[h]
      BY <1>3, <2>2, HolderKept
    <3> QED
      BY <1>2, <2>2, <3>1
  <2> QED
    BY <2>1, <2>2
<1>4. ASSUME NEW t \in Writers, NEW e \in Endpoints, NEW msg \in Keys(case), BeginKey(t, e, msg)
      PROVE  KeyWrittenBy(u)'
  <2> SUFFICES ASSUME NEW h, h = Holder(e) PROVE KeyWrittenBy(u)'
    OBVIOUS
  <2>1. /\ h \in Holders /\ keyMax' \in [Holders -> Nat]
        /\ \A g \in Holders \ {h} : keyMax'[g] = keyMax[g] /\ buffer'[g] = buffer[g]
        /\ keyMax'[h] >= keyMax[h]
        /\ ~desc.keyUnbounded => keyMax'[h] = keyMax[h]
        /\ desc.keyUnbounded => keyMax'[h] >= KeyRoom(case, msg)
        /\ \A k \in DOMAIN buffer[h] : buffer'[h][k] = buffer[h][k]
    BY <1>4, RoomFacts
  <2>2. CASE u = t
    <3>0. thread'[t] = [step |-> "grown", e |-> e, msg |-> msg, end |-> 0,
                        alone |-> Overlapping(t, ParticipantOf(e)) = {}]
      BY <1>4, BeginFacts
    <3>1. thread'[t].step = "grown" /\ thread'[t].e = e /\ thread'[t].msg = msg
      BY <3>0
    <3>2. keyMax[h] >= desc.keyMax /\ (~desc.keyUnbounded => keyMax[h] = desc.keyMax)
      <4>1. endpoint[e] # Closed
        BY <1>4 DEF BeginKey
      <4>2. users[h] > 0
        BY <4>1, InUse
      <4> QED
        BY <2>1, <4>2 DEF BufferHasRoom
    <3> SUFFICES ASSUME NEW at, at = KeyStream(case, msg).at, NEW room, room = KeyRoom(case, msg)
                 PROVE  KeyWrittenBy(u)'
      OBVIOUS
    <3>3. /\ at \in Nat /\ room \in Nat /\ desc.keyMax \in Nat
          /\ KeyIsOpen(case) \/ at <= IF desc.keyUnbounded THEN Larger(desc.keyMax, room) ELSE desc.keyMax
      BY DescTyped, KeyRoomAssumption
    <3>4. KeyIsOpen(case) \/ at <= keyMax'[h]
      BY <1>0, <2>1, <3>2, <3>3 DEF Larger
    <3>5. Holder(thread[u].e)' = h
      BY <1>0, <2>2, <3>1 DEF Holder, HolderOf
    <3> QED
      BY <1>0, <2>2, <3>1, <3>4, <3>5 DEF KeyWrittenBy, Fits
  <2>3. CASE u # t /\ thread[u] = Idle
    BY <1>1, <1>4, <2>3, BeginFacts
  <2>4. CASE u # t /\ thread[u] # Idle
    <3>1. /\ thread'[u].e = thread[u].e /\ thread'[u].msg = thread[u].msg
          /\ thread'[u].step = thread[u].step /\ thread'[u].end = thread[u].end
          /\ thread'[u].alone => thread[u].alone
      BY <1>4, <2>4, BeginFacts
    <3> SUFFICES ASSUME NEW g, g = Holder(thread[u].e) PROVE KeyWrittenBy(u)'
      OBVIOUS
    <3>2. /\ g \in Holders /\ keyMax'[g] \in Nat /\ keyMax'[g] >= keyMax[g]
          /\ \A k \in DOMAIN buffer[g] : buffer'[g][k] = buffer[g][k]
      BY <1>0, <2>1, <2>4, ThreadTyped
    <3> QED
      BY <1>0, <2>4, <3>1, <3>2, KeyKept
  <2> QED
    BY <2>2, <2>3, <2>4
<1>5. ASSUME NEW t \in Writers, WriteKey(t) PROVE KeyWrittenBy(u)'
  <2> SUFFICES ASSUME NEW h, h = Holder(thread[t].e), NEW key, key = KeyStream(case, thread[t].msg),
                      NEW bytes, bytes = KeyStream(case, thread[t].msg).bytes
               PROVE  KeyWrittenBy(u)'
    OBVIOUS
  <2>0. bytes = key.bytes
    OBVIOUS
  <2>1. /\ thread[t] # Idle /\ thread[t].msg \in Keys(case) /\ thread[t].e \in Endpoints /\ h \in Holders
        /\ UNCHANGED <<case, desc, users, keyMax, endpoint>>
        /\ \/ key.at > keyMax[h] /\ Computed(t, Thrown)
           \/ /\ ~(key.at > keyMax[h])
              /\ thread' = [thread EXCEPT ![t].step = "written", ![t].end = key.at]
              /\ UNCHANGED <<lock, handles>>
    BY <1>5, WriteFacts
  <2>2. /\ DOMAIN buffer' = Holders /\ DOMAIN buffer'[h] = DOMAIN buffer[h]
        /\ \A g \in Holders \ {h} : buffer'[g] = buffer[g]
        /\ \A k \in DOMAIN buffer[h] : /\ k \in DOMAIN bytes => buffer'[h][k] = bytes[k]
                                       /\ k \notin DOMAIN bytes => buffer'[h][k] = buffer[h][k]
    BY <1>5, OverwriteFacts
  <2>3. key.at \in Nat /\ DOMAIN bytes \subseteq 0 .. key.at - 1 /\ thread[t].step = "grown"
    BY <1>5, <2>0, <2>1, DescTyped DEF WriteKey
  <2>4. /\ \A v \in Writers \ {t} : thread'[v] = thread[v]
        /\ \/ thread'[t] = Idle
           \/ /\ ~(key.at > keyMax[h]) /\ thread'[t].step = "written" /\ thread'[t].end = key.at
              /\ thread'[t].e = thread[t].e /\ thread'[t].msg = thread[t].msg
    <3>1. CASE Computed(t, Thrown)
      BY <2>1, <3>1, ComputedFacts
    <3>2. CASE ~(key.at > keyMax[h]) /\ thread' = [thread EXCEPT ![t].step = "written", ![t].end = key.at]
      BY <2>3, <3>2, WrittenFacts
    <3> QED
      BY <2>1, <3>1, <3>2
  <2>5. CASE u = t /\ thread'[t] # Idle
    <3>1. key.at <= keyMax[h] /\ DOMAIN buffer[h] = 0 .. keyMax[h] - 1 /\ keyMax[h] \in Nat
      BY <1>0, <2>1, <2>3, <2>4, <2>5 DEF SupportTypeOK
    <3>2. \A k \in DOMAIN bytes : buffer'[h][k] = bytes[k]
      BY <2>2, <2>3, <3>1
    <3>3. Holder(thread[u].e)' = h
      BY <2>1, <2>4, <2>5 DEF Holder, HolderOf
    <3> QED
      BY <2>0, <2>1, <2>4, <2>5, <3>1, <3>2, <3>3 DEF KeyWrittenBy, Fits
  <2>6. CASE u # t /\ thread[u] # Idle
    <3> SUFFICES ASSUME NEW g, g = Holder(thread[u].e) PROVE KeyWrittenBy(u)'
      OBVIOUS
    <3>1. CASE g # h
      BY <1>2, <2>1, <2>2, <2>4, <2>6, <3>1, ThreadTyped
    <3>2. CASE g = h
      <4>1. t \in Overlapping(u, ParticipantOf(thread[u].e))
        BY <2>1, <2>6, <3>2, OneByParticipant DEF Overlapping, Holder
      <4>2. ~thread[u].alone
        BY <2>6, <4>1 DEF KeyThreads
      <4>3. thread'[u] = thread[u] /\ keyMax'[g] \in Nat /\ keyMax'[g] >= keyMax[g]
        BY <1>0, <2>1, <2>4, <2>6, <3>2
      <4> QED
        BY <1>0, <2>6, <4>2, <4>3, KeyKept
    <3> QED
      BY <3>1, <3>2
  <2> QED
    BY <1>1, <2>4, <2>5, <2>6
<1>6. ASSUME NEW t \in Writers, HashKey(t) PROVE KeyWrittenBy(u)'
  <2>1. thread[t] # Idle
    BY <1>6, ThreadKinds DEF HashKey
  <2>2. thread'[t] = Idle /\ \A v \in Writers \ {t} : thread'[v] = thread[v]
    BY <1>6, <2>1, ComputedFacts DEF HashKey
  <2>3. UNCHANGED <<keyMax, buffer>>
    BY <1>6 DEF HashKey
  <2> QED
    BY <1>1, <1>2, <2>2, <2>3
<1>7. CASE UNCHANGED supportVars
  BY <1>1, <1>2, <1>7 DEF supportVars, keyVars
<1> QED
  BY <1>3, <1>4, <1>5, <1>6, <1>7 DEF SupportNext

------------------------------------------------------------------------------
(***************************************************************************)
(* The handles.                                                            *)
(***************************************************************************)

\* The handle computed of a key that is in the buffer shows that key.
LEMMA HandleOfShows ==
  ASSUME SupportTypeOK, BufferHasRoom, PaddingIsZero,
         NEW h \in Holders, users[h] > 0, NEW msg \in Keys(case), NEW key, key = KeyStream(case, msg),
         key.at <= keyMax[h], \A k \in DOMAIN key.bytes : buffer[h][k] = key.bytes[k]
  PROVE  HandleOf(h, key.at) # Thrown /\ HandleShows(HandleOf(h, key.at), msg)
<1> SUFFICES ASSUME NEW at, at = key.at, NEW written, written = key.bytes,
                    NEW handle, handle = HandleOf(h, at)
             PROVE  handle # Thrown /\ HandleShows(handle, msg)
  OBVIOUS
<1>1. /\ at \in Nat /\ DOMAIN written \subseteq 0 .. at - 1 /\ desc.keyMax \in Nat
      /\ keyMax[h] \in Nat /\ at <= keyMax[h] /\ DOMAIN buffer[h] = 0 .. keyMax[h] - 1
      /\ KeyIsFixed(case) => keyMax[h] = desc.keyMax
      /\ \A k \in DOMAIN written : buffer[h][k] = written[k]
  BY DescTyped DEF BufferHasRoom, SupportTypeOK
<1>2. KeyIsFixed(case) => \A k \in 0 .. at - 1 : k \notin DOMAIN written => buffer[h][k] = 0
  BY <1>1 DEF PaddingIsZero
<1>3. CASE case.forceMd5 \/ keyMax[h] > 16
  <2>1. handle = [md5 |-> TRUE, bytes |-> [k \in 0 .. at - 1 |-> buffer[h][k]]]
    BY <1>3 DEF HandleOf
  <2> SUFFICES ASSUME NEW bytes, bytes = [k \in 0 .. at - 1 |-> buffer[h][k]]
               PROVE  handle # Thrown /\ HandleShows(handle, msg)
    OBVIOUS
  <2>2. /\ DOMAIN bytes = 0 .. at - 1 /\ bytes = [k \in DOMAIN bytes |-> bytes[k]]
        /\ \A k \in 0 .. at - 1 : bytes[k] = buffer[h][k]
    OBVIOUS
  <2>3. handle = [md5 |-> TRUE, bytes |-> bytes] /\ handle # Thrown
    BY <2>1, RecordsApart
  <2>4. handle.md5 = TRUE /\ handle.bytes = bytes
    BY <2>3
  <2>5. handle = [md5 |-> handle.md5, bytes |-> [k \in DOMAIN handle.bytes |-> handle.bytes[k]]]
    BY <2>2, <2>3, <2>4
  <2>6. KeyIsFixed(case) => handle.md5 = (case.forceMd5 \/ desc.keyMax > 16)
    BY <1>1, <1>3, <2>4
  <2>7. DOMAIN handle.bytes = IF handle.md5 THEN 0 .. at - 1 ELSE 0 .. 15
    BY <2>2, <2>4
  <2>8. \A k \in DOMAIN written : k \in DOMAIN handle.bytes /\ handle.bytes[k] = written[k]
    BY <1>1, <2>2, <2>4
  <2>9. KeyIsFixed(case) => \A k \in DOMAIN handle.bytes \ DOMAIN written : handle.bytes[k] = 0
    BY <1>2, <2>2, <2>4
  <2> QED
    BY <2>3, <2>5, <2>6, <2>7, <2>8, <2>9 DEF HandleShows
<1>4. CASE ~(case.forceMd5 \/ keyMax[h] > 16)
  <2>1. /\ handle = [md5 |-> FALSE, bytes |-> [k \in 0 .. 15 |-> IF k < at THEN buffer[h][k] ELSE 0]]
        /\ ~(keyMax[h] > 16)
    BY <1>4 DEF HandleOf
  <2> SUFFICES ASSUME NEW bytes, bytes = [k \in 0 .. 15 |-> IF k < at THEN buffer[h][k] ELSE 0]
               PROVE  handle # Thrown /\ HandleShows(handle, msg)
    OBVIOUS
  <2>2. /\ DOMAIN bytes = 0 .. 15 /\ bytes = [k \in DOMAIN bytes |-> bytes[k]]
        /\ \A k \in 0 .. 15 : bytes[k] = IF k < at THEN buffer[h][k] ELSE 0
    OBVIOUS
  <2>3. handle = [md5 |-> FALSE, bytes |-> bytes] /\ handle # Thrown
    BY <2>1, RecordsApart
  <2>4. handle.md5 = FALSE /\ handle.bytes = bytes
    BY <2>3
  <2>5. handle = [md5 |-> handle.md5, bytes |-> [k \in DOMAIN handle.bytes |-> handle.bytes[k]]]
    BY <2>2, <2>3, <2>4
  <2>6. KeyIsFixed(case) => handle.md5 = (case.forceMd5 \/ desc.keyMax > 16)
    BY <1>1, <1>4, <2>4
  <2>7. DOMAIN handle.bytes = IF handle.md5 THEN 0 .. at - 1 ELSE 0 .. 15
    BY <2>2, <2>4
  <2>8. ASSUME NEW k \in DOMAIN written PROVE k \in 0 .. 15 /\ k < at
    <3>1. at <= 16 /\ at \in Nat
      BY <1>1, <2>1
    <3>2. k \in 0 .. at - 1
      BY <1>1
    <3> QED
      BY <3>1, <3>2
  <2>9. \A k \in DOMAIN written : k \in DOMAIN handle.bytes /\ handle.bytes[k] = written[k]
    BY <1>1, <2>2, <2>4, <2>8
  <2>10. \A k \in 0 .. 15 : k < at => k \in 0 .. at - 1
    BY <1>1
  <2>11. KeyIsFixed(case) => \A k \in DOMAIN handle.bytes \ DOMAIN written : handle.bytes[k] = 0
    BY <1>2, <2>2, <2>4, <2>10
  <2> QED
    BY <2>3, <2>5, <2>6, <2>7, <2>9, <2>11 DEF HandleShows
<1> QED
  BY <1>3, <1>4

\* What a handle shows does not change.
LEMMA ShownStays ==
  ASSUME UNCHANGED <<case, desc>>, NEW handle, NEW msg, HandleShows(handle, msg)
  PROVE  HandleShows(handle, msg)'
BY DEF HandleShows

\* Every handle shows its key after every step.
LEMMA HandlesNext ==
  ASSUME SupportInv, [SupportNext]_supportVars
  PROVE  HandlesShowKeys'
<1> USE DEF SupportInv
<1>0. UNCHANGED <<case, desc>>
  BY CaseStays
<1>1. CASE UNCHANGED handles
  BY <1>0, <1>1, ShownStays DEF HandlesShowKeys
<1>2. ASSUME NEW t \in Writers, thread[t] # Idle, NEW handle, Computed(t, handle),
             thread[t].alone => \/ handle = Thrown /\ KeyIsOpen(case)
                                \/ handle # Thrown /\ HandleShows(handle, thread[t].msg)
      PROVE  HandlesShowKeys'
  <2>1. thread[t].msg \in Keys(case)
    BY <1>2, ThreadTyped
  <2>2. CASE ~thread[t].alone
    BY <1>1, <1>2, <2>2 DEF Computed
  <2>3. CASE thread[t].alone
    <3>1. handles' = handles \cup {[key |-> KeyValue(case, thread[t].msg), handle |-> handle]}
      BY <1>2, <2>3 DEF Computed
    <3>2. ASSUME NEW x \in handles
          PROVE  \E msg \in Keys(case) :
                   /\ x.key = KeyValue(case, msg)
                   /\ \/ x.handle = Thrown /\ KeyIsOpen(case)
                      \/ x.handle # Thrown /\ HandleShows(x.handle, msg)'
      BY <1>0, ShownStays DEF HandlesShowKeys
    <3>3. ASSUME NEW x, x = [key |-> KeyValue(case, thread[t].msg), handle |-> handle]
          PROVE  \E msg \in Keys(case) :
                   /\ x.key = KeyValue(case, msg)
                   /\ \/ x.handle = Thrown /\ KeyIsOpen(case)
                      \/ x.handle # Thrown /\ HandleShows(x.handle, msg)'
      <4>1. x.key = KeyValue(case, thread[t].msg) /\ x.handle = handle
        BY <3>3
      <4>2. handle # Thrown /\ HandleShows(handle, thread[t].msg) =>
              \A m \in Keys(case) : m = thread[t].msg => HandleShows(handle, m)'
        BY <1>0, ShownStays
      <4> QED
        BY <1>2, <2>1, <2>3, <4>1, <4>2
    <3> QED
      BY <1>0, <3>1, <3>2, <3>3 DEF HandlesShowKeys, Thrown
  <2> QED
    BY <2>2, <2>3
<1>3. ASSUME NEW t \in Writers, WriteKey(t) PROVE HandlesShowKeys'
  <2> SUFFICES ASSUME NEW h, h = Holder(thread[t].e), NEW key, key = KeyStream(case, thread[t].msg)
               PROVE  HandlesShowKeys'
    OBVIOUS
  <2>1. /\ thread[t] # Idle /\ h \in Holders /\ thread[t].msg \in Keys(case)
        /\ \/ key.at > keyMax[h] /\ Computed(t, Thrown)
           \/ UNCHANGED handles
    BY <1>3, WriteFacts
  <2>2. CASE key.at > keyMax[h] /\ Computed(t, Thrown)
    <3>1. key.at <= keyMax[h] \/ KeyIsOpen(case)
      BY <1>3 DEF WriteKey, KeyWritten, KeyWrittenBy, Fits
    <3>2. key.at \in Nat /\ keyMax[h] \in Nat
      BY <2>1, DescTyped DEF SupportTypeOK
    <3>3. KeyIsOpen(case)
      BY <2>2, <3>1, <3>2
    <3> QED
      BY <1>2, <2>1, <2>2, <3>3
  <2> QED
    BY <1>1, <2>1, <2>2
<1>4. ASSUME NEW t \in Writers, HashKey(t) PROVE HandlesShowKeys'
  <2> SUFFICES ASSUME NEW h, h = Holder(thread[t].e), NEW msg, msg = thread[t].msg,
                      NEW key, key = KeyStream(case, msg)
               PROVE  HandlesShowKeys'
    OBVIOUS
  <2>1. thread[t] # Idle /\ thread[t].step = "written" /\ Computed(t, HandleOf(h, thread[t].end))
    BY <1>4, ThreadKinds DEF HashKey
  <2>2. h \in Holders /\ users[h] > 0 /\ msg \in Keys(case)
    BY <2>1, ThreadTyped, InUse DEF KeyThreads
  <2>3. /\ thread[t].end = key.at /\ key.at <= keyMax[h]
        /\ thread[t].alone => \A k \in DOMAIN key.bytes : buffer[h][k] = key.bytes[k]
    BY <2>1 DEF KeyWritten, KeyWrittenBy, Fits
  <2>4. thread[t].alone => HandleOf(h, key.at) # Thrown /\ HandleShows(HandleOf(h, key.at), msg)
    BY <2>2, <2>3, HandleOfShows
  <2> QED
    BY <1>2, <2>1, <2>3, <2>4
<1>5. CASE ~\E t \in Writers : WriteKey(t) \/ HashKey(t)
  BY <1>1, <1>5 DEF SupportNext, supportVars, keyVars, CreateEndpoint, DestroyEndpoint, BeginKey
<1> QED
  BY <1>3, <1>4, <1>5

------------------------------------------------------------------------------
(***************************************************************************)
(* The invariant and what follows from it.                                 *)
(***************************************************************************)

\* Initially nothing is open.
LEMMA SupportInitially == SupportInit => SupportInv
<1> SUFFICES ASSUME SupportInit PROVE SupportInv
  OBVIOUS
<1>1. SupportTypeOK
  <2> SUFFICES ASSUME NEW none, none = <<>>, buffer = [h \in Holders |-> none] PROVE SupportTypeOK
    BY DEF SupportInit
  <2>1. DOMAIN none = 0 .. 0 - 1
    BY NewBuffer
  <2> QED
    BY <2>1 DEF SupportInit, SupportTypeOK
<1>2. \A t \in Writers : thread[t] = Idle /\ Idle.step = "idle"
  BY DEF SupportInit, Idle
<1>3. UsersCounted
  <2>1. \A h \in Holders : EndpointsOf(h) = {}
    BY DEF SupportInit, EndpointsOf
  <2> QED
    BY <2>1, FS_EmptySet DEF SupportInit, UsersCounted
<1>4. BufferHasRoom /\ QosFilled /\ HandlesShowKeys
  BY DEF SupportInit, BufferHasRoom, QosFilled, HandlesShowKeys
<1>5. PaddingIsZero
  <2> SUFFICES ASSUME NEW none, none = <<>>, buffer = [h \in Holders |-> none] PROVE PaddingIsZero
    BY DEF SupportInit
  <2>1. DOMAIN none = {}
    BY NewBuffer
  <2> QED
    BY <2>1 DEF PaddingIsZero
<1>6. KeyThreads /\ KeyWritten
  BY <1>2 DEF KeyThreads, KeyWritten, KeyWrittenBy
<1> QED
  BY <1>1, <1>3, <1>4, <1>5, <1>6 DEF SupportInv

\* Every step keeps the invariant.
LEMMA SupportStep == SupportInv /\ [SupportNext]_supportVars => SupportInv'
<1> SUFFICES ASSUME SupportInv, [SupportNext]_supportVars PROVE SupportInv'
  OBVIOUS
<1>1. SupportTypeOK' /\ UsersCounted' /\ BufferHasRoom' /\ PaddingIsZero'
  BY SupportTyped, UsersNext, RoomNext, PaddingNext DEF SupportInv
<1>2. KeyThreads' /\ KeyWritten' /\ QosFilled'
  BY ThreadsNext, WrittenNext, QosNext DEF SupportInv
<1> QED
  BY <1>1, <1>2, HandlesNext DEF SupportInv

\* The invariant holds of every reachable state.
LEMMA SupportInvariant == SupportSpec => []SupportInv
BY SupportInitially, SupportStep, PTL DEF SupportSpec

\* The state of type supports, endpoints and key computations is always well
\* typed: a type support's buffer has as many bytes as its bound says, and no
\* user is given back twice.
THEOREM SupportTypeCorrect == SupportSpec => []SupportTypeOK
<1>1. SupportInv => SupportTypeOK
  BY DEF SupportInv
<1> QED
  BY <1>1, SupportInvariant, PTL

\* Two handles of the same bytes are of the same key.
LEMMA HandlesApart ==
  ASSUME SupportTypeOK, NEW m \in Keys(case), NEW n \in Keys(case), NEW handle,
         HandleShows(handle, m), HandleShows(handle, n)
  PROVE  KeyValue(case, m) = KeyValue(case, n)
<1> SUFFICES ASSUME NEW a, a = KeyStream(case, m), NEW b, b = KeyStream(case, n),
                    KeyValue(case, m) # KeyValue(case, n)
             PROVE  FALSE
  OBVIOUS
<1>1. case \in Cases
  BY DescTyped
<1>2. PICK k \in DOMAIN a.bytes \cap DOMAIN b.bytes : a.bytes[k] # b.bytes[k]
  BY <1>1, KeyBytesAssumption
<1>3. handle.bytes[k] = a.bytes[k] /\ handle.bytes[k] = b.bytes[k]
  BY <1>2 DEF HandleShows
<1> QED
  BY <1>2, <1>3

\* The handles of one fixed key have the same bytes.
LEMMA HandlesEqual ==
  ASSUME SupportTypeOK, KeyIsFixed(case), NEW m \in Keys(case), NEW n \in Keys(case),
         KeyValue(case, m) = KeyValue(case, n), NEW x, NEW y, HandleShows(x, m), HandleShows(y, n)
  PROVE  x = y
<1> SUFFICES ASSUME NEW key, key = KeyStream(case, m) PROVE x = y
  OBVIOUS
<1>1. case \in Cases
  BY DescTyped
<1>2. KeyStream(case, n) = key
  BY <1>1, KeyBytesAssumption
<1>3. /\ x = [md5 |-> x.md5, bytes |-> [k \in DOMAIN x.bytes |-> x.bytes[k]]]
      /\ y = [md5 |-> y.md5, bytes |-> [k \in DOMAIN y.bytes |-> y.bytes[k]]]
      /\ x.md5 = y.md5
      /\ DOMAIN x.bytes = DOMAIN y.bytes
  BY <1>2 DEF HandleShows
<1>4. \A k \in DOMAIN x.bytes : x.bytes[k] = y.bytes[k]
  BY <1>2, <1>3 DEF HandleShows
<1>5. [k \in DOMAIN x.bytes |-> x.bytes[k]] = [k \in DOMAIN y.bytes |-> y.bytes[k]]
  BY <1>3, <1>4
<1> QED
  BY <1>3, <1>5

\* Whatever endpoints were created, destroyed or published with before, and
\* whatever other threads do but computing a key of another participant in the
\* same buffer, different keys get different handles, equal keys of fixed layout
\* get the same one, and only a key with an unbounded sequence can throw.
THEOREM HandlesAreKeys == SupportSpec => []HandlesTellKeys
<1>1. SupportInv => HandlesTellKeys
  <2> SUFFICES ASSUME SupportInv, NEW x \in handles, NEW y \in handles
               PROVE  /\ x.handle = Thrown => KeyIsOpen(case)
                      /\ x.handle # Thrown /\ x.handle = y.handle => x.key = y.key
                      /\ KeyIsFixed(case) /\ x.key = y.key => x.handle = y.handle
    BY DEF HandlesTellKeys
  <2>0. SupportTypeOK /\ HandlesShowKeys
    BY DEF SupportInv
  <2>1. PICK m \in Keys(case) :
          /\ x.key = KeyValue(case, m)
          /\ \/ x.handle = Thrown /\ KeyIsOpen(case)
             \/ x.handle # Thrown /\ HandleShows(x.handle, m)
    BY <2>0 DEF HandlesShowKeys
  <2>2. PICK n \in Keys(case) :
          /\ y.key = KeyValue(case, n)
          /\ \/ y.handle = Thrown /\ KeyIsOpen(case)
             \/ y.handle # Thrown /\ HandleShows(y.handle, n)
    BY <2>0 DEF HandlesShowKeys
  <2>3. KeyIsFixed(case) => ~KeyIsOpen(case)
    BY <2>0, DescTyped, KeyRoomAssumption
  <2>4. x.handle # Thrown /\ x.handle = y.handle => x.key = y.key
    BY <2>0, <2>1, <2>2, HandlesApart
  <2>5. KeyIsFixed(case) /\ x.key = y.key => x.handle = y.handle
    BY <2>0, <2>1, <2>2, <2>3, HandlesEqual
  <2> QED
    BY <2>1, <2>4, <2>5
<1> QED
  BY <1>1, SupportInvariant, PTL

\* An endpoint's QoS honours the profile it was created with, as it reports it
\* and as it is discovered, and keeps enough samples of each instance.
THEOREM QosIsKept == SupportSpec => []QosKept
<1>1. SupportInv => QosKept
  <2> SUFFICES ASSUME SupportInv, NEW e \in Endpoints, endpoint[e] # Closed,
                      NEW qos, qos = endpoint[e].qos, NEW asked, asked = endpoint[e].asked
               PROVE  /\ Honours(ToRmw(qos), asked)
                      /\ Honours(DiscoveredToRmw(qos, TRUE, asked), asked)
                      /\ Honours(DiscoveredToRmw(qos, FALSE, asked), [asked EXCEPT !.history = "default"])
                      /\ asked.lease > 0 => qos.announcement < qos.lease
                      /\ qos.depth \in 0 .. MaxInt
                      /\ desc.keyed /\ ~case.keepDefault /\ qos.history = "keep_last"
                           => qos.perInstance >= asked.depth
    BY DEF QosKept
  <2> DEFINE filled == FillEntityQos(asked, case.default)
  <2>1. /\ SupportTypeOK /\ asked \in RmwQos /\ qos \in EntityQos /\ case.default \in EntityQos
        /\ qos = EndpointQos(asked) /\ qos # Refused
    BY QosAssumption DEF SupportInv, SupportTypeOK, QosFilled
  <2>2. filled # Refused /\ filled \in EntityQos
    BY <2>1, FilledQos DEF EndpointQos
  <2>3. qos = IF desc.keyed /\ ~case.keepDefault THEN LimitForKeys(filled) ELSE filled
    BY <2>1, <2>2 DEF EndpointQos
  <2>4. /\ Honours(ToRmw(filled), asked)
        /\ Honours(DiscoveredToRmw(filled, TRUE, asked), asked)
        /\ Honours(DiscoveredToRmw(filled, FALSE, asked), [asked EXCEPT !.history = "default"])
        /\ asked.lease > 0 => filled.announcement < filled.lease
        /\ filled.depth >= asked.depth
    BY <2>1, <2>2, FilledHonours
  <2>5. /\ qos.depth = filled.depth /\ qos.lease = filled.lease /\ qos.announcement = filled.announcement
        /\ ToRmw(qos) = ToRmw(filled)
    BY <2>2, <2>3 DEF LimitForKeys, EntityQos, ToRmw
  <2>6. \A b : DiscoveredToRmw(qos, b, asked) = DiscoveredToRmw(filled, b, asked)
    BY <2>5 DEF DiscoveredToRmw
  <2>7. desc.keyed /\ ~case.keepDefault /\ qos.history = "keep_last" => qos.perInstance = filled.depth
    BY <2>2, <2>3 DEF LimitForKeys, EntityQos
  <2>8. qos.depth \in 0 .. MaxInt
    BY <2>1 DEF EntityQos
  <2> HIDE DEF filled
  <2> QED
    BY <2>4, <2>5, <2>6, <2>7, <2>8
<1> QED
  BY <1>1, SupportInvariant, PTL

\* SupportOutlivesKeys: the type support in whose buffer a key is computed is
\* not deleted before the key is, whichever endpoints are destroyed meanwhile.
SupportOutlivesKeys ==
  \A t \in Writers : thread[t] # Idle => users[Holder(thread[t].e)] > 0

\* A thread that computes a key uses a type support that has a user: no
\* sequence of creations and destructions deletes it under the computation.
THEOREM KeysHaveSupport == SupportSpec => []SupportOutlivesKeys
<1>1. SupportInv => SupportOutlivesKeys
  BY ThreadTyped, InUse DEF SupportInv, KeyThreads, SupportOutlivesKeys
<1> QED
  BY <1>1, SupportInvariant, PTL
=============================================================================
