--------------------------- MODULE SubscriptionTake ---------------------------
(***************************************************************************)
(* How a subscription's samples are taken: copied into a message, into a   *)
(* serialized or a dynamic message, several at a time, or loaned           *)
(* (rmw_take.cpp), by threads that share one reader, until the reader is   *)
(* replaced by a content filter or deleted.                                *)
(*                                                                         *)
(* A loan is on two lists: Fast DDS counts the loans of the reader, and    *)
(* the LoanManager keeps the sequences that are needed to return one.  The *)
(* two are changed by different calls, under different locks.              *)
(***************************************************************************)
EXTENDS Integers, Sequences, FiniteSets

CONSTANTS
  Threads,          \* threads that use the subscription
  Buffers,          \* the addresses that Fast DDS may loan
  MaxOutstanding,   \* outstanding_reads_allocation.maximum
  MaxSamples,       \* bound: samples that arrive
  MaxCount,         \* bound: count of rmw_take_sequence
  MaxFailures       \* bound: calls of return_loan that fail

ASSUME TakeAssumption ==
  /\ MaxOutstanding \in Nat \ {0}
  /\ MaxSamples \in Nat
  /\ MaxCount \in Nat \ {0}
  /\ MaxFailures \in Nat

VARIABLES
  ignore_local_publications, \* option of the subscription
  reader,           \* "open" or "deleted"
  inGraph,          \* the node's graph entry lists the subscription
  history,          \* the samples in the reader, oldest first
  arrived,          \* how many samples have arrived
  outstanding,      \* loans that Fast DDS counts
  items,            \* LoanManager::items
  held,             \* loans that the application has
  pc,               \* where each thread is
  kind,             \* what each thread takes
  remaining,        \* iterations left in _take_sequence
  got,              \* messages the thread's call has delivered
  hand,             \* [Threads -> loans]: the item of the thread's call
  failed,           \* calls of return_loan that failed
  \* history
  delivered,        \* [1..MaxSamples -> Nat]: deliveries of a sample
  passed,           \* samples taken from the reader and passed over
  lost,             \* samples taken from the reader by a call that failed, or deleted with it
  leaked            \* loans that cannot be returned any more

subVars  == <<ignore_local_publications, reader, inGraph>>
loanVars == <<outstanding, items, held, hand, failed, leaked>>
callVars == <<pc, kind, remaining, got>>
fateVars == <<delivered, passed, lost>>
vars == <<subVars, history, arrived, loanVars, callVars, fateVars>>

Samples == [id : 1..MaxSamples, valid : BOOLEAN, local : BOOLEAN]
Loans   == [buffer : Buffers, sample : Samples]
Kinds   == {"message", "serialized", "dynamic", "loaned"}
NoLoan  == [buffer |-> {}, sample |-> {}]

Init ==
  /\ ignore_local_publications \in BOOLEAN
  /\ reader = "open"
  /\ inGraph = TRUE
  /\ history = <<>>
  /\ arrived = 0
  /\ outstanding = {}
  /\ items = {}
  /\ held = {}
  /\ pc = [t \in Threads |-> "idle"]
  /\ kind = [t \in Threads |-> "message"]
  /\ remaining = [t \in Threads |-> 0]
  /\ got = [t \in Threads |-> 0]
  /\ hand = [t \in Threads |-> NoLoan]
  /\ failed = 0
  /\ delivered = [s \in 1..MaxSamples |-> 0]
  /\ passed = {}
  /\ lost = {}
  /\ leaked = {}

\* A sample arrives: with data or only with a change of state, from this process or not.
Arrive(valid, local) ==
  /\ reader = "open"
  /\ arrived < MaxSamples
  /\ arrived' = arrived + 1
  /\ history' = Append(history, [id |-> arrived + 1, valid |-> valid, local |-> local])
  /\ UNCHANGED <<subVars, loanVars, callVars, fateVars>>

------------------------------------------------------------------------------
(***************************************************************************)
(* Taking by copy.                                                         *)
(***************************************************************************)

\* rmw_take*; only rmw_take_sequence asks for more than one message.
StartTake(t, k, count) ==
  /\ pc[t] = "idle"
  /\ reader = "open"
  /\ count > 1 => k = "message"
  /\ pc' = [pc EXCEPT ![t] = "take"]
  /\ kind' = [kind EXCEPT ![t] = k]
  /\ remaining' = [remaining EXCEPT ![t] = count]
  /\ got' = [got EXCEPT ![t] = 0]
  /\ UNCHANGED <<subVars, history, arrived, loanVars, fateVars>>

\* The iteration of thread t is over: the next one begins, or the call returns.
EndIteration(t, messages) ==
  /\ got' = [got EXCEPT ![t] = @ + messages]
  /\ remaining' = [remaining EXCEPT ![t] = @ - 1]
  /\ pc' = [pc EXCEPT ![t] = IF remaining[t] > 1 THEN "take" ELSE "idle"]
  /\ UNCHANGED kind

\* A dynamic message, like a loaned one, is delivered wherever it comes from.
Deliverable(t, s) ==
  /\ s.valid
  /\ s.local /\ ignore_local_publications => kind[t] = "dynamic"

Mut_stop_at_first(t) ==
  /\ pc[t] = "take"
  /\ kind[t] # "loaned"
  /\ history # <<>>
  /\ ~Deliverable(t, Head(history))
  /\ history' = Tail(history)
  /\ passed' = passed \cup {Head(history).id}
  /\ EndIteration(t, 0)
  /\ UNCHANGED <<subVars, arrived, loanVars, delivered, lost>>

\* The sample taken is not for this call: the loop takes the next one.
PassOver(t) ==
  /\ pc[t] = "take"
  /\ kind[t] # "loaned"
  /\ history # <<>>
  /\ ~Deliverable(t, Head(history))
  /\ history' = Tail(history)
  /\ passed' = passed \cup {Head(history).id}
  /\ UNCHANGED <<subVars, arrived, loanVars, callVars, delivered, lost>>

Mut_read_instead(t) ==
  /\ pc[t] = "take"
  /\ kind[t] # "loaned"
  /\ history # <<>>
  /\ Deliverable(t, Head(history))
  /\ delivered' = [delivered EXCEPT ![Head(history).id] = @ + 1]
  /\ EndIteration(t, 1)
  /\ UNCHANGED <<subVars, history, arrived, loanVars, passed, lost>>

\* The sample is copied out, and the iteration has its message.
Deliver(t) ==
  /\ pc[t] = "take"
  /\ kind[t] # "loaned"
  /\ history # <<>>
  /\ Deliverable(t, Head(history))
  /\ history' = Tail(history)
  /\ delivered' = [delivered EXCEPT ![Head(history).id] = @ + 1]
  /\ EndIteration(t, 1)
  /\ UNCHANGED <<subVars, arrived, loanVars, passed, lost>>

\* The caller's serialized message cannot be resized: the sample is gone from the reader.
FailToResize(t) ==
  /\ pc[t] = "take"
  /\ kind[t] = "serialized"
  /\ history # <<>>
  /\ Deliverable(t, Head(history))
  /\ history' = Tail(history)
  /\ lost' = lost \cup {Head(history).id}
  /\ pc' = [pc EXCEPT ![t] = "idle"]
  /\ UNCHANGED <<subVars, arrived, loanVars, kind, remaining, got, delivered, passed>>

\* Fast DDS has nothing to take.
TakeNothing(t) ==
  /\ pc[t] = "take"
  /\ kind[t] # "loaned"
  /\ history = <<>>
  /\ EndIteration(t, 0)
  /\ UNCHANGED <<subVars, history, arrived, loanVars, fateVars>>

------------------------------------------------------------------------------
(***************************************************************************)
(* Loans.                                                                  *)
(***************************************************************************)
AtLimit == Cardinality(outstanding) >= MaxOutstanding

\* DataReader::take loans a sample: it gives an address that no other loan has.
TakeLoan(t) ==
  /\ pc[t] = "take"
  /\ kind[t] = "loaned"
  /\ history # <<>>
  /\ ~AtLimit
  /\ \E b \in Buffers \ {l.buffer : l \in outstanding} :
       LET loan == [buffer |-> b, sample |-> Head(history)]
       IN  /\ outstanding' = outstanding \cup {loan}
           /\ hand' = [hand EXCEPT ![t] = loan]
           /\ pc' = [pc EXCEPT ![t] = IF Head(history).valid THEN "add" ELSE "skip"]
  /\ history' = Tail(history)
  /\ UNCHANGED <<subVars, arrived, items, held, failed, leaked, kind, remaining, got, fateVars>>

\* DataReader::take gives nothing, or refuses to loan: the call returns without a message.
TakeNoLoan(t) ==
  /\ pc[t] = "take"
  /\ kind[t] = "loaned"
  /\ history = <<>> \/ AtLimit
  /\ pc' = [pc EXCEPT ![t] = "idle"]
  /\ UNCHANGED <<subVars, history, arrived, loanVars, kind, remaining, got, fateVars>>

Mut_forget_item(t) ==
  /\ pc[t] = "add"
  /\ held' = held \cup {hand[t]}
  /\ delivered' = [delivered EXCEPT ![hand[t].sample.id] = @ + 1]
  /\ got' = [got EXCEPT ![t] = 1]
  /\ pc' = [pc EXCEPT ![t] = "idle"]
  /\ hand' = [hand EXCEPT ![t] = NoLoan]
  /\ UNCHANGED <<subVars, history, arrived, outstanding, items, failed, leaked, kind, remaining, passed, lost>>

\* LoanManager::add_item: a full vector drops the item, and the loan can never be returned.
AddItem(t) ==
  /\ pc[t] = "add"
  /\ LET full == Cardinality(items) >= MaxOutstanding
     IN  /\ items' = IF full THEN items ELSE items \cup {hand[t]}
         /\ leaked' = IF full THEN leaked \cup {hand[t]} ELSE leaked
  /\ held' = held \cup {hand[t]}
  /\ delivered' = [delivered EXCEPT ![hand[t].sample.id] = @ + 1]
  /\ got' = [got EXCEPT ![t] = 1]
  /\ pc' = [pc EXCEPT ![t] = "idle"]
  /\ hand' = [hand EXCEPT ![t] = NoLoan]
  /\ UNCHANGED <<subVars, history, arrived, outstanding, failed, kind, remaining, passed, lost>>

\* A sample without data is returned before the next one is taken.  What return_loan
\* answers is not looked at: if it fails, the sequences are in use and the next take fails.
SkipLoan(t) ==
  /\ pc[t] = "skip"
  /\ passed' = passed \cup {hand[t].sample.id}
  /\ hand' = [hand EXCEPT ![t] = NoLoan]
  /\ \/ /\ outstanding' = outstanding \ {hand[t]}
        /\ pc' = [pc EXCEPT ![t] = "take"]
        /\ UNCHANGED <<failed, leaked>>
     \/ /\ failed < MaxFailures
        /\ failed' = failed + 1
        /\ leaked' = leaked \cup {hand[t]}
        /\ pc' = [pc EXCEPT ![t] = "idle"]
        /\ UNCHANGED outstanding
  /\ UNCHANGED <<subVars, history, arrived, items, held, kind, remaining, got, delivered, lost>>

Mut_erase_first(t, loan) ==
  /\ pc[t] = "idle"
  /\ loan \in held
  /\ held' = held \ {loan}
  /\ \E item \in items :
       /\ items' = items \ {item}
       /\ hand' = [hand EXCEPT ![t] = item]
  /\ pc' = [pc EXCEPT ![t] = "return"]
  /\ UNCHANGED <<subVars, history, arrived, outstanding, failed, leaked, kind, remaining, got, fateVars>>

\* rmw_return_loaned_message_from_subscription, once for each message the application has:
\* erase_item finds the item by the address of the message (if there were none, the call
\* would answer with an error and change nothing) ...
EraseItem(t, loan) ==
  /\ pc[t] = "idle"
  /\ loan \in held
  /\ held' = held \ {loan}
  /\ \E item \in items :
       /\ item.buffer = loan.buffer
       /\ items' = items \ {item}
       /\ hand' = [hand EXCEPT ![t] = item]
  /\ pc' = [pc EXCEPT ![t] = "return"]
  /\ UNCHANGED <<subVars, history, arrived, outstanding, failed, leaked, kind, remaining, got, fateVars>>

\* ... and Fast DDS takes the loan back, or the item is destroyed all the same.
ReturnLoan(t) ==
  /\ pc[t] = "return"
  /\ \/ outstanding' = outstanding \ {hand[t]} /\ UNCHANGED <<failed, leaked>>
     \/ /\ failed < MaxFailures
        /\ failed' = failed + 1
        /\ leaked' = leaked \cup {hand[t]}
        /\ UNCHANGED outstanding
  /\ hand' = [hand EXCEPT ![t] = NoLoan]
  /\ pc' = [pc EXCEPT ![t] = "idle"]
  /\ UNCHANGED <<subVars, history, arrived, items, held, kind, remaining, got, fateVars>>

------------------------------------------------------------------------------
(***************************************************************************)
(* rmw_destroy_subscription and rmw_subscription_set_content_filter, which *)
(* the application does not call while it uses the subscription.           *)
(***************************************************************************)
InHistory == {history[i].id : i \in DOMAIN history}

\* The graph entry goes first; Fast DDS refuses to delete a reader with loans.
DeleteReader(successor) ==
  /\ reader = "open"
  /\ \A t \in Threads : pc[t] = "idle"
  /\ \/ /\ outstanding = {}
        /\ reader' = successor
        /\ inGraph' = (successor = "open")
        /\ history' = <<>>
        /\ lost' = lost \cup InHistory
     \/ /\ outstanding # {}
        /\ inGraph' = FALSE
        /\ UNCHANGED <<reader, history, lost>>
  /\ UNCHANGED <<ignore_local_publications, arrived, loanVars, callVars, delivered, passed>>

Destroy == DeleteReader("deleted")

\* A first filter, or none any more: another reader takes the place of this one.
SetContentFilter == DeleteReader("open")

Next ==
  \/ \E valid, local \in BOOLEAN : Arrive(valid, local)
  \/ \E t \in Threads :
       \/ \E k \in Kinds, count \in 1..MaxCount : StartTake(t, k, count)
       \/ PassOver(t) \/ Deliver(t) \/ FailToResize(t) \/ TakeNothing(t)
       \/ TakeLoan(t) \/ TakeNoLoan(t) \/ AddItem(t) \/ SkipLoan(t)
       \/ \E loan \in held : EraseItem(t, loan)
       \/ ReturnLoan(t)
  \/ Destroy
  \/ SetContentFilter

Spec == Init /\ [][Next]_vars

------------------------------------------------------------------------------
(***************************************************************************)
(* Properties.                                                             *)
(***************************************************************************)

\* Type invariant.
TypeOK ==
  /\ ignore_local_publications \in BOOLEAN
  /\ reader \in {"open", "deleted"}
  /\ inGraph \in BOOLEAN
  /\ history \in Seq(Samples)
  /\ arrived \in 0..MaxSamples
  /\ outstanding \subseteq Loans
  /\ items \subseteq Loans
  /\ held \subseteq Loans
  /\ leaked \subseteq Loans
  /\ pc \in [Threads -> {"idle", "take", "add", "skip", "return"}]
  /\ kind \in [Threads -> Kinds]
  /\ remaining \in [Threads -> Int]
  /\ got \in [Threads -> Nat]
  /\ hand \in [Threads -> Loans \cup {NoLoan}]
  /\ failed \in 0..MaxFailures
  /\ delivered \in [1..MaxSamples -> Nat]
  /\ passed \subseteq 1..MaxSamples
  /\ lost \subseteq 1..MaxSamples

Busy == {t \in Threads : pc[t] \in {"add", "skip", "return"}}
InHand == {hand[t] : t \in Busy}

\* Every loan that Fast DDS counts can still be returned, unless return_loan has failed for
\* it: the LoanManager or one call has it, and never two of them.  The list is never full
\* when a loan is to be added, since both lists have the same limit and a loan leaves the
\* LoanManager before it leaves Fast DDS.
LoansAccounted ==
  /\ outstanding = items \cup InHand \cup leaked
  /\ items \cap InHand = {} /\ leaked \cap (items \cup InHand) = {}
  /\ \A t, u \in Busy : hand[t] = hand[u] => t = u
  /\ leaked # {} => failed > 0
  /\ \A t \in Threads : pc[t] = "add" => Cardinality(items) < MaxOutstanding

\* What the application has is loaned to it alone: no message in its hands is given to
\* another call before it is returned, and returning it finds its own item.
HeldIsExclusive ==
  /\ held = items
  /\ \A k, l \in outstanding : k.buffer = l.buffer => k = l

\* The strengthening of the two that is inductive: Fast DDS keeps to its limit.
LoanInv ==
  /\ outstanding = items \cup InHand \cup leaked
  /\ items \cap InHand = {} /\ leaked \cap (items \cup InHand) = {}
  /\ \A t, u \in Busy : hand[t] = hand[u] => t = u
  /\ leaked # {} => failed > 0
  /\ HeldIsExclusive
  /\ IsFiniteSet(outstanding)
  /\ Cardinality(outstanding) <= MaxOutstanding

\* Where a sample is: in the reader, in the hand of a call that has not yet passed it over
\* or handed it out, or at its end.
Places(s) ==
  Cardinality({i \in DOMAIN history : history[i].id = s})
    + Cardinality({t \in Threads : pc[t] \in {"add", "skip"} /\ hand[t].sample.id = s})
    + delivered[s] + (IF s \in passed THEN 1 ELSE 0) + (IF s \in lost THEN 1 ELSE 0)

\* Every sample that arrived is in one place: nothing is delivered twice, whatever mixture
\* of calls competes for the reader, and nothing disappears but with a reader that is
\* replaced or by a call that fails.
OneFate ==
  \A s \in 1..MaxSamples : Places(s) = IF s <= arrived THEN 1 ELSE 0

\* A call comes back without a message only if there is none: a sample that is passed over
\* never hides the ones behind it.  The exceptions are a reader that has loaned all it may,
\* and the failures.
EmptyOnlyIfEmpty ==
  [][\A t \in Threads :
       pc[t] \in {"take", "skip"} /\ pc'[t] = "idle" /\ got'[t] = 0 =>
         \/ history = <<>>
         \/ (kind[t] = "loaned" /\ AtLimit)
         \/ failed' > failed
         \/ Head(history).id \in lost']_vars
==============================================================================
