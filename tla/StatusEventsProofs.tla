-------------------------- MODULE StatusEventsProofs --------------------------
(***************************************************************************)
(* Proofs about StatusEvents for any peers and any number of events: each  *)
(* change is reported at most once and never forgotten, and the tracked    *)
(* endpoints are wrong only for those whose status somebody read too soon. *)
(***************************************************************************)
EXTENDS StatusEvents, FiniteSetTheorems, TLAPS

\* The types, in the form the provers use.
LEMMA Types ==
  ASSUME TypeOK
  PROVE  /\ total \in [Kinds -> Nat] /\ change \in [Kinds -> Nat]
         /\ status_total \in [Kinds -> Nat] /\ status_change \in [Kinds -> Nat]
         /\ reported \in [Kinds -> Nat] /\ told \in [Kinds -> Nat]
         /\ changed \in [Kinds -> BOOLEAN] /\ cb \in [Kinds -> BOOLEAN]
         /\ guard \in [Kinds -> BOOLEAN]
         /\ "matched" \in Kinds /\ "missed" \in Kinds /\ "type" \in Kinds
  BY DEF TypeOK, Kinds

\* Those whose status was read too soon are finitely many, and one more is one more.
LEMMA StolenCounts ==
  ASSUME TypeOK
  PROVE  /\ Cardinality(stolen) \in Nat
         /\ \A p \in Peers : /\ Cardinality(stolen \cup {p}) \in Nat
                             /\ Cardinality(stolen \cup {p}) >= Cardinality(stolen)
                             /\ p \notin stolen =>
                                  Cardinality(stolen \cup {p}) = Cardinality(stolen) + 1
  <1>1. IsFiniteSet(stolen)
    BY EventsAssumption, FS_Subset DEF TypeOK
  <1>2. ASSUME NEW p \in Peers
        PROVE  /\ Cardinality(stolen \cup {p}) \in Nat
               /\ Cardinality(stolen \cup {p}) >= Cardinality(stolen)
               /\ p \notin stolen => Cardinality(stolen \cup {p}) = Cardinality(stolen) + 1
    <2>1. IsFiniteSet(stolen \cup {p}) /\ Cardinality(stolen) \in Nat
      BY <1>1, FS_AddElement, FS_CardinalityType
    <2>2. Cardinality(stolen \cup {p}) = Cardinality(stolen) + IF p \in stolen THEN 0 ELSE 1
      <3>1. CASE p \in stolen
        BY <1>1, <2>1, <3>1, FS_AddElement
      <3>2. CASE p \notin stolen
        BY <1>1, <3>2, FS_AddElement
      <3> QED
        BY <3>1, <3>2
    <2> QED
      BY <2>1, <2>2
  <1> QED
    BY <1>1, <1>2, FS_CardinalityType

\* Init.
LEMMA InitEventsInv == Init => EventsInv
  <1> SUFFICES ASSUME Init PROVE EventsInv
    OBVIOUS
  <1>1. TypeOK
    BY DEF Init, TypeOK, Zero, No, Kinds
  <1>2. Cardinality(stolen) = 0
    BY FS_EmptySet DEF Init
  <1>3. \A k \in Kinds : Outstanding(k) = 0 /\ total[k] = 0 /\ reported[k] = 0 /\ told[k] = 0
    BY DEF Init, Outstanding, Zero, No
  <1>4. \A k \in Kinds : change[k] = 0 /\ status_change[k] = 0 /\ ~cb[k]
    BY DEF Init, Zero, No
  <1>5. ReportedOnce /\ NotedIsChanged
    BY <1>3, <1>4 DEF ReportedOnce, NotedIsChanged
  <1>6. OneMatchAtATime /\ ToldOrKept /\ TypeKept /\ MatchKept /\ TrackedWhenTold
    BY <1>2, <1>3, <1>4
    DEF Init, OneMatchAtATime, ToldOrKept, TypeKept, MatchKept, TrackedWhenTold, Kinds
  <1> QED
    BY <1>1, <1>5, <1>6 DEF EventsInv

------------------------------------------------------------------------------
(***************************************************************************)
(* One lemma for each action.                                              *)
(***************************************************************************)

\* A change that the listener notes or the entity keeps.
LEMMA OccursStep ==
  ASSUME EventsInv, NEW k \in Kinds, Occurs(k)
  PROVE  EventsInv'
  <1> USE DEF EventsInv
  <1>1. k \in {"missed", "type"}
    BY DEF Occurs, Kinds
  <1>2. /\ total' = [total EXCEPT ![k] = @ + 1]
        /\ UNCHANGED <<matched, met, current_change, last, calling, tracked, cb, sets, reported,
                       stolen>>
    BY DEF Occurs
  <1>3. CASE Listening(k)
    <2>1. /\ status_total' = [status_total EXCEPT ![k] = total'[k]]
          /\ status_change' = [status_change EXCEPT ![k] = @ + (change[k] + 1)]
          /\ changed' = [changed EXCEPT ![k] = TRUE]
          /\ told' = [told EXCEPT ![k] = @ + IF cb[k] THEN 1 ELSE 0]
          /\ guard' = [guard EXCEPT ![k] = TRUE]
          /\ change' = [change EXCEPT ![k] = 0]
      BY <1>3 DEF Occurs, Update
    <2>2. TypeOK'
      BY <1>1, <1>2, <2>1, Types DEF TypeOK
    <2>3. NotedIsChanged'
      BY <1>1, <2>1, Types DEF NotedIsChanged
    <2>4. OneMatchAtATime'
      BY <1>1, <1>2, <2>1, Types DEF OneMatchAtATime
    <2>5. Outstanding(k)' = Outstanding(k) + 1
      BY <2>1, Types DEF Outstanding, NotedIsChanged
    <2>6. \A j \in Kinds \ {k} : Outstanding(j)' = Outstanding(j)
      BY <2>1, Types DEF Outstanding
    <2>7. \A j \in Kinds : Outstanding(j) \in Nat
      BY Types DEF Outstanding
    <2>8. ReportedOnce'
      BY <1>2, <2>5, <2>6, <2>7, Types DEF ReportedOnce
    <2>9. ToldOrKept'
      BY <1>1, <1>2, <1>3, <2>1, Types DEF ToldOrKept, Listening
    <2>10. TypeKept'
      BY <1>1, <1>2, <2>1, <2>5, <2>6, <2>7, Types DEF TypeKept
    <2>11. MatchKept'
      BY <1>1, <1>2, <2>1, <2>6, Types DEF MatchKept
    <2>12. TrackedWhenTold'
      BY <1>2 DEF TrackedWhenTold
    <2> QED
      BY <2>2, <2>3, <2>4, <2>8, <2>9, <2>10, <2>11, <2>12
  <1>4. CASE ~Listening(k)
    <2>1. /\ change' = [change EXCEPT ![k] = @ + 1]
          /\ UNCHANGED <<statusVars, guard, told>>
      BY <1>4 DEF Occurs
    <2>2. TypeOK'
      BY <1>1, <1>2, <2>1, Types DEF TypeOK, statusVars
    <2>3. NotedIsChanged'
      BY <2>1 DEF NotedIsChanged, statusVars
    <2>4. OneMatchAtATime'
      BY <1>1, <1>2, <2>1, Types DEF OneMatchAtATime
    <2>5. Outstanding(k)' = Outstanding(k) + 1
      BY <2>1, Types DEF Outstanding, statusVars
    <2>6. \A j \in Kinds \ {k} : Outstanding(j)' = Outstanding(j)
      BY <2>1, Types DEF Outstanding, statusVars
    <2>7. \A j \in Kinds : Outstanding(j) \in Nat
      BY Types DEF Outstanding
    <2>8. ReportedOnce'
      BY <1>2, <2>5, <2>6, <2>7, Types DEF ReportedOnce
    <2>9. ToldOrKept'
      BY <1>1, <1>2, <1>4, <2>1, Types DEF ToldOrKept, Listening
    <2>10. TypeKept'
      BY <1>1, <1>2, <1>4, <2>1, <2>5, <2>6, <2>7, Types DEF TypeKept, Listening
    <2>11. MatchKept'
      BY <1>1, <1>2, <2>1, <2>6, Types DEF MatchKept
    <2>12. TrackedWhenTold'
      BY <1>2 DEF TrackedWhenTold
    <2> QED
      BY <2>2, <2>3, <2>4, <2>8, <2>9, <2>10, <2>11, <2>12
  <1> QED
    BY <1>3, <1>4

\* Steps that change nothing of two kinds keep what is said of them.
LEMMA OtherKinds ==
  ASSUME EventsInv, TypeOK', NEW k \in Kinds,
         \A j \in Kinds \ {k} :
           /\ total'[j] = total[j] /\ change'[j] = change[j]
           /\ status_change'[j] = status_change[j] /\ changed'[j] = changed[j]
           /\ reported'[j] = reported[j] /\ told'[j] = told[j] /\ cb'[j] = cb[j]
  PROVE  /\ \A j \in Kinds \ {k} : Outstanding(j)' = Outstanding(j)
         /\ k # "missed" => ToldOrKept'
         /\ k # "type" /\ sets' >= sets => TypeKept'
         /\ k # "matched" /\ stolen' = stolen => MatchKept'
         /\ reported'[k] + Outstanding(k)' <= total'[k] => ReportedOnce'
         /\ (~changed'[k] => status_change'[k] = 0) => NotedIsChanged'
  <1>1. \A j \in Kinds \ {k} : Outstanding(j)' = Outstanding(j)
    BY DEF Outstanding
  <1>2. k # "missed" => ToldOrKept'
    BY Types DEF EventsInv, ToldOrKept
  <1>3. k # "type" /\ sets' >= sets => TypeKept'
    BY <1>1, Types DEF EventsInv, TypeKept, TypeOK
  <1>4. k # "matched" /\ stolen' = stolen => MatchKept'
    BY <1>1, Types DEF EventsInv, MatchKept
  <1>5. reported'[k] + Outstanding(k)' <= total'[k] => ReportedOnce'
    BY <1>1 DEF EventsInv, ReportedOnce
  <1>6. (~changed'[k] => status_change'[k] = 0) => NotedIsChanged'
    BY DEF EventsInv, NotedIsChanged
  <1> QED
    BY <1>1, <1>2, <1>3, <1>4, <1>5, <1>6

\* A match: the one change that the listener will be called for.
LEMMA MatchStep ==
  ASSUME EventsInv, NEW p \in Peers, Match(p)
  PROVE  EventsInv'
  <1> USE DEF EventsInv
  <1>1. /\ calling = NoPeer /\ p \notin met
        /\ met' = met \cup {p} /\ matched' = matched \cup {p}
        /\ total' = [total EXCEPT !["matched"] = @ + 1]
        /\ change' = [change EXCEPT !["matched"] = @ + 1]
        /\ current_change' = current_change + 1
        /\ last' = p /\ calling' = p
        /\ UNCHANGED <<statusVars, tracked, cb, guard, sets, historyVars>>
    BY DEF Match
  <1>2. change["matched"] = 0 /\ current_change = 0 /\ p # NoPeer /\ p \notin stolen
    BY <1>1, EventsAssumption DEF OneMatchAtATime, TypeOK
  <1>3. TypeOK'
    <2>1. total' \in [Kinds -> Nat] /\ change' \in [Kinds -> Nat]
      BY <1>1, Types
    <2> QED
      BY <1>1, <1>2, <2>1, Types DEF TypeOK, statusVars, historyVars
  <1>4. OneMatchAtATime'
    BY <1>1, <1>2, Types DEF OneMatchAtATime, historyVars
  <1>5. Outstanding("matched")' = Outstanding("matched") + 1 /\ Outstanding("matched") \in Nat
    BY <1>1, Types DEF Outstanding, statusVars
  <1>6. MatchKept'
    BY <1>1, <1>5, Types, StolenCounts DEF MatchKept, historyVars
  <1>7. TrackedWhenTold'
    BY <1>1, EventsAssumption DEF TrackedWhenTold, historyVars, TypeOK
  <1>8. reported'["matched"] + Outstanding("matched")' <= total'["matched"]
    BY <1>1, <1>5, Types DEF ReportedOnce, historyVars
  <1>9. \A j \in Kinds \ {"matched"} :
          /\ total'[j] = total[j] /\ change'[j] = change[j]
          /\ status_change'[j] = status_change[j] /\ changed'[j] = changed[j]
          /\ reported'[j] = reported[j] /\ told'[j] = told[j] /\ cb'[j] = cb[j]
    BY <1>1, Types DEF statusVars, historyVars
  <1>10. ~changed'["matched"] => status_change'["matched"] = 0
    BY <1>1, Types DEF NotedIsChanged, statusVars
  <1>11. sets' >= sets
    BY <1>1 DEF TypeOK
  <1> QED
    BY <1>3, <1>4, <1>6, <1>7, <1>8, <1>9, <1>10, <1>11, OtherKinds, Types

\* An unmatch.
LEMMA UnmatchStep ==
  ASSUME EventsInv, NEW p \in Peers, Unmatch(p)
  PROVE  EventsInv'
  <1> USE DEF EventsInv
  <1>1. /\ calling = NoPeer /\ p \in matched
        /\ matched' = matched \ {p}
        /\ current_change' = current_change - 1
        /\ last' = p /\ calling' = p
        /\ UNCHANGED <<total, change, met, statusVars, tracked, cb, guard, sets, historyVars>>
    BY DEF Unmatch
  <1>2. change["matched"] = 0 /\ current_change = 0 /\ p # NoPeer /\ p \in met
    BY <1>1, EventsAssumption DEF OneMatchAtATime, TypeOK
  <1>3. TypeOK'
    BY <1>1, <1>2, Types DEF TypeOK, statusVars, historyVars
  <1>4. OneMatchAtATime'
    BY <1>1, <1>2, Types DEF OneMatchAtATime
  <1>5. TrackedWhenTold'
    BY <1>1, EventsAssumption DEF TrackedWhenTold, historyVars, TypeOK
  <1>6. \A k \in Kinds : Outstanding(k)' = Outstanding(k)
    BY <1>1 DEF Outstanding, statusVars
  <1>7. ReportedOnce' /\ NotedIsChanged' /\ ToldOrKept' /\ TypeKept' /\ MatchKept'
    BY <1>1, <1>6, Types
    DEF ReportedOnce, NotedIsChanged, ToldOrKept, TypeKept, MatchKept, statusVars, historyVars
  <1> QED
    BY <1>3, <1>4, <1>5, <1>7

\* The listener notes what is left of the change; if nothing is left, it was stolen.
LEMMA OnMatchedStep ==
  ASSUME EventsInv, OnMatched
  PROVE  EventsInv'
  <1> USE DEF EventsInv
  <1>1. /\ calling # NoPeer /\ calling' = NoPeer
        /\ change' = [change EXCEPT !["matched"] = 0]
        /\ current_change' = 0
        /\ UNCHANGED <<total, matched, met, last, cb, sets, reported, stolen>>
    BY DEF OnMatched
  <1>2. /\ change' \in [Kinds -> Nat]
        /\ change'["matched"] = 0
        /\ \A j \in Kinds \ {"matched"} : change'[j] = change[j]
    BY <1>1, Types
  <1>3. OneMatchAtATime'
    BY <1>1, <1>2 DEF OneMatchAtATime
  <1>4. CASE current_change \in {1, -1}
    <2>1. /\ tracked' = Tracked
          /\ status_total' = [status_total EXCEPT !["matched"] = total'["matched"]]
          /\ status_change' = [status_change EXCEPT !["matched"] = @ + change["matched"]]
          /\ changed' = [changed EXCEPT !["matched"] = TRUE]
          /\ told' = [told EXCEPT !["matched"] = @ + IF cb["matched"] THEN 1 ELSE 0]
          /\ guard' = [guard EXCEPT !["matched"] = TRUE]
      BY <1>4 DEF OnMatched, Update
    <2>2. last = calling /\ calling \in met
      BY <1>1, <1>4 DEF OneMatchAtATime
    <2>3. tracked' \subseteq Peers
      BY <2>1, <2>2 DEF TypeOK, Tracked
    <2>4. TypeOK'
      BY <1>1, <1>2, <2>1, <2>3, Types DEF TypeOK
    <2>5. TrackedWhenTold'
      BY <1>1, <1>4, <2>1, <2>2 DEF TrackedWhenTold, Tracked, OneMatchAtATime
    <2>6. Outstanding("matched")' = Outstanding("matched") /\ Outstanding("matched") \in Nat
      BY <1>2, <2>1, Types DEF Outstanding, NotedIsChanged
    <2>7. told'["matched"] >= told["matched"] /\ told'["matched"] \in Nat
      BY <2>1, <2>4, Types
    <2>8. MatchKept'
      BY <1>1, <2>6, <2>7, Types, StolenCounts DEF MatchKept
    <2>9. reported'["matched"] + Outstanding("matched")' <= total'["matched"]
      BY <1>1, <2>6, Types DEF ReportedOnce
    <2>10. \A j \in Kinds \ {"matched"} :
             /\ total'[j] = total[j] /\ change'[j] = change[j]
             /\ status_change'[j] = status_change[j] /\ changed'[j] = changed[j]
             /\ reported'[j] = reported[j] /\ told'[j] = told[j] /\ cb'[j] = cb[j]
      BY <1>1, <1>2, <2>1, Types
    <2>11. changed'["matched"] /\ sets' >= sets
      BY <1>1, <2>1, Types DEF TypeOK
    <2> QED
      BY <1>3, <2>4, <2>5, <2>8, <2>9, <2>10, <2>11, OtherKinds, Types
  <1>5. CASE current_change \notin {1, -1}
    <2>1. UNCHANGED <<tracked, statusVars, guard, told>>
      BY <1>5 DEF OnMatched
    <2>2. current_change = 0 /\ calling \in stolen /\ change["matched"] = 0
      BY <1>1, <1>5, Types DEF OneMatchAtATime, TypeOK
    <2>3. change' = change
      BY <1>1, <2>2, Types
    <2>4. TypeOK'
      BY <1>1, <2>1, <2>3, Types DEF TypeOK, statusVars
    <2>5. TrackedWhenTold'
      BY <1>1, <2>1, <2>2 DEF TrackedWhenTold
    <2>6. \A k \in Kinds : Outstanding(k)' = Outstanding(k)
      BY <2>1, <2>3 DEF Outstanding, statusVars
    <2>7. ReportedOnce' /\ NotedIsChanged' /\ ToldOrKept' /\ TypeKept' /\ MatchKept'
      BY <1>1, <2>1, <2>3, <2>6, Types
      DEF ReportedOnce, NotedIsChanged, ToldOrKept, TypeKept, MatchKept, statusVars
    <2> QED
      BY <1>3, <2>4, <2>5, <2>7
  <1> QED
    BY <1>4, <1>5

\* What reading a status does to the matches.
LEMMA ReadKeepsMatches ==
  ASSUME EventsInv, NEW k \in Kinds, ReadStatus(k)
  PROVE  /\ OneMatchAtATime'
         /\ stolen' \subseteq met'
         /\ tracked' = tracked => TrackedWhenTold'
         /\ Cardinality(stolen)' \in Nat
         /\ k = "matched" =>
              Cardinality(stolen)' >= Cardinality(stolen) + change["matched"]
         /\ k # "matched" => stolen' = stolen
  <1> USE DEF EventsInv
  <1>1. /\ change' = [change EXCEPT ![k] = 0]
        /\ UNCHANGED <<total, matched, met, last, calling>>
    BY DEF ReadStatus
  <1>2. CASE k # "matched"
    <2>1. UNCHANGED <<current_change, stolen>> /\ change'["matched"] = change["matched"]
      BY <1>1, <1>2, Types DEF ReadStatus
    <2> QED
      BY <1>1, <1>2, <2>1, StolenCounts DEF OneMatchAtATime, TrackedWhenTold, TypeOK
  <1>3. CASE k = "matched" /\ calling = NoPeer
    <2>1. current_change' = 0 /\ stolen' = stolen /\ change'["matched"] = 0
          /\ change["matched"] = 0
      BY <1>1, <1>3, Types DEF ReadStatus, OneMatchAtATime
    <2> QED
      BY <1>1, <1>3, <2>1, StolenCounts DEF OneMatchAtATime, TrackedWhenTold, TypeOK
  <1>4. CASE k = "matched" /\ calling # NoPeer
    <2>1. /\ current_change' = 0 /\ stolen' = stolen \cup {calling} /\ change'["matched"] = 0
          /\ calling \in met /\ calling \in Peers
      BY <1>1, <1>4, Types DEF ReadStatus, OneMatchAtATime, TypeOK
    <2>2. OneMatchAtATime' /\ stolen' \subseteq met' /\ (tracked' = tracked => TrackedWhenTold')
      BY <1>1, <1>4, <2>1 DEF OneMatchAtATime, TrackedWhenTold, TypeOK
    <2>3. change["matched"] \in {0, 1} /\ (change["matched"] = 1 => calling \notin stolen)
      BY Types DEF OneMatchAtATime
    <2>4. Cardinality(stolen') >= Cardinality(stolen) + change["matched"]
          /\ Cardinality(stolen') \in Nat
      BY <2>1, <2>3, StolenCounts
    <2> QED
      BY <1>4, <2>2, <2>4
  <1> QED
    BY <1>2, <1>3, <1>4

\* take_event of a status that is not the matches': what the listener noted, or what the
\* entity has.
LEMMA TakeStep ==
  ASSUME EventsInv, NEW k \in Kinds, Take(k)
  PROVE  EventsInv'
  <1> USE DEF EventsInv
  <1>1. /\ k # "matched"
        /\ changed' = [changed EXCEPT ![k] = FALSE]
        /\ status_change' = [status_change EXCEPT ![k] = 0]
        /\ guard' = [guard EXCEPT ![k] = FALSE]
        /\ UNCHANGED <<tracked, cb, sets, told>>
    BY DEF Take
  <1>2. CASE changed[k]
    <2>1. /\ reported' = [reported EXCEPT ![k] = @ + status_change[k]]
          /\ UNCHANGED <<ddsVars, stolen, status_total>>
      BY <1>2 DEF Take
    <2>2. TypeOK'
      BY <1>1, <2>1, Types DEF TypeOK, ddsVars
    <2>3. OneMatchAtATime' /\ TrackedWhenTold'
      BY <1>1, <2>1 DEF OneMatchAtATime, TrackedWhenTold, ddsVars
    <2>4. \A j \in Kinds \ {k} :
            /\ total'[j] = total[j] /\ change'[j] = change[j]
            /\ status_change'[j] = status_change[j] /\ changed'[j] = changed[j]
            /\ reported'[j] = reported[j] /\ told'[j] = told[j] /\ cb'[j] = cb[j]
      BY <1>1, <2>1, Types DEF ddsVars
    <2>5. reported'[k] + Outstanding(k)' = reported[k] + Outstanding(k)
      BY <1>1, <1>2, <2>1, Types DEF Outstanding, ddsVars
    <2>6. reported'[k] + Outstanding(k)' <= total'[k]
      BY <2>1, <2>5, Types DEF ReportedOnce, ddsVars
    <2>7. status_change'[k] = 0 /\ sets' >= sets
      BY <1>1, Types DEF TypeOK
    <2>8. ToldOrKept'
      BY <1>1, <2>1, <2>2, Types DEF ToldOrKept, ddsVars
    <2>9. k = "type" => TypeKept'
      BY <1>1, <2>1, <2>5, Types DEF TypeKept, ddsVars
    <2> QED
      BY <1>1, <2>1, <2>2, <2>3, <2>4, <2>6, <2>7, <2>8, <2>9, OtherKinds
  <1>3. CASE ~changed[k]
    <2>1. /\ ReadStatus(k)
          /\ reported' = [reported EXCEPT ![k] = @ + change[k]]
          /\ status_total' = [status_total EXCEPT ![k] = total[k]]
      BY <1>3 DEF Take
    <2>2. /\ UNCHANGED <<total, matched, met, last, calling>>
          /\ change' = [change EXCEPT ![k] = 0]
          /\ stolen' = stolen /\ current_change' = current_change
      BY <1>1, <2>1 DEF ReadStatus
    <2>3. TypeOK'
      BY <1>1, <2>1, <2>2, Types DEF TypeOK
    <2>4. OneMatchAtATime' /\ TrackedWhenTold'
      BY <1>1, <2>1, ReadKeepsMatches
    <2>5. \A j \in Kinds \ {k} :
            /\ total'[j] = total[j] /\ change'[j] = change[j]
            /\ status_change'[j] = status_change[j] /\ changed'[j] = changed[j]
            /\ reported'[j] = reported[j] /\ told'[j] = told[j] /\ cb'[j] = cb[j]
      BY <1>1, <2>1, <2>2, Types
    <2>6. reported'[k] + Outstanding(k)' = reported[k] + Outstanding(k)
      BY <1>1, <1>3, <2>1, <2>2, Types DEF Outstanding
    <2>7. reported'[k] + Outstanding(k)' <= total'[k]
      BY <2>2, <2>6, Types DEF ReportedOnce
    <2>8. status_change'[k] = 0 /\ sets' >= sets
      BY <1>1, Types DEF TypeOK
    <2>9. k = "missed" => ToldOrKept'
      BY <1>1, <2>1, <2>2, Types DEF ToldOrKept
    <2>10. k = "type" => TypeKept'
      BY <1>1, <2>2, <2>6, Types DEF TypeKept
    <2> QED
      BY <1>1, <2>2, <2>3, <2>4, <2>5, <2>7, <2>8, <2>9, <2>10, OtherKinds
  <1> QED
    BY <1>2, <1>3

\* take_event of the matches: both.
LEMMA TakeMatchedStep ==
  ASSUME EventsInv, TakeMatched
  PROVE  EventsInv'
  <1> USE DEF EventsInv
  <1> DEFINE k == "matched"
  <1>1. /\ ReadStatus(k)
        /\ reported' = [reported EXCEPT ![k] =
             @ + change[k] + IF changed[k] THEN status_change[k] ELSE 0]
        /\ changed' = [changed EXCEPT ![k] = FALSE]
        /\ status_change' = [status_change EXCEPT ![k] = 0]
        /\ guard' = [guard EXCEPT ![k] = FALSE]
        /\ UNCHANGED <<status_total, tracked, cb, sets, told>>
    BY DEF TakeMatched
  <1>2. /\ UNCHANGED <<total, matched, met, last, calling>>
        /\ change' = [change EXCEPT ![k] = 0]
        /\ current_change' = 0
    BY <1>1 DEF ReadStatus
  <1>3. /\ OneMatchAtATime' /\ TrackedWhenTold' /\ stolen' \subseteq met'
        /\ Cardinality(stolen') \in Nat /\ Cardinality(stolen') >= Cardinality(stolen)
        /\ Cardinality(stolen) \in Nat
    BY <1>1, ReadKeepsMatches, Types, StolenCounts
  <1>4. TypeOK'
    <2>1. reported' \in [Kinds -> Nat] /\ change' \in [Kinds -> Nat]
          /\ status_change' \in [Kinds -> Nat]
      BY <1>1, <1>2, Types
    <2> QED
      BY <1>1, <1>2, <1>3, <2>1, Types DEF TypeOK
  <1>5. \A j \in Kinds \ {k} :
          /\ total'[j] = total[j] /\ change'[j] = change[j]
          /\ status_change'[j] = status_change[j] /\ changed'[j] = changed[j]
          /\ reported'[j] = reported[j] /\ told'[j] = told[j] /\ cb'[j] = cb[j]
    BY <1>1, <1>2, Types
  <1>6. reported'[k] + Outstanding(k)' = reported[k] + Outstanding(k)
    BY <1>1, <1>2, Types DEF Outstanding
  <1>7. reported'[k] + Outstanding(k)' <= total'[k]
    BY <1>2, <1>6, Types DEF ReportedOnce
  <1>8. MatchKept'
    <2>1. Outstanding(k) \in Nat /\ Outstanding(k)' \in Nat
      BY <1>4, Types DEF Outstanding, TypeOK
    <2>2. told' = told /\ total' = total
      BY <1>1, <1>2
    <2>3. reported[k] \in Nat /\ reported'[k] \in Nat /\ told[k] \in Nat /\ total[k] \in Nat
      BY <1>4, Types DEF TypeOK
    <2> QED
      BY <1>3, <1>6, <2>1, <2>2, <2>3 DEF MatchKept
  <1>9. status_change'[k] = 0 /\ sets' >= sets
    BY <1>1, Types DEF TypeOK
  <1> QED
    BY <1>3, <1>4, <1>5, <1>7, <1>8, <1>9, OtherKinds, Types

\* A new callback is told of the change in the entity.  What the listener noted is dropped:
\* an earlier callback was told of it, but for an incompatible type.
LEMMA SetStep ==
  ASSUME EventsInv, NEW k \in Kinds, SetCallback(k)
  PROVE  EventsInv'
  <1> USE DEF EventsInv
  <1>1. /\ k # "matched"
        /\ sets' = sets + 1
        /\ ReadStatus(k)
        /\ status_total' = [status_total EXCEPT ![k] = total[k]]
        /\ status_change' = [status_change EXCEPT ![k] = 0]
        /\ told' = [told EXCEPT ![k] = @ + change[k]]
        /\ cb' = [cb EXCEPT ![k] = TRUE]
        /\ UNCHANGED <<changed, tracked, guard, reported>>
    BY DEF SetCallback, Set
  <1>2. /\ UNCHANGED <<total, matched, met, last, calling>>
        /\ change' = [change EXCEPT ![k] = 0]
        /\ stolen' = stolen /\ current_change' = current_change
    BY <1>1 DEF ReadStatus
  <1>3. TypeOK'
    BY <1>1, <1>2, Types DEF TypeOK
  <1>4. OneMatchAtATime' /\ TrackedWhenTold'
    BY <1>1, ReadKeepsMatches
  <1>5. \A j \in Kinds \ {k} :
          /\ total'[j] = total[j] /\ change'[j] = change[j]
          /\ status_change'[j] = status_change[j] /\ changed'[j] = changed[j]
          /\ reported'[j] = reported[j] /\ told'[j] = told[j] /\ cb'[j] = cb[j]
    BY <1>1, <1>2, Types
  <1>6. reported'[k] + Outstanding(k)' <= total'[k]
    BY <1>1, <1>2, Types DEF ReportedOnce, Outstanding
  <1>7. status_change'[k] = 0 /\ sets' >= sets /\ sets' > 0
    BY <1>1, Types DEF TypeOK
  <1>8. ToldOrKept'
    BY <1>1, <1>2, Types DEF ToldOrKept
  <1>9. TypeKept'
    BY <1>7 DEF TypeKept
  <1> QED
    BY <1>1, <1>2, <1>3, <1>4, <1>5, <1>6, <1>7, <1>8, <1>9, OtherKinds

\* The callback for matches is told of what the listener noted; a match that the listener
\* is not called for yet is discarded, and its endpoint counts as stolen.
LEMMA SetMatchedStep ==
  ASSUME EventsInv, SetMatchedCallback
  PROVE  EventsInv'
  <1> USE DEF EventsInv
  <1> DEFINE k == "matched"
  <1>1. /\ sets' = sets + 1
        /\ cb' = [cb EXCEPT ![k] = TRUE]
        /\ UNCHANGED <<changed, tracked, guard, reported>>
    BY DEF SetMatchedCallback, Set
  <1>2. sets' \in Nat /\ sets' >= sets /\ sets' > 0
    BY <1>1 DEF TypeOK
  <1>3. CASE status_change[k] > 0
    <2>1. /\ ReadStatus(k)
          /\ told' = [told EXCEPT ![k] = @ + status_change[k]]
          /\ status_total' = [status_total EXCEPT ![k] = total[k]]
          /\ status_change' = [status_change EXCEPT ![k] = 0]
      BY <1>3 DEF SetMatchedCallback
    <2>2. /\ UNCHANGED <<total, matched, met, last, calling>>
          /\ change' = [change EXCEPT ![k] = 0]
          /\ current_change' = 0
      BY <2>1 DEF ReadStatus
    <2>3. /\ OneMatchAtATime' /\ TrackedWhenTold' /\ stolen' \subseteq met'
          /\ Cardinality(stolen') \in Nat
          /\ Cardinality(stolen') >= Cardinality(stolen) + change[k]
          /\ Cardinality(stolen) \in Nat
      BY <1>1, <2>1, ReadKeepsMatches, Types, StolenCounts
    <2>4. TypeOK'
      <3>1. told' \in [Kinds -> Nat] /\ change' \in [Kinds -> Nat]
            /\ status_change' \in [Kinds -> Nat] /\ status_total' \in [Kinds -> Nat]
        BY <2>1, <2>2, Types
      <3> QED
        BY <1>1, <1>2, <2>2, <2>3, <3>1, Types DEF TypeOK
    <2>5. \A j \in Kinds \ {k} :
            /\ total'[j] = total[j] /\ change'[j] = change[j]
            /\ status_change'[j] = status_change[j] /\ changed'[j] = changed[j]
            /\ reported'[j] = reported[j] /\ told'[j] = told[j] /\ cb'[j] = cb[j]
      BY <1>1, <2>1, <2>2, Types
    <2>6. /\ changed[k] /\ Outstanding(k) = change[k] + status_change[k]
          /\ Outstanding(k)' = 0
      BY <1>1, <1>3, <2>1, <2>2, Types DEF NotedIsChanged, Outstanding
    <2>7. reported'[k] + Outstanding(k)' <= total'[k]
      BY <1>1, <2>2, <2>6, Types DEF ReportedOnce
    <2>8. MatchKept'
      <3>1. told'[k] = told[k] + status_change[k]
        BY <2>1, Types
      <3> QED
        BY <1>1, <2>2, <2>3, <2>6, <3>1, Types DEF MatchKept
    <2>9. status_change'[k] = 0
      BY <2>1, Types
    <2> QED
      BY <1>2, <2>3, <2>4, <2>5, <2>7, <2>8, <2>9, OtherKinds, Types
  <1>4. CASE ~(status_change[k] > 0)
    <2>1. UNCHANGED <<ddsVars, stolen, told, status_total, status_change>>
      BY <1>4 DEF SetMatchedCallback
    <2>2. TypeOK'
      BY <1>1, <1>2, <2>1, Types DEF TypeOK, ddsVars
    <2>3. \A j \in Kinds : Outstanding(j)' = Outstanding(j)
      BY <1>1, <2>1 DEF Outstanding, ddsVars
    <2>4. cb'["missed"] = cb["missed"]
      BY <1>1, Types
    <2>5. ReportedOnce' /\ NotedIsChanged' /\ ToldOrKept' /\ MatchKept'
      BY <1>1, <2>1, <2>3, <2>4, Types
      DEF ReportedOnce, NotedIsChanged, ToldOrKept, MatchKept, ddsVars
    <2>6. OneMatchAtATime' /\ TrackedWhenTold'
      BY <1>1, <2>1 DEF OneMatchAtATime, TrackedWhenTold, ddsVars
    <2>7. TypeKept'
      BY <1>2 DEF TypeKept
    <2> QED
      BY <2>2, <2>5, <2>6, <2>7
  <1> QED
    BY <1>3, <1>4

\* Clearing a callback changes nothing else.
LEMMA ClearStep ==
  ASSUME EventsInv, NEW k \in Kinds, ClearCallback(k)
  PROVE  EventsInv'
  <1> USE DEF EventsInv
  <1>1. /\ sets' = sets + 1
        /\ cb' = [cb EXCEPT ![k] = FALSE]
        /\ UNCHANGED <<ddsVars, statusVars, tracked, guard, historyVars>>
    BY DEF ClearCallback, Set
  <1>2. sets' \in Nat /\ sets' > 0
    BY <1>1 DEF TypeOK
  <1>3. TypeOK'
    BY <1>1, <1>2, Types DEF TypeOK, ddsVars, statusVars, historyVars
  <1>4. \A j \in Kinds : Outstanding(j)' = Outstanding(j)
    BY <1>1 DEF Outstanding, ddsVars, statusVars
  <1>5. cb'["missed"] => cb["missed"]
    BY <1>1, Types
  <1>6. ReportedOnce' /\ NotedIsChanged' /\ ToldOrKept' /\ MatchKept' /\ TypeKept'
    BY <1>1, <1>2, <1>4, <1>5, Types
    DEF ReportedOnce, NotedIsChanged, ToldOrKept, MatchKept, TypeKept, ddsVars, statusVars,
        historyVars
  <1>7. OneMatchAtATime' /\ TrackedWhenTold'
    BY <1>1 DEF OneMatchAtATime, TrackedWhenTold, ddsVars, historyVars
  <1> QED
    BY <1>3, <1>6, <1>7

------------------------------------------------------------------------------
\* The invariant is inductive.
LEMMA Invariance == Spec => []EventsInv
  <1>1. EventsInv /\ [Next]_vars => EventsInv'
    <2>1. ASSUME EventsInv, UNCHANGED vars PROVE EventsInv'
      <3>1. \A j \in Kinds : Outstanding(j)' = Outstanding(j)
        BY <2>1 DEF vars, Outstanding, ddsVars, statusVars
      <3>2. TypeOK' /\ OneMatchAtATime' /\ TrackedWhenTold'
        BY <2>1
        DEF vars, EventsInv, TypeOK, OneMatchAtATime, TrackedWhenTold, ddsVars, statusVars,
            historyVars
      <3>3. ReportedOnce' /\ NotedIsChanged' /\ ToldOrKept' /\ MatchKept' /\ TypeKept'
        BY <2>1, <3>1, Types
        DEF vars, EventsInv, ReportedOnce, NotedIsChanged, ToldOrKept, MatchKept, TypeKept,
            ddsVars, statusVars, historyVars
      <3> QED
        BY <3>2, <3>3 DEF EventsInv
    <2> QED
      BY <2>1, OccursStep, MatchStep, UnmatchStep, OnMatchedStep, TakeStep, TakeMatchedStep,
         SetStep, SetMatchedStep, ClearStep DEF Next
  <1> QED
    BY <1>1, InitEventsInv, PTL DEF Spec

\* For any peers and events, take_event never reports a change twice.
THEOREM ReportsOnce == Spec => []ReportedOnce
  <1>1. EventsInv => ReportedOnce
    BY DEF EventsInv
  <1> QED
    BY <1>1, Invariance, PTL

\* ... and no change is forgotten, but for the two exceptions that NothingForgotten names.
THEOREM ForgetsNothing == Spec => []NothingForgotten
  <1>1. EventsInv => NothingForgotten
    <2> SUFFICES ASSUME EventsInv, NEW k \in Kinds
                 PROVE  \/ reported[k] + told[k] + Outstanding(k)
                             >= total[k] - IF k = "matched" THEN Cardinality(stolen) ELSE 0
                        \/ k = "type" /\ sets > 0
      BY DEF NothingForgotten
    <2>1. /\ Outstanding(k) \in Nat /\ change[k] \in Nat /\ Outstanding(k) >= change[k]
          /\ reported[k] \in Nat /\ told[k] \in Nat /\ total[k] \in Nat
      BY Types DEF EventsInv, Outstanding
    <2>2. CASE k = "missed"
      BY <2>1, <2>2 DEF EventsInv, ToldOrKept
    <2>3. CASE k = "type"
      BY <2>1, <2>3 DEF EventsInv, TypeKept, TypeOK
    <2>4. CASE k = "matched"
      BY <2>1, <2>4, StolenCounts DEF EventsInv, MatchKept
    <2> QED
      BY <2>2, <2>3, <2>4 DEF Kinds
  <1> QED
    BY <1>1, Invariance, PTL

\* The tracked endpoints are the matched ones whenever no match is under way, but for those
\* whose status was read before the listener could.
THEOREM TracksAllButStolen == Spec => []OffByStolenOnly
  <1>1. EventsInv => OffByStolenOnly
    BY EventsAssumption DEF EventsInv, TrackedWhenTold, OffByStolenOnly, TypeOK
  <1> QED
    BY <1>1, Invariance, PTL
===============================================================================
