----------------------------- MODULE StatusEvents -----------------------------
(***************************************************************************)
(* The events of a publisher or a subscription (custom_subscriber_info.cpp,*)
(* custom_publisher_info.cpp): what take_event reports, what the callbacks *)
(* for events are told, and the set of matched endpoints that the count of *)
(* matches is read from.                                                   *)
(*                                                                         *)
(* Each status exists twice: in the DDS entity, where reading it resets    *)
(* its change, and in the rmw object, where the listener adds up changes.  *)
(* Three statuses stand for all: "missed" for the ones whose listener is  *)
(* called only while a callback is set (deadline, liveliness, lost         *)
(* samples, incompatible QoS), "type" for an incompatible type, which the  *)
(* topic's own listener always hands on, and "matched" for the matches,    *)
(* whose listener is always called too.                                    *)
(*                                                                         *)
(* on_new_event_m_ makes every operation one step.  Fast DDS updates the   *)
(* status of matches before it reads it again for the listener: a reader   *)
(* of the status may come in between.                                      *)
(***************************************************************************)
EXTENDS Integers, FiniteSets

CONSTANTS
  Peers,        \* remote endpoints that may match, each once
  MaxMissed,    \* bound: deadlines missed, and incompatible types
  MaxSets       \* bound: callbacks set or cleared

Kinds == {"missed", "type", "matched"}
NoPeer == "none"

ASSUME EventsAssumption ==
  /\ IsFiniteSet(Peers)
  /\ NoPeer \notin Peers
  /\ MaxMissed \in Nat /\ MaxSets \in Nat


VARIABLES
  \* the DDS entity
  total,          \* [Kinds -> Nat]: total_count
  change,         \* [Kinds -> Nat]: total_count_change since the status was read
  matched,        \* the endpoints that are matched
  met,            \* those that have ever matched
  current_change, \* current_count_change since the status was read
  last,           \* last_publication_handle or last_subscription_handle
  calling,        \* the endpoint whose match or unmatch the listener is to be told of
  \* the rmw object
  status_total,   \* [Kinds -> Nat]: total_count of the status
  status_change,  \* [Kinds -> Nat]: its total_count_change
  changed,        \* [Kinds -> BOOLEAN]: deadline_changed_, ..., matched_changes_
  tracked,        \* publishers_ or subscriptions_
  cb,             \* [Kinds -> BOOLEAN]: on_new_event_cb_ is set
  guard,          \* [Kinds -> BOOLEAN]: event_guard
  sets,           \* callbacks set or cleared so far
  \* history
  reported,       \* [Kinds -> Nat]: the changes that take_event reported, in all
  told,           \* [Kinds -> Nat]: the events that callbacks were told of
  stolen          \* endpoints whose status was read before the listener could

ddsVars     == <<total, change, matched, met, current_change, last, calling>>
statusVars  == <<status_total, status_change, changed>>
historyVars == <<reported, told, stolen>>
vars == <<ddsVars, statusVars, tracked, cb, guard, sets, historyVars>>

Zero == [k \in Kinds |-> 0]
No   == [k \in Kinds |-> FALSE]

Init ==
  /\ total = Zero /\ change = Zero
  /\ matched = {} /\ met = {} /\ current_change = 0 /\ last = NoPeer /\ calling = NoPeer
  /\ status_total = Zero /\ status_change = Zero /\ changed = No
  /\ tracked = {}
  /\ cb = No /\ guard = No /\ sets = 0
  /\ reported = Zero /\ told = Zero /\ stolen = {}

Mut_assign_change(k, n) ==
  /\ status_total' = [status_total EXCEPT ![k] = total'[k]]
  /\ status_change' = [status_change EXCEPT ![k] = n]
  /\ changed' = [changed EXCEPT ![k] = TRUE]
  /\ told' = [told EXCEPT ![k] = @ + IF cb[k] THEN 1 ELSE 0]
  /\ guard' = [guard EXCEPT ![k] = TRUE]

\* update_*: "Assign absolute values", "Accumulate deltas"; then trigger_event.
Update(k, n) ==
  /\ status_total' = [status_total EXCEPT ![k] = total'[k]]
  /\ status_change' = [status_change EXCEPT ![k] = @ + n]
  /\ changed' = [changed EXCEPT ![k] = TRUE]
  /\ told' = [told EXCEPT ![k] = @ + IF cb[k] THEN 1 ELSE 0]
  /\ guard' = [guard EXCEPT ![k] = TRUE]

(***************************************************************************)
(* A deadline is missed, or an endpoint of another type appears.  The mask *)
(* has the deadline's status while a callback is set; the topic's listener *)
(* has no mask.                                                            *)
(***************************************************************************)
Listening(k) == k = "type" \/ cb[k]

Occurs(k) ==
  /\ k # "matched" /\ total[k] < MaxMissed
  /\ total' = [total EXCEPT ![k] = @ + 1]
  /\ IF Listening(k)
       THEN /\ Update(k, change[k] + 1)
            /\ change' = [change EXCEPT ![k] = 0]
       ELSE /\ change' = [change EXCEPT ![k] = @ + 1]
            /\ UNCHANGED <<statusVars, guard, told>>
  /\ UNCHANGED <<matched, met, current_change, last, calling, tracked, cb, sets, reported, stolen>>

(***************************************************************************)
(* Matches.  The entity's status changes; then the listener is called with *)
(* what is left of the change, and ignores all but +1 and -1.              *)
(***************************************************************************)
Match(p) ==
  /\ calling = NoPeer
  /\ p \notin met
  /\ met' = met \cup {p} /\ matched' = matched \cup {p}
  /\ total' = [total EXCEPT !["matched"] = @ + 1]
  /\ change' = [change EXCEPT !["matched"] = @ + 1]
  /\ current_change' = current_change + 1
  /\ last' = p /\ calling' = p
  /\ UNCHANGED <<statusVars, tracked, cb, guard, sets, historyVars>>

Unmatch(p) ==
  /\ calling = NoPeer
  /\ p \in matched
  /\ matched' = matched \ {p}
  /\ current_change' = current_change - 1
  /\ last' = p /\ calling' = p
  /\ UNCHANGED <<total, change, met, statusVars, tracked, cb, guard, sets, historyVars>>

Mut_untrack_nothing == IF current_change = 1 THEN tracked \cup {last} ELSE tracked

\* track_unique_publisher and untrack_unique_publisher.
Tracked == IF current_change = 1 THEN tracked \cup {last} ELSE tracked \ {last}

\* on_subscription_matched or on_publication_matched.
OnMatched ==
  /\ calling # NoPeer
  /\ calling' = NoPeer
  /\ change' = [change EXCEPT !["matched"] = 0]
  /\ current_change' = 0
  /\ UNCHANGED total
  /\ IF current_change \in {1, -1}
       THEN /\ tracked' = Tracked
            /\ Update("matched", change["matched"])
       ELSE UNCHANGED <<tracked, statusVars, guard, told>>
  /\ UNCHANGED <<matched, met, last, cb, sets, reported, stolen>>

\* get_*_status of the entity: the change is reset for everybody else.
ReadStatus(k) ==
  /\ change' = [change EXCEPT ![k] = 0]
  /\ current_change' = IF k = "matched" THEN 0 ELSE current_change
  /\ stolen' = IF k = "matched" /\ calling # NoPeer THEN stolen \cup {calling} ELSE stolen
  /\ UNCHANGED <<total, matched, met, last, calling>>

(***************************************************************************)
(* take_event.                                                             *)
(***************************************************************************)
Mut_keep_the_delta(k) ==
  /\ k # "matched"
  /\ IF changed[k]
       THEN /\ reported' = [reported EXCEPT ![k] = @ + status_change[k]]
            /\ UNCHANGED <<ddsVars, stolen, status_total>>
       ELSE /\ ReadStatus(k)
            /\ reported' = [reported EXCEPT ![k] = @ + change[k]]
            /\ status_total' = [status_total EXCEPT ![k] = total[k]]
  /\ changed' = [changed EXCEPT ![k] = FALSE]
  /\ guard' = [guard EXCEPT ![k] = FALSE]
  /\ UNCHANGED <<status_change, tracked, cb, sets, told>>

\* What the listener noted, if it noted something, else what the entity has.
Take(k) ==
  /\ k # "matched"
  /\ IF changed[k]
       THEN /\ reported' = [reported EXCEPT ![k] = @ + status_change[k]]
            /\ UNCHANGED <<ddsVars, stolen, status_total>>
       ELSE /\ ReadStatus(k)
            /\ reported' = [reported EXCEPT ![k] = @ + change[k]]
            /\ status_total' = [status_total EXCEPT ![k] = total[k]]
  /\ changed' = [changed EXCEPT ![k] = FALSE]
  /\ status_change' = [status_change EXCEPT ![k] = 0]
  /\ guard' = [guard EXCEPT ![k] = FALSE]
  /\ UNCHANGED <<tracked, cb, sets, told>>

\* Both: what the entity has and what the listener noted.
TakeMatched ==
  /\ ReadStatus("matched")
  /\ reported' = [reported EXCEPT !["matched"] =
       @ + change["matched"] + IF changed["matched"] THEN status_change["matched"] ELSE 0]
  /\ changed' = [changed EXCEPT !["matched"] = FALSE]
  /\ status_change' = [status_change EXCEPT !["matched"] = 0]
  /\ guard' = [guard EXCEPT !["matched"] = FALSE]
  /\ UNCHANGED <<status_total, tracked, cb, sets, told>>

(***************************************************************************)
(* set_on_new_event_callback.                                              *)
(***************************************************************************)
Set == sets < MaxSets /\ sets' = sets + 1

\* The new callback is told of the change in the entity, which replaces what the
\* listener noted.
SetCallback(k) ==
  /\ k # "matched"
  /\ Set
  /\ ReadStatus(k)
  /\ status_total' = [status_total EXCEPT ![k] = total[k]]
  /\ status_change' = [status_change EXCEPT ![k] = 0]
  /\ told' = [told EXCEPT ![k] = @ + change[k]]
  /\ cb' = [cb EXCEPT ![k] = TRUE]
  /\ UNCHANGED <<changed, tracked, guard, reported>>

\* It is told of what the listener noted, and what the entity has is discarded.
SetMatchedCallback ==
  /\ Set
  /\ IF status_change["matched"] > 0
       THEN /\ ReadStatus("matched")
            /\ told' = [told EXCEPT !["matched"] = @ + status_change["matched"]]
            /\ status_total' = [status_total EXCEPT !["matched"] = total["matched"]]
            /\ status_change' = [status_change EXCEPT !["matched"] = 0]
       ELSE UNCHANGED <<ddsVars, stolen, told, status_total, status_change>>
  /\ cb' = [cb EXCEPT !["matched"] = TRUE]
  /\ UNCHANGED <<changed, tracked, guard, reported>>

ClearCallback(k) ==
  /\ Set
  /\ cb' = [cb EXCEPT ![k] = FALSE]
  /\ UNCHANGED <<ddsVars, statusVars, tracked, guard, historyVars>>

Next ==
  \/ \E p \in Peers : Match(p) \/ Unmatch(p)
  \/ OnMatched
  \/ TakeMatched
  \/ SetMatchedCallback
  \/ \E k \in Kinds : Occurs(k) \/ Take(k) \/ SetCallback(k) \/ ClearCallback(k)

Spec == Init /\ [][Next]_vars

------------------------------------------------------------------------------
(***************************************************************************)
(* Properties.                                                             *)
(***************************************************************************)

\* Type invariant.
TypeOK ==
  /\ {total, change, status_total, status_change, reported, told} \subseteq [Kinds -> Nat]
  /\ {changed, cb, guard} \subseteq [Kinds -> BOOLEAN]
  /\ matched \subseteq met /\ stolen \subseteq met /\ met \subseteq Peers
  /\ tracked \subseteq Peers
  /\ current_change \in {-1, 0, 1}
  /\ {last, calling} \subseteq Peers \cup {NoPeer}
  /\ sets \in Nat

\* What is noted for the next take_event or still in the entity.
Outstanding(k) == change[k] + IF changed[k] THEN status_change[k] ELSE 0

\* No change is reported twice: whether it went through the listener or stayed in the
\* entity, and however the callback came and went, what take_event has reported and will
\* report is not more than what happened.
ReportedOnce == \A k \in Kinds : reported[k] + Outstanding(k) <= total[k]

\* No change is forgotten: it is in the entity, noted by the listener, reported, or a callback
\* was told of it, however the callback is set and cleared.  Two exceptions: a match that the
\* entity knows when a new callback is set and that its listener is not called for yet; and
\* an incompatible type, which setting a callback makes the object forget.
NothingForgotten ==
  \A k \in Kinds :
    \/ reported[k] + told[k] + Outstanding(k)
         >= total[k] - IF k = "matched" THEN Cardinality(stolen) ELSE 0
    \/ k = "type" /\ sets > 0

\* The set that the count of matches is read from differs from the matched endpoints, once
\* the listener has been called, only by those whose status was read under its nose.
OffByStolenOnly ==
  calling = NoPeer => (tracked \ matched) \cup (matched \ tracked) \subseteq stolen

(***************************************************************************)
(* The strengthening of the three that is inductive.                       *)
(***************************************************************************)

\* What take_event cleared is noted no more.
NotedIsChanged == \A k \in Kinds : ~changed[k] => status_change[k] = 0

\* Between the entity's change and the listener's call: the change is the one that the
\* listener is to be called for, unless somebody read the status.
OneMatchAtATime ==
  /\ calling = NoPeer => change["matched"] = 0 /\ current_change = 0
  /\ calling # NoPeer =>
       /\ calling \in met
       /\ current_change = 1 => last = calling /\ calling \in matched
       /\ current_change = -1 => last = calling /\ calling \notin matched
       /\ current_change = 0 => calling \in stolen
  /\ change["matched"] > 0 =>
       change["matched"] = 1 /\ current_change = 1 /\ calling \notin stolen

\* A callback is told at once of what its listener notes, and when it is set of what is in
\* the entity.
ToldOrKept ==
  /\ cb["missed"] => change["missed"] = 0
  /\ reported["missed"] + told["missed"] + change["missed"] >= total["missed"]

TypeKept ==
  sets = 0 => /\ told["type"] = 0 /\ ~cb["type"]
              /\ reported["type"] + Outstanding("type") >= total["type"]

MatchKept ==
  reported["matched"] + told["matched"] + Outstanding("matched") + Cardinality(stolen)
    >= total["matched"]

TrackedWhenTold ==
  (tracked \ matched) \cup (matched \ tracked) \subseteq stolen \cup {calling}

EventsInv ==
  /\ TypeOK
  /\ NotedIsChanged
  /\ OneMatchAtATime
  /\ ReportedOnce
  /\ ToldOrKept
  /\ TypeKept
  /\ MatchKept
  /\ TrackedWhenTold
==============================================================================
