--------------------------- MODULE DataNotification ---------------------------
(***************************************************************************)
(* How the user's callback for new data learns of the samples of one DDS   *)
(* reader:                                                                 *)
(*                                                                         *)
(*   subscription  custom_subscriber_info.cpp  set_on_new_message_callback,*)
(*                                             update_data_available       *)
(*   client        custom_client_info.hpp      ClientListener              *)
(*   service       custom_service_info.hpp     ServiceListener             *)
(*                                                                         *)
(* Two locks meet: the reader's own, which Fast DDS holds from the arrival *)
(* of a sample to the end of on_data_available, and on_new_message_m_ (or  *)
(* on_new_response_m_, on_new_request_m_), which protects the callback.    *)
(* The setter counts the unread samples, under the reader's lock, before   *)
(* it takes the callback's lock.                                           *)
(***************************************************************************)
EXTENDS Naturals

CONSTANTS
  Kind,         \* "subscription", "client" or "service"
  Setters,      \* threads that set or clear the callback
  Callbacks,    \* the callbacks they set
  MaxSamples,   \* bound: samples that arrive
  MaxSets       \* bound: calls that set or clear the callback

None == "none"

ASSUME NotificationAssumption ==
  /\ Kind \in {"subscription", "client", "service"}
  /\ None \notin Callbacks
  /\ None \notin Setters
  /\ MaxSamples \in Nat
  /\ MaxSets \in Nat

Samples == 1..MaxSamples

VARIABLES
  arrived,      \* samples that have arrived: 1..arrived
  history,      \* samples in the reader's history
  unread,       \* those of them that are not marked as read
  delivering,   \* Fast DDS is calling on_data_available, holding the reader's lock
  mask,         \* data_available is in the status mask of the listener
  cb,           \* the installed callback
  lock,         \* owner of the callback's lock
  pc,           \* where each setter is
  arg,          \* the callback each setter sets
  held,         \* samples each setter has counted and not announced
  sets,         \* calls of the setters so far
  announced,    \* [Samples -> Nat]: times a callback counted the sample
  raced,        \* a sample arrived while a setter was between count and install
  crashed       \* an empty callback was called

setterVars == <<lock, pc, arg, held, sets>>
readerVars == <<arrived, history, unread>>
vars == <<readerVars, delivering, mask, cb, setterVars, announced, raced, crashed>>

Init ==
  /\ arrived = 0
  /\ history = {}
  /\ unread = {}
  /\ delivering = FALSE
  /\ mask = FALSE
  /\ cb = None
  /\ lock = None
  /\ pc = [s \in Setters |-> "idle"]
  /\ arg = [s \in Setters |-> None]
  /\ held = [s \in Setters |-> {}]
  /\ sets = 0
  /\ announced = [m \in Samples |-> 0]
  /\ raced = FALSE
  /\ crashed = FALSE

\* A callback is called with the number of samples in S.
Announce(S) == announced' = [m \in Samples |-> announced[m] + IF m \in S THEN 1 ELSE 0]

Mut_count_only == unread' = unread

\* get_unread_count(true): the samples it counts become read.
MarkAsRead == unread' = {}

InSetter(s) == pc[s] \in {"counted", "locked"}

------------------------------------------------------------------------------
\* A sample arrives.  Fast DDS calls the listener only if its mask says so.
Arrive ==
  /\ ~delivering
  /\ arrived < MaxSamples
  /\ arrived' = arrived + 1
  /\ history' = history \cup {arrived + 1}
  /\ unread' = unread \cup {arrived + 1}
  /\ delivering' = mask
  /\ raced' = (raced \/ \E s \in Setters : InSetter(s) /\ arg[s] # None)
  /\ UNCHANGED <<mask, cb, setterVars, announced, crashed>>

\* update_data_available and ClientListener::on_data_available do nothing without a
\* callback; ServiceListener::on_data_available does not look.
ChecksCallback == Kind # "service"

\* on_data_available, under the callback's lock.
OnDataAvailable ==
  /\ delivering
  /\ lock = None
  /\ delivering' = FALSE
  /\ \/ /\ ChecksCallback /\ cb = None
        /\ UNCHANGED <<unread, announced, raced, crashed>>
     \/ /\ ~ChecksCallback \/ cb # None
        /\ unread # {} /\ cb # None
        /\ MarkAsRead
        /\ Announce(unread)
        /\ raced' = FALSE
        /\ UNCHANGED crashed
     \/ /\ ~ChecksCallback \/ cb # None
        /\ unread = {}
        /\ UNCHANGED <<unread, announced, raced, crashed>>
     \/ /\ ~ChecksCallback /\ cb = None /\ unread # {}
        /\ crashed' = TRUE
        /\ UNCHANGED <<unread, announced, raced>>
  /\ UNCHANGED <<arrived, history, mask, cb, setterVars>>

\* The application takes a sample: the oldest, whether it was announced or not.
Take ==
  /\ ~delivering
  /\ \E m \in history :
       /\ \A n \in history : m <= n
       /\ history' = history \ {m}
       /\ unread' = unread \ {m}
  /\ UNCHANGED <<arrived, delivering, mask, cb, setterVars, announced, raced, crashed>>

------------------------------------------------------------------------------
(***************************************************************************)
(* set_on_new_message_callback, set_on_new_response_callback and           *)
(* set_on_new_request_callback.                                            *)
(***************************************************************************)

Mut_count_under_lock(s, c) ==
  \/ /\ pc[s] = "idle" /\ sets < MaxSets /\ lock = None
     /\ lock' = s
     /\ pc' = [pc EXCEPT ![s] = "counted"]
     /\ arg' = [arg EXCEPT ![s] = c]
     /\ sets' = sets + 1
     /\ UNCHANGED <<readerVars, delivering, mask, cb, held, announced, raced, crashed>>
  \/ /\ pc[s] = "counted" /\ arg[s] = c /\ lock = s /\ ~delivering
     /\ MarkAsRead
     /\ held' = [held EXCEPT ![s] = unread]
     /\ pc' = [pc EXCEPT ![s] = "locked"]
     /\ raced' = FALSE
     /\ UNCHANGED <<arrived, history, delivering, mask, cb, lock, arg, sets, announced, crashed>>

\* With a callback: the unread samples are counted, which takes the reader's lock.
Count(s, c) ==
  /\ pc[s] = "idle" /\ sets < MaxSets
  /\ ~delivering
  /\ MarkAsRead
  /\ held' = [held EXCEPT ![s] = unread]
  /\ pc' = [pc EXCEPT ![s] = "counted"]
  /\ arg' = [arg EXCEPT ![s] = c]
  /\ sets' = sets + 1
  /\ raced' = FALSE
  /\ UNCHANGED <<arrived, history, delivering, mask, cb, lock, announced, crashed>>

\* Without one: nothing is counted.
Clear(s) ==
  /\ pc[s] = "idle" /\ sets < MaxSets
  /\ pc' = [pc EXCEPT ![s] = "counted"]
  /\ arg' = [arg EXCEPT ![s] = None]
  /\ sets' = sets + 1
  /\ UNCHANGED <<readerVars, delivering, mask, cb, lock, held, announced, raced, crashed>>

Lock(s) ==
  /\ pc[s] = "counted"
  /\ lock = None
  /\ lock' = s
  /\ pc' = [pc EXCEPT ![s] = "locked"]
  /\ UNCHANGED <<readerVars, delivering, mask, cb, arg, held, sets, announced, raced, crashed>>

Unlock(s) ==
  /\ lock' = None
  /\ pc' = [pc EXCEPT ![s] = "idle"]
  /\ held' = [held EXCEPT ![s] = {}]
  /\ UNCHANGED <<arg, sets>>

Mut_install_without_mask(s) ==
  /\ pc[s] = "locked"
  /\ arg[s] # None
  /\ Announce(held[s])
  /\ cb' = arg[s]
  /\ UNCHANGED mask
  /\ Unlock(s)
  /\ UNCHANGED <<readerVars, delivering, raced, crashed>>

\* The callback is called for what was counted and installed; the mask lets Fast DDS
\* call the listener from now on.
Install(s) ==
  /\ pc[s] = "locked"
  /\ arg[s] # None
  /\ Announce(held[s])
  /\ cb' = arg[s]
  /\ mask' = TRUE
  /\ Unlock(s)
  /\ UNCHANGED <<readerVars, delivering, raced, crashed>>

Uninstall(s) ==
  /\ pc[s] = "locked"
  /\ arg[s] = None
  /\ cb' = None
  /\ mask' = FALSE
  /\ Unlock(s)
  /\ UNCHANGED <<readerVars, delivering, announced, raced, crashed>>

SetterStep(s) ==
  \/ \E c \in Callbacks : Count(s, c)
  \/ Clear(s)
  \/ Lock(s)
  \/ Install(s)
  \/ Uninstall(s)

Next ==
  /\ ~crashed
  /\ Arrive \/ OnDataAvailable \/ Take \/ \E s \in Setters : SetterStep(s)

Spec == Init /\ [][Next]_vars

\* Fast DDS finishes the call of the listener, and a thread inside a setter goes on.
Fairness ==
  /\ WF_vars(Next /\ OnDataAvailable)
  /\ \A s \in Setters : WF_vars(Next /\ pc[s] # "idle" /\ SetterStep(s))

FairSpec == Spec /\ Fairness

------------------------------------------------------------------------------
(***************************************************************************)
(* Properties.                                                             *)
(***************************************************************************)

\* Type invariant; the owner of the callback's lock is the setter that took it, and the
\* listener is called only while a callback is installed.
TypeOK ==
  /\ arrived \in 0..MaxSamples
  /\ history \subseteq Samples
  /\ unread \subseteq history
  /\ delivering \in BOOLEAN
  /\ cb \in Callbacks \cup {None}
  /\ mask \in BOOLEAN
  /\ mask <=> cb # None
  /\ lock \in Setters \cup {None}
  /\ pc \in [Setters -> {"idle", "counted", "locked"}]
  /\ \A s \in Setters : pc[s] = "locked" <=> lock = s
  /\ arg \in [Setters -> Callbacks \cup {None}]
  /\ held \in [Setters -> SUBSET Samples]
  /\ sets \in 0..MaxSets
  /\ announced \in [Samples -> Nat]
  /\ raced \in BOOLEAN
  /\ crashed \in BOOLEAN

\* No sample is announced twice, whichever of the setters and the listener counts it:
\* counting marks as read, so a sample is unread, with one setter, or announced.
AnnouncedOnce ==
  /\ \A m \in Samples : announced[m] <= 1
  /\ \A m \in unread : announced[m] = 0 /\ \A s \in Setters : m \notin held[s]
  /\ \A s, u \in Setters : \A m \in held[s] :
       announced[m] = 0 /\ (m \in held[u] => u = s)

\* Nobody is about to announce anything.
Quiet == ~delivering /\ \A s \in Setters : pc[s] = "idle"

\* With a callback installed, an unread sample that nobody is about to announce arrived
\* between a setter's count and its install: that window is the only way to miss one.
SilentOnlyAfterRace == cb # None /\ Quiet /\ unread # {} => raced

\* Setters and the listener wait for each other's locks but never for ever: the count
\* comes before the lock.
LocksAreReleased ==
  /\ delivering ~> ~delivering
  /\ \A s \in Setters : pc[s] # "idle" ~> pc[s] = "idle"

(***************************************************************************)
(* The inductive invariant behind the safety properties.                   *)
(***************************************************************************)

\* Samples that have not arrived are nowhere.
NotYetArrived ==
  \A m \in Samples : m > arrived =>
    m \notin history /\ announced[m] = 0 /\ \A s \in Setters : m \notin held[s]

\* Without a race, unread samples are about to be announced by the listener or wait for
\* a callback, and every setter that will install one has yet to count.
UnreadExplained ==
  unread # {} /\ ~raced =>
    /\ cb = None \/ delivering
    /\ \A s \in Setters : InSetter(s) => arg[s] = None

IInv == TypeOK /\ NotYetArrived /\ AnnouncedOnce /\ UnreadExplained
==============================================================================
