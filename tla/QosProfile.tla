----------------------------- MODULE QosProfile ------------------------------
(***************************************************************************)
(* From an rmw_qos_profile_t to the QoS of a Fast DDS endpoint, and back   *)
(* (rmw_fastrtps_shared_cpp/src/qos.cpp, .../qos.hpp, time_utils.cpp).     *)
(* A profile is a record of policies:                                      *)
(*   history, durability, reliability, liveliness: a kind, "default"       *)
(*     (SYSTEM_DEFAULT) or "unknown" (any value the switches do not name); *)
(*   depth: 0 (SYSTEM_DEFAULT) or a number of samples;                     *)
(*   lifespan, deadline, lease: 0 (unspecified), Infinite or seconds.      *)
(* The endpoint's QoS has the same fields, with announcement, the period   *)
(* of the assertions of liveliness, and perInstance, the samples kept of   *)
(* each instance.                                                          *)
(***************************************************************************)
EXTENDS Integers

CONSTANTS
  MaxInt    \* the greatest depth and second of Fast DDS (INT32_MAX, scaled)

ASSUME MaxIntAssumption == MaxInt \in Nat \ {0}

Infinite == -1
Refused == [refused |-> TRUE]

Times == Nat \cup {Infinite}
RmwQos == [history : STRING, durability : STRING, reliability : STRING, liveliness : STRING,
           depth : Nat, lifespan : Times, deadline : Times, lease : Times]
EntityQos == [history : STRING, durability : STRING, reliability : STRING, liveliness : STRING,
              depth : 0 .. MaxInt, lifespan : Times, deadline : Times, lease : Times,
              announcement : Times, perInstance : Nat]

Chosen(asked, systemDefault) == IF asked = "default" THEN systemDefault ELSE asked

\* rmw_time_to_fastrtps: infinity is kept and the rest clamped.
ToDuration(time) == IF time > MaxInt THEN MaxInt ELSE time
ChosenTime(asked, systemDefault) == IF asked = 0 THEN systemDefault ELSE ToDuration(asked)

\* The depth of the defaults (or of an XML profile) is only ever raised.
Mut_depth_lowered(asked, systemDefault) ==
  IF asked # 0 /\ asked < systemDefault THEN asked ELSE systemDefault
ChosenDepth(asked, systemDefault) == IF asked > systemDefault THEN asked ELSE systemDefault

\* Two thirds of the lease; an infinite one counts as the greatest duration.
Announcement(lease) == (2 * (IF lease = Infinite THEN MaxInt ELSE lease)) \div 3

\* fill_entity_qos_from_profile refuses what it cannot convert.
Accepts(profile, default) ==
  /\ "unknown" \notin {profile.history, profile.durability, profile.reliability,
                       profile.liveliness}
  /\ profile.depth > default.depth => profile.depth <= MaxInt

FillEntityQos(profile, default) ==
  IF ~Accepts(profile, default) THEN Refused
  ELSE [default EXCEPT
          !.history = Chosen(profile.history, @),
          !.durability = Chosen(profile.durability, @),
          !.reliability = Chosen(profile.reliability, @),
          !.liveliness = Chosen(profile.liveliness, @),
          !.depth = ChosenDepth(profile.depth, @),
          !.lifespan = ChosenTime(profile.lifespan, @),
          !.deadline = ChosenTime(profile.deadline, @),
          !.lease = ChosenTime(profile.lease, @),
          !.announcement = IF profile.lease = 0 THEN @
                           ELSE Announcement(ToDuration(profile.lease))]

\* apply_qos_resource_limits_for_keys: 0 means without limit.
LimitForKeys(qos) ==
  [qos EXCEPT !.perInstance = IF qos.history = "keep_last" THEN qos.depth ELSE 0]

\* dds_qos_to_rmw_qos, what is reported of an endpoint of this participant.
ToRmw(qos) ==
  [history |-> qos.history, durability |-> qos.durability, reliability |-> qos.reliability,
   liveliness |-> qos.liveliness, depth |-> qos.depth, lifespan |-> qos.lifespan,
   deadline |-> qos.deadline, lease |-> qos.lease]

\* rtps_qos_to_rmw_qos, what is reported of a discovered one, which need not
\* announce its history; the depth is then left as it was in the report.
DiscoveredToRmw(qos, announced, report) ==
  IF announced THEN ToRmw(qos)
  ELSE [ToRmw(qos) EXCEPT !.history = "unknown", !.depth = report.depth]

-----------------------------------------------------------------------------
\* What a profile read back must say of the one asked for.
KindKept(asked, got) == asked \in {"default", got}
TimeKept(asked, got) == \/ asked = 0
                        \/ asked = got
                        \/ asked > MaxInt /\ got = MaxInt

Honours(got, profile) ==
  /\ KindKept(profile.history, got.history)
  /\ KindKept(profile.durability, got.durability)
  /\ KindKept(profile.reliability, got.reliability)
  /\ KindKept(profile.liveliness, got.liveliness)
  /\ got.depth >= profile.depth
  /\ TimeKept(profile.lifespan, got.lifespan)
  /\ TimeKept(profile.deadline, got.deadline)
  /\ TimeKept(profile.lease, got.lease)
=============================================================================
