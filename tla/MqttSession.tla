------------------------------- MODULE MqttSession ------------------------------
(***************************************************************************)
(* MqttWireSession of meshscope_edge.h and the jobs that use one: the probe *)
(* of the router's ACL, the refresh of the backhaul PHY rates and a steering *)
(* request in the MQTT worker, a hop test and the cancellation of a          *)
(* temporary blacklist in the HTTP task.  The session of                    *)
(* mqtt_monitor_backhaul, which watches a child after a steering request,   *)
(* is left out.                                                             *)
(*                                                                         *)
(* A session is one TCP connection: subscribe to everything, publish the    *)
(* topics of the job with QoS 1, and read whatever arrives until the PUBACK *)
(* or a deadline.  Sessions share nothing, so one is looked at at a time;   *)
(* the order of a session's packets is TCP's.  The router's broker is not   *)
(* part of the repository: it may accept a message and acknowledge it late, *)
(* or never.                                                                *)
(***************************************************************************)
EXTENDS Integers, Sequences, FiniteSets

CONSTANTS
  Jobs,       (* bound: the jobs that are started                             *)
  Records,    (* bound: what the broker's other clients publish               *)
  MaxUnread   (* bound: packets in the socket                                 *)

Kinds == {"DEVINFO", "serving_channels", "other"}

ASSUME SessionAssumption ==
  /\ Jobs \subseteq {"probe", "phy", "steer", "hop-test", "cancel"}
  /\ Records \subseteq [kind : Kinds, parent : BOOLEAN, bssid : BOOLEAN,
                        channel : BOOLEAN]
  /\ MaxUnread \in Nat \ {0}

VARIABLES
  mode, available,  (* mqtt_mode, mqtt_available                              *)
  cooldown,         (* hop_test_cooldowns has a younger entry for the Node    *)
  job, stage,       (* which job is at which place of its session             *)
  todo,             (* topics it has still to publish                         *)
  packet_id,        (* the last id; SUBSCRIBE has 1                           *)
  socket, aligned,  (* unread packets; the next byte is a header              *)
  saw_devinfo,
  target,           (* MqttRadioTarget: the records its fields come from      *)
  delivered,        (* ids the broker has accepted                            *)
  replied,          (* ids it has answered                                    *)
  \* History, read by properties only.
  acknowledged,     (* publishes that returned true, by packet id             *)
  answered          (* a hop test of the last minute was answered with 202    *)

shared_vars  == <<mode, available, cooldown, answered>>
radio_vars   == <<saw_devinfo, target>>
broker_vars  == <<delivered, replied>>
session_vars == <<job, stage, todo, packet_id, acknowledged>>
vars == <<shared_vars, session_vars, socket, aligned, radio_vars, broker_vars>>

--------------------------------------------------------------------------------

Modes == {"auto", "force-on", "force-off"}
HttpJobs == {"hop-test", "cancel"}

\* The topics in their order.  "subdev" is the refresh whose failure is only
\* logged; a steering request knows its target before it publishes the last two.
Refreshes == <<"all", "devinfo", "backhaul">>
Script(j) == CASE j = "probe"    -> Refreshes
               [] j = "phy"      -> <<"backhaul">>
               [] j = "steer"    -> Refreshes \o <<"subdev", "command">>
               [] j = "hop-test" -> <<"speed">>
               [] OTHER          -> <<"blacklist">>

NoTarget == [valid |-> FALSE, bssid |-> "none", channel |-> "none"]
Fields   == {"none", "DEVINFO", "serving_channels", "JNAP"}
Waits    == {"suback", "puback", "devinfo", "echo"}

Suback == [type |-> "SUBACK", id |-> 1]
Puback(i) == [type |-> "PUBACK", id |-> i]
Publication(r) == [type |-> "PUBLISH", record |-> r]

\* Mutation of Closed: the next session goes on counting.
ClosedKeepingId ==
  /\ job' = "none" /\ stage' = "idle" /\ todo' = <<>> /\ packet_id' = packet_id
  /\ socket' = <<>> /\ aligned' = TRUE
  /\ saw_devinfo' = FALSE /\ target' = NoTarget
  /\ delivered' = {} /\ replied' = {} /\ acknowledged' = {}
\* No session: the socket is closed, what was in it is gone.
Closed == /\ job' = "none" /\ stage' = "idle" /\ todo' = <<>> /\ packet_id' = 0
          /\ socket' = <<>> /\ aligned' = TRUE
          /\ saw_devinfo' = FALSE /\ target' = NoTarget
          /\ delivered' = {} /\ replied' = {} /\ acknowledged' = {}

Init == /\ mode \in Modes /\ available = FALSE /\ cooldown = FALSE
        /\ answered = FALSE
        /\ job = "none" /\ stage = "idle" /\ todo = <<>> /\ packet_id = 0
        /\ socket = <<>> /\ aligned = TRUE
        /\ saw_devinfo = FALSE /\ target = NoTarget
        /\ delivered = {} /\ replied = {} /\ acknowledged = {}

--------------------------------------------------------------------------------
(* How a job begins and ends. *)

Open(j) == /\ job' = j /\ stage' = "connect" /\ todo' = Script(j)
           /\ UNCHANGED <<packet_id, acknowledged, socket, aligned, radio_vars,
                          broker_vars>>

\* mqtt_steering_worker: nothing in force-off; the PHY rates are asked for when
\* the router is known, or said, to allow it.
WorkerMay(j) == /\ mode # "force-off"
                /\ j = "phy" => mode = "force-on" \/ available
StartWorkerJob(j) ==
  /\ job = "none" /\ WorkerMay(j) /\ Open(j)
  /\ UNCHANGED shared_vars

\* mqtt_hop_test_handler: the mode, then one request per Node and minute.
HopTestMay == /\ mode # "force-off" /\ (mode = "auto" => available)
              /\ ~cooldown
StartHopTest ==
  /\ job = "none" /\ HopTestMay
  /\ Open("hop-test") /\ cooldown' = TRUE
  /\ UNCHANGED <<mode, available, answered>>

\* mqtt_blacklist_cancel_handler asks for no mode.
StartCancel == /\ job = "none" /\ Open("cancel") /\ UNCHANGED shared_vars

\* Mutation of Conclude: the cooldown is given back whatever the answer is.
ConcludeErasing(ok) ==
  /\ UNCHANGED available
  /\ cooldown' = (cooldown /\ job # "hop-test")
  /\ answered' = (answered \/ (job = "hop-test" /\ ok))
  /\ UNCHANGED mode

\* What the job makes of its session, unless mqtt_steering_mutex is busy: a probe
\* and a steering request say what the router allows, whatever the mode is by
\* then; a hop test that failed gives the cooldown back.
Conclude(ok) ==
  /\ available' \in {available} \cup {ok : j \in {job} \cap {"probe", "steer"}}
  /\ \/ UNCHANGED cooldown
     \/ job = "hop-test" /\ ~ok /\ cooldown' = FALSE
  /\ answered' = (answered \/ (job = "hop-test" /\ ok))
  /\ UNCHANGED mode
End(ok) == Conclude(ok) /\ Closed

--------------------------------------------------------------------------------
(* The session. *)

\* An address, a socket, a connection, CONNECT and its CONNACK.
Connect ==
  /\ stage = "connect"
  /\ \/ /\ stage' = "subscribe"
        /\ UNCHANGED <<job, todo, packet_id, acknowledged, shared_vars, socket,
                       aligned, radio_vars, broker_vars>>
     \/ End(FALSE)

Subscribe ==
  /\ stage = "subscribe"
  /\ \/ /\ stage' = "suback" /\ packet_id' = packet_id + 1
        /\ UNCHANGED <<job, todo, acknowledged, shared_vars, socket, aligned,
                       radio_vars, broker_vars>>
     \/ End(FALSE)

\* publish: the head of todo is sent under the next id.  A failed send counts
\* like a missing PUBACK.
Publish ==
  /\ stage = "publish" /\ stage' = "puback" /\ packet_id' = packet_id + 1
  /\ UNCHANGED <<job, todo, acknowledged, shared_vars, socket, aligned,
                 radio_vars, broker_vars>>

\* Where the job goes when the head of todo is done.
After(j, topic, acked) ==
  CASE topic = "subdev"                        -> IF acked THEN "echo" ELSE "publish"
    [] topic = "command"                       -> "echo"
    [] topic = "backhaul" /\ j = "steer"       -> "resolve"
    [] topic = "backhaul" /\ j = "phy"         -> "echo"
    [] topic = "backhaul" /\ j = "probe"       -> IF saw_devinfo THEN "done"
                                                                  ELSE "devinfo"
    [] topic \in {"speed", "blacklist"}        -> "done"
    [] OTHER                                   -> "publish"

\* mqtt_devinfo_from_packet.  A BSSID is kept as it comes; only a record with
\* both fields makes the target valid, and nothing makes it invalid again.
Resolved(r) ==
  CASE ~r.parent \/ r.kind = "other" -> target
    [] r.parent /\ r.kind # "other" /\ r.bssid /\ r.channel ->
         [valid |-> TRUE, bssid |-> r.kind, channel |-> r.kind]
    [] OTHER -> [target EXCEPT !.bssid = IF r.bssid THEN r.kind ELSE @]
\* The target is passed by the refreshes of a steering request and by its wait.
Wanted == job = "steer" /\ (stage = "devinfo" \/ Len(todo) > 2)
TakeRecord(r) ==
  /\ saw_devinfo' = (saw_devinfo \/ r.kind = "DEVINFO")
  /\ target' = IF Wanted THEN Resolved(r) ELSE target

SessionKeeps == UNCHANGED <<job, packet_id, shared_vars, aligned, broker_vars>>

\* subscribe_devinfo skips what is not a SUBACK, DEVINFO records included; the
\* router's ACL may deny it.
ReadSuback ==
  /\ stage = "suback" /\ aligned /\ socket # <<>>
  /\ \/ /\ Head(socket).type # "SUBACK" /\ socket' = Tail(socket)
        /\ UNCHANGED <<stage, todo, acknowledged, radio_vars>> /\ SessionKeeps
     \/ /\ Head(socket).type = "SUBACK" /\ socket' = Tail(socket)
        /\ stage' = "publish"
        /\ UNCHANGED <<todo, acknowledged, radio_vars>> /\ SessionKeeps
     \/ Head(socket).type = "SUBACK" /\ End(FALSE)

\* Mutation of Acknowledges: any PUBACK will do.
AcknowledgesAny(packet) == packet.type = "PUBACK"
Acknowledges(packet) == packet.type = "PUBACK" /\ packet.id = packet_id

ReadPuback ==
  /\ stage = "puback" /\ aligned /\ socket # <<>>
  /\ socket' = Tail(socket)
  /\ \/ /\ Acknowledges(Head(socket))
        /\ stage' = After(job, Head(todo), TRUE) /\ todo' = Tail(todo)
        /\ acknowledged' = acknowledged \cup {packet_id}
        /\ UNCHANGED radio_vars
     \/ /\ Head(socket).type = "PUBLISH" /\ TakeRecord(Head(socket).record)
        /\ UNCHANGED <<stage, todo, acknowledged>>
     \/ /\ Head(socket).type # "PUBLISH" /\ ~Acknowledges(Head(socket))
        /\ UNCHANGED <<stage, todo, acknowledged, radio_vars>>
  /\ SessionKeeps

\* wait_for_devinfo ends with the record it waits for; the other waits read on
\* until their time is over.
ReadWhileWaiting ==
  /\ stage \in {"devinfo", "echo"} /\ aligned /\ socket # <<>>
  /\ socket' = Tail(socket)
  /\ \/ Head(socket).type = "PUBLISH" /\ TakeRecord(Head(socket).record)
     \/ Head(socket).type # "PUBLISH" /\ UNCHANGED radio_vars
  /\ stage' = IF stage = "devinfo"
                   /\ (IF job = "steer" THEN target'.valid ELSE saw_devinfo')
              THEN IF job = "steer" THEN "resolve-last" ELSE "done"
              ELSE stage
  /\ UNCHANGED <<todo, acknowledged>> /\ SessionKeeps

\* read_packet gives up in the middle: the packet is longer than the limit or
\* than the free heap, or stops for four seconds.  The rest of it is read as
\* packets that mean nothing, until a read happens to end where one begins.
LosePacket ==
  /\ stage \in Waits /\ socket # <<>>
  /\ socket' = Tail(socket) /\ aligned' \in BOOLEAN
  /\ UNCHANGED <<session_vars, shared_vars, radio_vars, broker_vars>>

\* Mutation of TimeIsUp: a wait goes on while packets arrive.
QuietOnly == socket = <<>>
TimeIsUp == TRUE

\* The deadline of every loop: 5 s, 6 s, and what the waits are given.
Deadline ==
  /\ stage \in Waits /\ TimeIsUp
  /\ \/ /\ stage = "puback" /\ Head(todo) = "subdev"
        /\ stage' = After(job, "subdev", FALSE) /\ todo' = Tail(todo)
        /\ UNCHANGED <<acknowledged, socket, radio_vars>> /\ SessionKeeps
     \/ /\ stage = "devinfo" /\ job = "steer" /\ stage' = "resolve-last"
        /\ UNCHANGED <<todo, acknowledged, socket, radio_vars>> /\ SessionKeeps
     \/ /\ stage = "echo" /\ todo # <<>> /\ stage' = "publish"
        /\ UNCHANGED <<todo, acknowledged, socket, radio_vars>> /\ SessionKeeps
     \/ /\ stage = "echo" /\ todo = <<>> /\ End(TRUE)
     \/ /\ \/ stage = "suback"
           \/ stage = "puback" /\ Head(todo) # "subdev"
           \/ stage = "devinfo" /\ job = "probe"
        /\ End(FALSE)

\* mqtt_publish_parent_request: a target from the records, or from a child that
\* the JNAP topology shows on that radio, before and after the wait.  What
\* follows, the child's scan and the mode, may still end the request; only
\* BH/config with a known station radio refreshes WLAN/subdev first.
Resolve ==
  /\ stage \in {"resolve", "resolve-last"}
  /\ \/ /\ target.valid /\ stage' = "publish" /\ todo' \in {todo, Tail(todo)}
        /\ UNCHANGED <<acknowledged, socket, radio_vars>> /\ SessionKeeps
     \/ target.valid /\ End(FALSE)
     \/ /\ ~target.valid /\ stage' = stage
        /\ target' = [valid |-> TRUE, bssid |-> "JNAP", channel |-> "JNAP"]
        /\ UNCHANGED <<todo, acknowledged, socket, saw_devinfo>> /\ SessionKeeps
     \/ /\ ~target.valid /\ stage = "resolve" /\ stage' = "devinfo"
        /\ UNCHANGED <<todo, acknowledged, socket, radio_vars>> /\ SessionKeeps
     \/ ~target.valid /\ stage = "resolve-last" /\ End(FALSE)

Finish == stage = "done" /\ End(TRUE)

SessionStep == \/ Connect \/ Subscribe \/ Publish \/ ReadSuback \/ ReadPuback
               \/ ReadWhileWaiting \/ LosePacket \/ Resolve \/ Finish

--------------------------------------------------------------------------------
(* The broker and the rest of the world. *)

Accept == /\ \E i \in (1..packet_id) \ delivered : delivered' = delivered \cup {i}
          /\ UNCHANGED <<session_vars, shared_vars, socket, aligned, radio_vars,
                         replied>>

\* SUBACK or PUBACK, at any later time.
Answer ==
  /\ Len(socket) < MaxUnread
  /\ \E i \in delivered \ replied :
       /\ replied' = replied \cup {i}
       /\ socket' = Append(socket, IF i = 1 THEN Suback ELSE Puback(i))
  /\ UNCHANGED <<session_vars, shared_vars, aligned, radio_vars, delivered>>

\* A record of any Node, fresh or retained.
Forward ==
  /\ 1 \in delivered /\ Len(socket) < MaxUnread
  /\ \E r \in Records : socket' = Append(socket, Publication(r))
  /\ UNCHANGED <<session_vars, shared_vars, aligned, radio_vars, broker_vars>>

\* mqtt_parent_mode_handler, in the HTTP task.
SetMode == /\ job \notin HttpJobs /\ mode' \in Modes
           /\ available' = (available /\ mode' # "force-off")
           /\ UNCHANGED <<cooldown, answered, session_vars, socket, aligned,
                          radio_vars, broker_vars>>

\* HOP_TEST_COOLDOWN_MS after the last hop test began, which a session of one
\* publish does not outlast.
Minute == /\ cooldown /\ job # "hop-test"
          /\ cooldown' = FALSE /\ answered' = FALSE
          /\ UNCHANGED <<mode, available, session_vars, socket, aligned,
                         radio_vars, broker_vars>>

Next == \/ \E j \in Jobs \ HttpJobs : StartWorkerJob(j)
        \/ "hop-test" \in Jobs /\ StartHopTest
        \/ "cancel" \in Jobs /\ StartCancel
        \/ SessionStep \/ Deadline
        \/ Accept \/ Answer \/ Forward \/ SetMode \/ Minute

\* The task is scheduled and time passes; nothing is assumed of the broker.
Fairness == WF_vars(SessionStep) /\ WF_vars(Deadline)

Spec == Init /\ [][Next]_vars
FairSpec == Spec /\ Fairness

--------------------------------------------------------------------------------
(* Properties. *)

Packets == {Suback} \cup {Puback(i) : i \in 2..6}
             \cup {Publication(r) : r \in Records}

\* Types and bounds; a Node is under the cooldown as long as its hop test runs.
TypeOK ==
  /\ mode \in Modes /\ available \in BOOLEAN
  /\ cooldown \in BOOLEAN /\ answered \in BOOLEAN
  /\ job \in Jobs \cup {"none"}
  /\ stage \in Waits \cup {"idle", "connect", "subscribe", "publish", "resolve",
                           "resolve-last", "done"}
  /\ todo \in Seq({"all", "devinfo", "backhaul", "subdev", "command", "speed",
                   "blacklist"})
  /\ packet_id \in 0..6
  /\ socket \in Seq(Packets) /\ Len(socket) <= MaxUnread /\ aligned \in BOOLEAN
  /\ saw_devinfo \in BOOLEAN
  /\ target \in [valid : BOOLEAN, bssid : Fields, channel : Fields]
  /\ replied \subseteq delivered /\ delivered \subseteq 1..packet_id
  /\ acknowledged \subseteq 2..packet_id
  /\ job = "hop-test" => cooldown

\* publish() returns true only for a message the broker has accepted: the late
\* PUBACK of a refresh that was given up does not confirm a Parent command.  (That
\* what is left of a packet read in part confirms none is an assumption of
\* LosePacket.)
AcknowledgedIsDelivered == acknowledged \subseteq delivered

\* A hop test that was answered with 202 is the only one of its Node for a minute.
\* (README.md: "requests for the same Node are limited to one per minute"; one that
\* failed gives its minute back, though it may have reached the Node.)
HopTestsArePaced == [][job # "hop-test" /\ job' = "hop-test" => ~answered]_vars

\* The PUBACK, the record that was waited for or the deadline ends every loop,
\* whatever the broker sends or does not send.
EverySessionEnds == job # "none" ~> job = "none"

\* docs/mqtt-parent-steering.md: "resolves BSSID and channel from fresh MQTT
\* DEVINFO" - from one record, that is.  It does not: a later record without a
\* valid channel replaces the BSSID of a target that stays valid
\* (MCSessionTarget.cfg).
TargetIsOneRecord == target.valid => target.bssid = target.channel

================================================================================
