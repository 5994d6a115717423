----------------------------- MODULE MqttSessionProofs ----------------------------
(***************************************************************************)
(* What a MQTT session guarantees for any records, any length of the socket *)
(* and any set of jobs: a publish is only acknowledged when the broker has  *)
(* it, an answered hop test keeps its minute, and the ids of a session are  *)
(* bounded by the topics of its job.                                        *)
(*                                                                         *)
(* None follows from itself.  DeliveryOK adds that a PUBACK on its way   *)
(* is for a packet of this session (which is why Closed must empty the      *)
(* socket); PacedOK, that a running hop test has the minute and no earlier  *)
(* one was answered in it; PlanOK, what is left of the topics at each place *)
(* of a session, and with it how far packet_id can still count.             *)
(***************************************************************************)
EXTENDS MqttSession, SequenceTheorems, TLAPS

USE SessionAssumption

Wire == {Suback} \cup {Puback(i) : i \in Nat} \cup {Publication(r) : r \in Records}

DeliveryOK ==
  /\ packet_id \in Nat /\ delivered \subseteq Nat
  /\ socket \in Seq(Wire)
  /\ \A k \in 1..Len(socket) :
       socket[k].type = "PUBACK" => socket[k].id \in delivered
  /\ acknowledged \subseteq delivered

--------------------------------------------------------------------------------
(* Acknowledgements. *)

LEMMA NoPackets == <<>> \in Seq(Wire) /\ Len(<<>>) = 0
OBVIOUS

LEMMA InitDelivery == Init => DeliveryOK
BY NoPackets DEF Init, DeliveryOK

\* The next session starts from nothing.
LEMMA ClosedDelivery == Closed => DeliveryOK'
BY NoPackets DEF Closed, DeliveryOK

\* A packet is read: the others are still on their way.
LEMMA ReadDelivery ==
  ASSUME DeliveryOK, socket # <<>>, socket' = Tail(socket),
         packet_id' = packet_id, delivered' = delivered,
         acknowledged' \subseteq delivered
  PROVE  DeliveryOK'
<1>1. socket \in Seq(Wire)
  BY DEF DeliveryOK
<1>2. /\ socket' \in Seq(Wire) /\ Len(socket') = Len(socket) - 1
      /\ \A k \in 1..Len(socket') : k + 1 \in 1..Len(socket) /\ socket'[k] = socket[k + 1]
  BY <1>1
<1> QED
  BY <1>2 DEF DeliveryOK

LEMMA SessionDelivery == DeliveryOK /\ SessionStep => DeliveryOK'
<1> SUFFICES ASSUME DeliveryOK, SessionStep PROVE DeliveryOK'
  OBVIOUS
<1> USE DEF session_vars, broker_vars, SessionKeeps, End
<1>1. ASSUME UNCHANGED <<socket, delivered, acknowledged>>,
             packet_id' \in {packet_id, packet_id + 1}
      PROVE  DeliveryOK'
  BY <1>1 DEF DeliveryOK
<1>2. CASE Connect
  BY <1>1, <1>2, ClosedDelivery DEF Connect
<1>3. CASE Subscribe
  BY <1>1, <1>3, ClosedDelivery DEF Subscribe
<1>4. CASE Publish
  BY <1>1, <1>4 DEF Publish
<1>5. CASE ReadSuback
  BY <1>5, ClosedDelivery, ReadDelivery DEF ReadSuback, DeliveryOK
<1>6. CASE ReadPuback
  <2>1. CASE Acknowledges(Head(socket))
    <3>1. socket \in Seq(Wire) /\ socket # <<>>
      BY <1>6 DEF ReadPuback, DeliveryOK
    <3>2. packet_id \in delivered
      BY <2>1, <3>1 DEF Acknowledges, DeliveryOK
    <3> QED
      BY <1>6, <3>2, ReadDelivery DEF ReadPuback, DeliveryOK
  <2>2. CASE ~Acknowledges(Head(socket))
    BY <1>6, <2>2, ReadDelivery DEF ReadPuback, DeliveryOK
  <2> QED
    BY <2>1, <2>2
<1>7. CASE ReadWhileWaiting
  BY <1>7, ReadDelivery DEF ReadWhileWaiting, DeliveryOK
<1>8. CASE LosePacket
  BY <1>8, ReadDelivery DEF LosePacket, DeliveryOK
<1>9. CASE Resolve
  BY <1>1, <1>9, ClosedDelivery DEF Resolve
<1>10. CASE Finish
  BY <1>10, ClosedDelivery DEF Finish
<1> QED
  BY <1>2, <1>3, <1>4, <1>5, <1>6, <1>7, <1>8, <1>9, <1>10 DEF SessionStep

LEMMA KeepsDelivery == DeliveryOK /\ [Next]_vars => DeliveryOK'
<1> SUFFICES ASSUME DeliveryOK, [Next]_vars PROVE DeliveryOK'
  OBVIOUS
<1> USE DEF session_vars, broker_vars
<1>1. ASSUME UNCHANGED <<packet_id, socket, delivered, acknowledged>>
      PROVE  DeliveryOK'
  BY <1>1 DEF DeliveryOK
<1>2. CASE UNCHANGED vars
  BY <1>1, <1>2 DEF vars
<1>3. CASE \/ \E j \in Jobs \ HttpJobs : StartWorkerJob(j)
           \/ StartHopTest \/ StartCancel \/ SetMode \/ Minute
  BY <1>1, <1>3 DEF StartWorkerJob, StartHopTest, StartCancel, Open, SetMode, Minute
<1>4. CASE Deadline
  BY <1>1, <1>4, ClosedDelivery DEF Deadline, SessionKeeps, End
<1>5. CASE Accept
  <2>1. PICK i \in 1..packet_id : delivered' = delivered \cup {i}
    BY <1>5 DEF Accept
  <2> QED
    BY <1>5, <2>1 DEF Accept, DeliveryOK
<1>6. CASE Answer \/ Forward
  <2>1. PICK p \in Wire : /\ socket' = Append(socket, p)
                          /\ p.type = "PUBACK" => p.id \in delivered
    <3>1. CASE Answer
      <4>1. PICK i \in delivered :
              socket' = Append(socket, IF i = 1 THEN Suback ELSE Puback(i))
        BY <3>1 DEF Answer
      <4>2. CASE i = 1
        BY <4>1, <4>2 DEF Wire, Suback
      <4>3. CASE i # 1
        BY <4>1, <4>3 DEF Wire, Puback, DeliveryOK
      <4> QED
        BY <4>2, <4>3
    <3>2. CASE Forward
      BY <3>2 DEF Forward, Wire, Publication
    <3> QED
      BY <1>6, <3>1, <3>2
  <2>2. UNCHANGED <<packet_id, delivered, acknowledged>>
    BY <1>6 DEF Answer, Forward
  <2>3. /\ socket' \in Seq(Wire) /\ Len(socket') = Len(socket) + 1
        /\ \A k \in 1..Len(socket') :
             socket'[k] = IF k <= Len(socket) THEN socket[k] ELSE p
    BY <2>1 DEF DeliveryOK
  <2> QED
    BY <2>1, <2>2, <2>3 DEF DeliveryOK
<1> QED
  BY <1>2, <1>3, <1>4, <1>5, <1>6, SessionDelivery DEF Next

\* publish() only returns true for a message the broker has accepted, whatever else
\* arrives before its PUBACK and however a packet was cut off.
THEOREM AcknowledgementsHold == Spec => []AcknowledgedIsDelivered
<1>1. DeliveryOK => AcknowledgedIsDelivered
  BY DEF DeliveryOK, AcknowledgedIsDelivered
<1> QED
  BY <1>1, InitDelivery, KeepsDelivery, PTL DEF Spec

--------------------------------------------------------------------------------
(* Hop tests. *)

PacedOK == /\ answered => cooldown
           /\ job = "hop-test" => cooldown /\ ~answered

LEMMA InitPaced == Init => PacedOK
BY DEF Init, PacedOK

\* Only a hop test that has succeeded is answered with 202, only one that has failed
\* gives its minute back.
LEMMA EndPaced ==
  ASSUME PacedOK, NEW ok \in BOOLEAN, End(ok) PROVE PacedOK' /\ job' = "none"
<1>1. /\ job' = "none"
      /\ answered' = (answered \/ (job = "hop-test" /\ ok))
      /\ cooldown' = cooldown \/ (job = "hop-test" /\ ~ok /\ cooldown' = FALSE)
  BY DEF End, Conclude, Closed
<1>2. answered' => cooldown'
  <2>1. CASE job = "hop-test" /\ ~ok
    BY <1>1, <2>1, Zenon DEF PacedOK
  <2>2. CASE ~(job = "hop-test" /\ ~ok)
    BY <1>1, <2>2, Zenon DEF PacedOK
  <2> QED
    BY <2>1, <2>2
<1> QED
  BY <1>1, <1>2 DEF PacedOK

LEMMA StepPaced ==
  ASSUME PacedOK, [Next]_vars
  PROVE  PacedOK' /\ (job # "hop-test" /\ job' = "hop-test" => ~answered)
<1> USE DEF session_vars, shared_vars, SessionKeeps
<1>1. ASSUME UNCHANGED <<job, cooldown, answered>>
      PROVE  PacedOK' /\ (job # "hop-test" /\ job' = "hop-test" => ~answered)
  BY <1>1 DEF PacedOK
<1>2. CASE UNCHANGED vars
  BY <1>1, <1>2 DEF vars
<1>3. CASE \E ok \in BOOLEAN : End(ok)
  BY <1>3, EndPaced
<1>4. CASE SessionStep
  BY <1>1, <1>3, <1>4 DEF SessionStep, Connect, Subscribe, Publish, ReadSuback,
     ReadPuback, ReadWhileWaiting, LosePacket, Resolve, Finish
<1>5. CASE Deadline
  BY <1>1, <1>3, <1>5 DEF Deadline
<1>6. CASE \E j \in Jobs \ HttpJobs : StartWorkerJob(j)
  BY <1>6 DEF StartWorkerJob, Open, HttpJobs, PacedOK
<1>7. CASE StartHopTest
  BY <1>7 DEF StartHopTest, HopTestMay, Open, PacedOK
<1>8. CASE StartCancel
  BY <1>8 DEF StartCancel, Open, PacedOK
<1>9. CASE Accept \/ Answer \/ Forward \/ SetMode
  BY <1>1, <1>9 DEF Accept, Answer, Forward, SetMode
<1>10. CASE Minute
  BY <1>10 DEF Minute, PacedOK
<1> QED
  BY <1>2, <1>4, <1>5, <1>6, <1>7, <1>8, <1>9, <1>10 DEF Next

\* Within the minute of a hop test that was answered no other one begins for its
\* Node.
THEOREM HopTestsPaced == Spec => HopTestsArePaced
<1>1. PacedOK /\ [Next]_vars
        => PacedOK' /\ [job # "hop-test" /\ job' = "hop-test" => ~answered]_vars
  BY StepPaced
<1> QED
  BY <1>1, InitPaced, PTL DEF Spec, HopTestsArePaced

--------------------------------------------------------------------------------
(* Types.  A session never counts beyond the packets of its job: packet_id and   *)
(* what is left of the topics are bounded together.                              *)

Places == Waits \cup {"idle", "connect", "subscribe", "publish", "resolve",
                      "resolve-last", "done"}
Topics == {"all", "devinfo", "backhaul", "subdev", "command", "speed", "blacklist"}
Counted == Len(Script(job)) + 1 - Len(todo)

\* todo is what is left of the topics of the job.
Left(rest, all) ==
  /\ rest \in Seq(Topics) /\ Len(rest) <= Len(all)
  /\ \A k \in 1..Len(rest) : rest[k] = all[Len(all) - Len(rest) + k]

PlanOK ==
  /\ job \in Jobs \cup {"none"} /\ stage \in Places
  /\ packet_id \in 0..6 /\ todo \in Seq(Topics)
  /\ job = "none" <=> stage = "idle"
  /\ job # "none" => Left(todo, Script(job))
  /\ stage \in {"idle", "connect", "subscribe"} => packet_id = 0
  /\ stage \in {"connect", "subscribe", "suback"} => todo = Script(job)
  /\ stage = "suback" => packet_id = 1
  /\ stage \in {"publish", "resolve", "resolve-last", "devinfo", "echo", "done"} =>
       packet_id \in 1..Counted
  /\ stage = "puback" => packet_id \in 2..(Counted + 1)
  /\ stage \in {"publish", "puback"} => Len(todo) > 0
  /\ stage \in {"resolve", "resolve-last"} => job = "steer" /\ Len(todo) = 2
  /\ stage = "devinfo" /\ job = "steer" => Len(todo) = 2

\* The topics of every job, by their place.
LEMMA Scripts ==
  /\ \A j \in {"probe", "phy", "steer", "hop-test", "cancel"} :
       Script(j) \in Seq(Topics) /\ Len(Script(j)) \in 1..5
  /\ LET s == Script("probe") IN
       Len(s) = 3 /\ s[1] = "all" /\ s[2] = "devinfo" /\ s[3] = "backhaul"
  /\ LET s == Script("phy") IN Len(s) = 1 /\ s[1] = "backhaul"
  /\ LET s == Script("steer") IN
       /\ Len(s) = 5 /\ s[1] = "all" /\ s[2] = "devinfo" /\ s[3] = "backhaul"
       /\ s[4] = "subdev" /\ s[5] = "command"
  /\ LET s == Script("hop-test") IN Len(s) = 1 /\ s[1] = "speed"
  /\ LET s == Script("cancel") IN Len(s) = 1 /\ s[1] = "blacklist"
<1> DEFINE r == <<"all", "devinfo", "backhaul">>
           t == <<"subdev", "command">>
<1>1. r \in Seq(Topics) /\ t \in Seq(Topics) /\ Len(r) = 3 /\ Len(t) = 2
      /\ r[1] = "all" /\ r[2] = "devinfo" /\ r[3] = "backhaul"
      /\ t[1] = "subdev" /\ t[2] = "command"
  BY DEF Topics
<1>2. /\ r \o t \in Seq(Topics) /\ Len(r \o t) = 5
      /\ \A k \in 1..5 : (r \o t)[k] = IF k <= 3 THEN r[k] ELSE t[k - 3]
  <2> HIDE DEF r, t
  <2>1. r \in Seq(Topics) /\ t \in Seq(Topics) /\ Len(r) = 3 /\ Len(t) = 2
    BY <1>1
  <2> HIDE DEF Topics
  <2>2. /\ r \o t \in Seq(Topics) /\ Len(r \o t) = Len(r) + Len(t)
        /\ \A k \in 1..Len(r) + Len(t) :
             (r \o t)[k] = IF k <= Len(r) THEN r[k] ELSE t[k - Len(r)]
    BY <2>1, ConcatProperties
  <2> QED
    BY <2>1, <2>2
<1>3. /\ (r \o t)[1] = "all" /\ (r \o t)[2] = "devinfo" /\ (r \o t)[3] = "backhaul"
      /\ (r \o t)[4] = "subdev" /\ (r \o t)[5] = "command"
  <2> HIDE DEF r, t
  <2> QED
    BY <1>1, <1>2
<1>4. /\ Script("probe") = r /\ Script("phy") = <<"backhaul">>
      /\ Script("steer") = r \o t /\ Script("hop-test") = <<"speed">>
      /\ Script("cancel") = <<"blacklist">>
  BY DEF Script, Refreshes
<1>5. \A x \in Topics : <<x>> \in Seq(Topics) /\ Len(<<x>>) = 1 /\ <<x>>[1] = x
  OBVIOUS
<1>6. {"backhaul", "speed", "blacklist"} \subseteq Topics
  BY DEF Topics
<1>7. \A j \in {"probe", "phy", "steer", "hop-test", "cancel"} :
        Script(j) \in Seq(Topics) /\ Len(Script(j)) \in 1..5
  <2> HIDE DEF r, t, Topics
  <2>1. /\ <<"backhaul">> \in Seq(Topics) /\ <<"speed">> \in Seq(Topics)
        /\ <<"blacklist">> \in Seq(Topics)
        /\ Len(<<"backhaul">>) = 1 /\ Len(<<"speed">>) = 1 /\ Len(<<"blacklist">>) = 1
    BY <1>5, <1>6
  <2>2. /\ r \in Seq(Topics) /\ Len(r) \in 1..5
        /\ r \o t \in Seq(Topics) /\ Len(r \o t) \in 1..5
    BY <1>1, <1>2
  <2>3. Script("steer") \in Seq(Topics) /\ Len(Script("steer")) \in 1..5
    BY <1>4, <2>2
  <2>4. /\ Script("probe") \in Seq(Topics) /\ Len(Script("probe")) \in 1..5
        /\ Script("phy") \in Seq(Topics) /\ Len(Script("phy")) \in 1..5
        /\ Script("hop-test") \in Seq(Topics) /\ Len(Script("hop-test")) \in 1..5
        /\ Script("cancel") \in Seq(Topics) /\ Len(Script("cancel")) \in 1..5
    <3>1. Script("probe") \in Seq(Topics) /\ Len(Script("probe")) \in 1..5
      BY <1>4, <2>2
    <3>2. ASSUME NEW x \in {"backhaul", "speed", "blacklist"}
          PROVE  <<x>> \in Seq(Topics) /\ Len(<<x>>) \in 1..5
      BY <1>5, <1>6
    <3> QED
      BY <1>4, <3>1, <3>2
  <2> QED
    BY <2>3, <2>4
<1>8. LET s == Script("probe") IN
        Len(s) = 3 /\ s[1] = "all" /\ s[2] = "devinfo" /\ s[3] = "backhaul"
  <2> HIDE DEF r, t
  <2> QED
    BY <1>1, <1>4
<1>9. LET s == Script("steer") IN
        /\ Len(s) = 5 /\ s[1] = "all" /\ s[2] = "devinfo" /\ s[3] = "backhaul"
        /\ s[4] = "subdev" /\ s[5] = "command"
  <2> HIDE DEF r, t
  <2> QED
    BY <1>2, <1>3, <1>4
<1>10. /\ LET s == Script("phy") IN Len(s) = 1 /\ s[1] = "backhaul"
       /\ LET s == Script("hop-test") IN Len(s) = 1 /\ s[1] = "speed"
       /\ LET s == Script("cancel") IN Len(s) = 1 /\ s[1] = "blacklist"
  BY <1>4
<1> QED
  BY <1>7, <1>8, <1>9, <1>10, Zenon

\* A topic is done, or given up.
LEMMA LeftTail ==
  ASSUME NEW all \in Seq(Topics), NEW rest, Left(rest, all), Len(rest) > 0
  PROVE  /\ Left(Tail(rest), all) /\ Len(Tail(rest)) = Len(rest) - 1
         /\ Head(rest) = all[Len(all) - Len(rest) + 1]
<1>1. rest \in Seq(Topics) /\ rest # <<>>
  BY DEF Left
<1>2. /\ Tail(rest) \in Seq(Topics) /\ Len(Tail(rest)) = Len(rest) - 1
      /\ \A k \in 1..Len(Tail(rest)) : k + 1 \in 1..Len(rest) /\ Tail(rest)[k] = rest[k + 1]
      /\ Head(rest) = rest[1] /\ Len(rest) \in Nat
  BY <1>1
<1>3. Left(Tail(rest), all)
  BY <1>2 DEF Left
<1> QED
  BY <1>2, <1>3 DEF Left

\* Where a topic leads, job by job.
LEMMA AfterIs ==
  ASSUME NEW acked \in BOOLEAN, NEW j
  PROVE  /\ After(j, "command", acked) = "echo"
         /\ After(j, "subdev", acked) \in {"echo", "publish"}
         /\ After(j, "all", acked) = "publish" /\ After(j, "devinfo", acked) = "publish"
         /\ After("steer", "backhaul", acked) = "resolve"
         /\ After("phy", "backhaul", acked) = "echo"
         /\ After("probe", "backhaul", acked) \in {"done", "devinfo"}
         /\ After(j, "speed", acked) = "done" /\ After(j, "blacklist", acked) = "done"
<1>1. /\ After(j, "command", acked) = "echo"
      /\ After(j, "speed", acked) = "done" /\ After(j, "blacklist", acked) = "done"
  BY DEF After
<1>2. After(j, "all", acked) = "publish" /\ After(j, "devinfo", acked) = "publish"
  BY DEF After
<1>3. After(j, "subdev", acked) \in {"echo", "publish"}
  BY DEF After
<1>4. /\ After("steer", "backhaul", acked) = "resolve"
      /\ After("phy", "backhaul", acked) = "echo"
      /\ After("probe", "backhaul", acked) \in {"done", "devinfo"}
  BY DEF After
<1> QED
  BY <1>1, <1>2, <1>3, <1>4

\* What may follow a topic is what is left.
LEMMA AfterPlaces ==
  ASSUME PlanOK, stage = "puback", NEW acked \in BOOLEAN,
         NEW next, next = After(job, Head(todo), acked)
  PROVE  /\ next \in {"echo", "publish", "resolve", "devinfo", "done"}
         /\ next = "publish" => Len(todo) > 1
         /\ next = "resolve" => job = "steer" /\ Len(todo) = 3
         /\ next = "devinfo" => job # "steer"
<1>1. /\ Left(todo, Script(job)) /\ Len(todo) > 0
      /\ job \in {"probe", "phy", "steer", "hop-test", "cancel"}
  BY DEF PlanOK
<1>2. /\ Head(todo) = Script(job)[Len(Script(job)) - Len(todo) + 1]
      /\ Len(todo) \in 1..Len(Script(job))
  BY <1>1, LeftTail, Scripts DEF Left
<1>3. CASE job = "probe"
  <2>1. /\ Len(todo) \in 1..3
        /\ Len(todo) = 1 => Head(todo) = "backhaul"
        /\ Len(todo) = 2 => Head(todo) = "devinfo"
        /\ Len(todo) = 3 => Head(todo) = "all"
    <3> DEFINE s == Script("probe")
               n == Len(todo)
               h == Head(todo)
    <3>1. n \in 1..Len(s) /\ h = s[Len(s) - n + 1]
      BY <1>2, <1>3
    <3>2. Len(s) = 3 /\ s[1] = "all" /\ s[2] = "devinfo" /\ s[3] = "backhaul"
      BY Scripts
    <3>3. /\ n \in 1..3 /\ (n = 1 => h = "backhaul")
          /\ n = 2 => h = "devinfo"
          /\ n = 3 => h = "all"
      <4> HIDE DEF s, n, h
      <4> QED
        BY <3>1, <3>2
    <3> QED
      BY <3>3
  <2> QED
    BY <1>3, <2>1, AfterIs
<1>4. CASE job = "phy"
  BY <1>2, <1>4, Scripts DEF After
<1>5. CASE job = "steer"
  <2>1. /\ Len(todo) \in 1..5
        /\ Len(todo) = 1 => Head(todo) = "command"
        /\ Len(todo) = 2 => Head(todo) = "subdev"
        /\ Len(todo) = 3 => Head(todo) = "backhaul"
        /\ Len(todo) = 4 => Head(todo) = "devinfo"
        /\ Len(todo) = 5 => Head(todo) = "all"
    <3> DEFINE s == Script("steer")
               n == Len(todo)
               h == Head(todo)
    <3>1. n \in 1..Len(s) /\ h = s[Len(s) - n + 1]
      BY <1>2, <1>5
    <3>2. /\ Len(s) = 5 /\ s[1] = "all" /\ s[2] = "devinfo" /\ s[3] = "backhaul"
          /\ s[4] = "subdev" /\ s[5] = "command"
      BY Scripts
    <3>3. /\ n \in 1..5 /\ (n = 1 => h = "command") /\ (n = 2 => h = "subdev")
          /\ n = 3 => h = "backhaul"
          /\ n = 4 => h = "devinfo"
          /\ n = 5 => h = "all"
      <4> HIDE DEF s, n, h
      <4> QED
        BY <3>1, <3>2
    <3> QED
      BY <3>3
  <2> QED
    BY <1>5, <2>1, AfterIs
<1>6. CASE job \in {"hop-test", "cancel"}
  BY <1>2, <1>6, Scripts DEF After
<1> QED
  BY <1>1, <1>3, <1>4, <1>5, <1>6

LEMMA ClosedPlan == Closed => PlanOK'
BY DEF Closed, PlanOK, Places, Waits

\* The last topic leaves todo, the session goes where After says.
LEMMA TopicDone ==
  ASSUME PlanOK, stage = "puback", NEW acked \in BOOLEAN,
         stage' = After(job, Head(todo), acked), todo' = Tail(todo),
         UNCHANGED <<job, packet_id>>
  PROVE  PlanOK'
<1>1. /\ Left(todo, Script(job)) /\ Len(todo) > 0 /\ Script(job) \in Seq(Topics)
      /\ job # "none" /\ packet_id \in 2..(Counted + 1) /\ packet_id \in 0..6
      /\ job \in Jobs
  BY Scripts DEF PlanOK
<1>2. Left(Tail(todo), Script(job)) /\ Len(Tail(todo)) = Len(todo) - 1
  BY <1>1, LeftTail
<1>3. /\ stage' \in {"echo", "publish", "resolve", "devinfo", "done"}
      /\ stage' = "publish" => Len(todo) > 1
      /\ stage' = "resolve" => job = "steer" /\ Len(todo) = 3
      /\ stage' = "devinfo" => job # "steer"
  BY AfterPlaces
<1>4. packet_id' \in 1..Counted'
  BY <1>1, <1>2 DEF Counted, Left
<1> QED
  BY <1>1, <1>2, <1>3, <1>4 DEF PlanOK, Places, Waits, Left

LEMMA KeepsPlan == PlanOK /\ [Next]_vars => PlanOK'
<1> SUFFICES ASSUME PlanOK, [Next]_vars PROVE PlanOK'
  OBVIOUS
<1> USE DEF session_vars, SessionKeeps, Places, Waits
<1>1. ASSUME UNCHANGED <<job, stage, todo, packet_id>> PROVE PlanOK'
  BY <1>1 DEF PlanOK, Counted
<1>2. ASSUME NEW ok \in BOOLEAN, End(ok) PROVE PlanOK'
  BY <1>2, ClosedPlan DEF End
<1>3. ASSUME NEW j \in Jobs, job = "none", Open(j) PROVE PlanOK'
  <2>1. /\ packet_id = 0 /\ job' = j /\ stage' = "connect" /\ todo' = Script(j)
        /\ packet_id' = packet_id /\ j # "none"
    BY <1>3 DEF Open, PlanOK
  <2>2. Script(j) \in Seq(Topics)
    BY Scripts
  <2> QED
    BY <2>1, <2>2 DEF PlanOK, Left
<1>4. CASE UNCHANGED vars
  BY <1>1, <1>4 DEF vars
<1>5. CASE \/ \E j \in Jobs \ HttpJobs : StartWorkerJob(j)
           \/ "hop-test" \in Jobs /\ StartHopTest
           \/ "cancel" \in Jobs /\ StartCancel
  BY <1>3, <1>5 DEF StartWorkerJob, StartHopTest, StartCancel
<1>6. CASE Accept \/ Answer \/ Forward \/ SetMode \/ Minute
  BY <1>1, <1>6 DEF Accept, Answer, Forward, SetMode, Minute
<1>7. CASE SessionStep
  <2>1. CASE Connect
    BY <1>2, <2>1 DEF Connect, PlanOK, Counted
  <2>2. CASE Subscribe
    <3>1. CASE stage' = "suback" /\ packet_id' = packet_id + 1 /\ UNCHANGED <<job, todo>>
      <4>1. packet_id' = 1 /\ stage = "subscribe"
        BY <2>2, <3>1 DEF Subscribe, PlanOK
      <4> QED
        BY <3>1, <4>1 DEF PlanOK
    <3> QED
      BY <1>2, <2>2, <3>1 DEF Subscribe
  <2>3. CASE Publish
    <3>1. /\ packet_id \in 1..Counted /\ Len(todo) > 0 /\ Len(todo) \in Nat
          /\ job \in {"probe", "phy", "steer", "hop-test", "cancel"}
      BY <2>3 DEF Publish, PlanOK
    <3>2. Len(Script(job)) \in 1..5
      BY <3>1, Scripts
    <3>3. /\ stage = "publish" /\ stage' = "puback" /\ packet_id' = packet_id + 1
          /\ UNCHANGED <<job, todo>> /\ Counted' = Counted
      BY <2>3 DEF Publish, Counted
    <3>4. packet_id' \in 0..6 /\ packet_id' \in 2..(Counted' + 1)
      <4> DEFINE n == Len(Script(job))
                 m == Len(todo)
      <4>1. /\ packet_id \in 1..(n + 1 - m) /\ n \in 1..5 /\ m \in Nat /\ m > 0
            /\ Counted' = n + 1 - m /\ packet_id' = packet_id + 1
        BY <3>1, <3>2, <3>3 DEF Counted
      <4> HIDE DEF n, m
      <4> QED
        BY <4>1
    <3> QED
      BY <3>1, <3>3, <3>4 DEF PlanOK
  <2>4. CASE ReadSuback
    <3>1. \/ /\ stage = "suback" /\ (UNCHANGED stage \/ stage' = "publish")
             /\ UNCHANGED <<job, todo, packet_id>>
          \/ End(FALSE)
      BY <2>4 DEF ReadSuback
    <3>2. CASE stage = "suback" /\ stage' = "publish" /\ UNCHANGED <<job, todo, packet_id>>
      <4>1. /\ packet_id = 1 /\ todo = Script(job)
            /\ job \in {"probe", "phy", "steer", "hop-test", "cancel"}
        BY <3>2 DEF PlanOK
      <4>2. Len(Script(job)) \in 1..5
        BY <4>1, Scripts
      <4>3. packet_id' \in 1..Counted' /\ Len(todo') > 0
        BY <3>2, <4>1, <4>2 DEF Counted
      <4> QED
        BY <3>2, <4>3 DEF PlanOK
    <3> QED
      BY <1>1, <1>2, <3>1, <3>2
  <2>5. CASE ReadPuback
    <3>1. CASE Acknowledges(Head(socket))
      <4>1. /\ stage = "puback" /\ UNCHANGED <<job, packet_id>>
            /\ \/ stage' = After(job, Head(todo), TRUE) /\ todo' = Tail(todo)
               \/ UNCHANGED <<stage, todo>>
        BY <2>5 DEF ReadPuback
      <4> QED
        BY <1>1, <4>1, TopicDone
    <3>2. CASE ~Acknowledges(Head(socket))
      BY <1>1, <2>5, <3>2 DEF ReadPuback
    <3> QED
      BY <3>1, <3>2
  <2>6. CASE ReadWhileWaiting
    <3>1. /\ UNCHANGED <<job, todo, packet_id>>
          /\ \/ stage' = stage
             \/ stage = "devinfo" /\ job = "steer" /\ stage' = "resolve-last"
             \/ stage = "devinfo" /\ stage' = "done"
      BY <2>6 DEF ReadWhileWaiting
    <3> QED
      BY <1>1, <3>1 DEF PlanOK, Counted
  <2>7. CASE LosePacket
    BY <1>1, <2>7 DEF LosePacket
  <2>8. CASE Resolve
    <3>1. job = "steer" /\ Len(todo) = 2 /\ Left(todo, Script(job))
          /\ packet_id \in 1..Counted /\ Script(job) \in Seq(Topics)
      BY <2>8, Scripts DEF Resolve, PlanOK
    <3>2. Left(Tail(todo), Script(job)) /\ Len(Tail(todo)) = 1
      <4>1. Len(todo) > 0 /\ Len(todo) - 1 = 1
        BY <3>1
      <4> QED
        BY <3>1, <4>1, LeftTail
    <3>3. \/ \E ok \in BOOLEAN : End(ok)
          \/ UNCHANGED <<job, stage, todo, packet_id>>
          \/ stage' = "publish" /\ todo' = todo /\ UNCHANGED <<job, packet_id>>
          \/ stage' = "publish" /\ todo' = Tail(todo) /\ UNCHANGED <<job, packet_id>>
          \/ stage' = "devinfo" /\ UNCHANGED <<job, todo, packet_id>>
      BY <2>8 DEF Resolve
    <3>4. CASE stage' = "publish" /\ todo' = Tail(todo) /\ UNCHANGED <<job, packet_id>>
      <4>1. packet_id' \in 1..Counted' /\ Left(todo', Script(job'))
            /\ Len(todo') = 1 /\ todo' \in Seq(Topics)
        BY <3>1, <3>2, <3>4 DEF Counted, Left
      <4>2. packet_id' \in 0..6 /\ job' \in Jobs \cup {"none"} /\ stage' \in Places
            /\ job' # "none" /\ stage' = "publish"
        BY <3>1, <3>4 DEF PlanOK
      <4> QED
        BY <4>1, <4>2 DEF PlanOK
    <3>5. CASE /\ stage' \in {"publish", "devinfo"} /\ UNCHANGED <<job, todo, packet_id>>
      <4>1. Counted' = Counted
        BY <3>5 DEF Counted
      <4>2. Len(todo') > 0 /\ Left(todo', Script(job')) /\ packet_id' \in 1..Counted'
        BY <3>1, <3>5, <4>1
      <4>3. stage' \in {"publish", "devinfo"} /\ job' = job /\ todo' = todo
            /\ packet_id' = packet_id /\ job # "none" /\ Len(todo') = 2
        BY <3>1, <3>5
      <4>4. CASE stage' = "publish"
        <5>1. todo' \in Seq(Topics) /\ packet_id' \in 0..6 /\ job' \in Jobs
          BY <4>3 DEF PlanOK
        <5>2. packet_id' \in 1..Counted' /\ Left(todo', Script(job')) /\ job' # "none"
          BY <4>2, <4>3
        <5> QED
          BY <4>3, <4>4, <5>1, <5>2 DEF PlanOK
      <4>5. CASE stage' = "devinfo"
        BY <4>2, <4>3, <4>5 DEF PlanOK
      <4> QED
        BY <4>3, <4>4, <4>5
    <3> QED
      BY <1>1, <1>2, <3>3, <3>4, <3>5
  <2>9. CASE Finish
    BY <1>2, <2>9 DEF Finish
  <2> QED
    BY <1>7, <2>1, <2>2, <2>3, <2>4, <2>5, <2>6, <2>7, <2>8, <2>9 DEF SessionStep
<1>8. CASE Deadline
  <2>1. todo \in Seq(Topics) /\ (todo # <<>> => Len(todo) > 0)
    BY DEF PlanOK
  <2>2. CASE stage = "puback" /\ Head(todo) = "subdev"
    <3>1. CASE End(FALSE)
      BY <1>2, <3>1
    <3>2. CASE ~End(FALSE)
      BY <1>8, <2>2, <3>2, TopicDone DEF Deadline
    <3> QED
      BY <3>1, <3>2
  <2>3. CASE stage = "devinfo"
    <3>1. CASE End(FALSE)
      BY <1>2, <3>1
    <3>2. CASE ~End(FALSE)
      <4>1. job = "steer" /\ stage' = "resolve-last" /\ UNCHANGED <<job, todo, packet_id>>
        BY <1>8, <2>3, <3>2 DEF Deadline
      <4> QED
        BY <2>3, <4>1 DEF PlanOK, Counted
    <3> QED
      BY <3>1, <3>2
  <2>4. CASE stage = "echo" /\ todo # <<>>
    <3>1. stage' = "publish" /\ UNCHANGED <<job, todo, packet_id>>
      BY <1>8, <2>4 DEF Deadline
    <3> QED
      BY <2>1, <2>4, <3>1 DEF PlanOK, Counted
  <2>5. CASE \/ stage = "suback"
             \/ stage = "puback" /\ Head(todo) # "subdev"
             \/ stage = "echo" /\ todo = <<>>
    <3>1. \E ok \in BOOLEAN : End(ok)
      BY <1>8, <2>5 DEF Deadline
    <3> QED
      BY <1>2, <3>1
  <2>6. stage \in Waits
    BY <1>8 DEF Deadline
  <2>7. stage \in {"suback", "puback", "devinfo", "echo"}
    BY <2>6
  <2> QED
    BY <2>2, <2>3, <2>4, <2>5, <2>7
<1> QED
  BY <1>4, <1>5, <1>6, <1>7, <1>8 DEF Next

\* What is under way belongs to this session, whose ids end at packet_id.
SocketOK ==
  /\ socket \in Seq(Packets) /\ Len(socket) <= MaxUnread /\ aligned \in BOOLEAN
  /\ replied \subseteq delivered /\ delivered \subseteq 1..packet_id
  /\ acknowledged \subseteq 2..packet_id

RadioOK == /\ saw_devinfo \in BOOLEAN
           /\ target \in [valid : BOOLEAN, bssid : Fields, channel : Fields]

SharedOK == /\ mode \in Modes /\ available \in BOOLEAN
            /\ cooldown \in BOOLEAN /\ answered \in BOOLEAN

LEMMA NothingUnread == <<>> \in Seq(Packets) /\ Len(<<>>) = 0
OBVIOUS

LEMMA ClosedSocket == Closed => SocketOK' /\ RadioOK'
<1> SUFFICES ASSUME Closed PROVE SocketOK' /\ RadioOK'
  OBVIOUS
<1>1. SocketOK'
  BY NothingUnread DEF Closed, SocketOK
<1>2. NoTarget \in [valid : BOOLEAN, bssid : Fields, channel : Fields]
  BY DEF NoTarget, Fields
<1> QED
  BY <1>1, <1>2 DEF Closed, RadioOK

LEMMA UnreadTail ==
  ASSUME socket \in Seq(Packets), socket # <<>>
  PROVE  /\ Tail(socket) \in Seq(Packets) /\ Len(Tail(socket)) <= Len(socket)
         /\ Head(socket) \in Packets
OBVIOUS

\* The bounds of a session grow with packet_id only.
LEMMA SocketFrame ==
  ASSUME PlanOK, SocketOK, packet_id' \in {packet_id, packet_id + 1},
         socket' = socket \/ (socket # <<>> /\ socket' = Tail(socket)),
         aligned' \in BOOLEAN, UNCHANGED broker_vars,
         \/ UNCHANGED acknowledged
         \/ /\ stage = "puback" /\ packet_id' = packet_id
            /\ acknowledged' = acknowledged \cup {packet_id}
  PROVE  SocketOK'
<1>1. socket' \in Seq(Packets) /\ Len(socket') <= MaxUnread
  BY UnreadTail DEF SocketOK
<1>2. packet_id \in 0..6 /\ (stage = "puback" => packet_id >= 2)
  BY DEF PlanOK
<1>3. acknowledged' \subseteq 2..packet_id'
  <2>1. acknowledged \subseteq 2..packet_id
    BY DEF SocketOK
  <2>2. CASE UNCHANGED acknowledged
    BY <1>2, <2>1, <2>2
  <2>3. CASE /\ stage = "puback" /\ packet_id' = packet_id
             /\ acknowledged' = acknowledged \cup {packet_id}
    BY <1>2, <2>1, <2>3
  <2> QED
    BY <2>2, <2>3
<1>4. replied' \subseteq delivered' /\ delivered' \subseteq 1..packet_id'
  BY <1>2 DEF SocketOK, broker_vars
<1> QED
  BY <1>1, <1>3, <1>4 DEF SocketOK

LEMMA StepSocket ==
  ASSUME PlanOK, SocketOK, SessionStep \/ Deadline PROVE SocketOK'
<1> USE DEF session_vars, SessionKeeps
<1>1. CASE \E ok \in BOOLEAN : End(ok)
  BY <1>1, ClosedSocket DEF End
<1>2. aligned \in BOOLEAN
  BY DEF SocketOK
<1>3. CASE Connect \/ Subscribe \/ Publish
  BY <1>1, <1>2, <1>3, SocketFrame DEF Connect, Subscribe, Publish
<1>4. CASE ReadSuback \/ ReadWhileWaiting
  BY <1>1, <1>2, <1>4, SocketFrame DEF ReadSuback, ReadWhileWaiting
<1>5. CASE ReadPuback
  BY <1>2, <1>5, SocketFrame DEF ReadPuback
<1>6. CASE LosePacket
  BY <1>6, SocketFrame DEF LosePacket
<1>7. CASE Resolve \/ Finish
  BY <1>1, <1>2, <1>7, SocketFrame DEF Resolve, Finish
<1>8. CASE Deadline
  BY <1>1, <1>2, <1>8, SocketFrame DEF Deadline
<1> QED
  BY <1>3, <1>4, <1>5, <1>6, <1>7, <1>8 DEF SessionStep

LEMMA KeepsSocket == PlanOK /\ SocketOK /\ [Next]_vars => SocketOK'
<1> SUFFICES ASSUME PlanOK, SocketOK, [Next]_vars PROVE SocketOK'
  OBVIOUS
<1> USE DEF session_vars, broker_vars
<1>1. ASSUME UNCHANGED <<packet_id, socket, aligned, delivered, replied, acknowledged>>
      PROVE  SocketOK'
  BY <1>1 DEF SocketOK
<1>2. CASE \/ \E j \in Jobs \ HttpJobs : StartWorkerJob(j)
           \/ StartHopTest \/ StartCancel \/ SetMode \/ Minute \/ UNCHANGED vars
  BY <1>1, <1>2 DEF StartWorkerJob, StartHopTest, StartCancel, Open, SetMode, Minute, vars
<1>3. CASE Accept
  BY <1>3 DEF Accept, SocketOK
<1>4. ASSUME NEW p \in Packets, Len(socket) < MaxUnread, socket' = Append(socket, p)
      PROVE  socket' \in Seq(Packets) /\ Len(socket') <= MaxUnread
  BY <1>4 DEF SocketOK
<1>5. CASE Answer
  <2>1. PICK i \in delivered \ replied :
          /\ replied' = replied \cup {i}
          /\ socket' = Append(socket, IF i = 1 THEN Suback ELSE Puback(i))
    BY <1>5 DEF Answer
  <2>2. i \in 1..6
    BY DEF SocketOK, PlanOK
  <2>3. (IF i = 1 THEN Suback ELSE Puback(i)) \in Packets
    BY <2>2 DEF Packets
  <2>4. socket' \in Seq(Packets) /\ Len(socket') <= MaxUnread
    BY <1>4, <1>5, <2>1, <2>3 DEF Answer
  <2> QED
    BY <1>5, <2>1, <2>4 DEF Answer, SocketOK
<1>6. CASE Forward
  <2>1. PICK r \in Records : socket' = Append(socket, Publication(r))
    BY <1>6 DEF Forward
  <2>2. Publication(r) \in Packets
    BY DEF Packets
  <2> QED
    BY <1>4, <1>6, <2>1, <2>2 DEF Forward, SocketOK
<1>7. CASE SessionStep \/ Deadline
  BY <1>7, StepSocket
<1> QED
  BY <1>2, <1>3, <1>5, <1>6, <1>7 DEF Next

\* A record that is taken comes from the broker's other clients.
LEMMA RecordsAreTyped ==
  ASSUME SocketOK, socket # <<>>, Head(socket).type = "PUBLISH"
  PROVE  Head(socket).record \in Records
<1>1. Head(socket) \in Packets
  BY UnreadTail DEF SocketOK
<1> QED
  BY <1>1 DEF Packets, Suback, Puback, Publication

LEMMA TakenRadio ==
  ASSUME RadioOK, NEW r \in Records, TakeRecord(r) PROVE RadioOK'
<1>1. /\ r.kind \in Kinds /\ (r.kind # "other" => r.kind \in Fields)
      /\ r.parent \in BOOLEAN /\ r.bssid \in BOOLEAN /\ r.channel \in BOOLEAN
  BY SessionAssumption DEF Kinds, Fields, SessionAssumption
<1>2. CASE ~r.parent \/ r.kind = "other"
  <2>1. Resolved(r) = target
    BY <1>2 DEF Resolved
  <2> QED
    BY <2>1 DEF TakeRecord, RadioOK
<1>3. CASE r.parent /\ r.kind # "other" /\ r.bssid /\ r.channel
  <2>1. Resolved(r) = [valid |-> TRUE, bssid |-> r.kind, channel |-> r.kind]
    BY <1>3 DEF Resolved
  <2> QED
    BY <1>1, <1>3, <2>1 DEF TakeRecord, RadioOK
<1>4. CASE r.parent /\ r.kind # "other" /\ ~(r.bssid /\ r.channel)
  <2>1. Resolved(r) = [target EXCEPT !.bssid = IF r.bssid THEN r.kind ELSE @]
    BY <1>4 DEF Resolved
  <2>2. Resolved(r) \in [valid : BOOLEAN, bssid : Fields, channel : Fields]
    BY <1>1, <1>4, <2>1 DEF RadioOK
  <2> QED
    BY <2>2 DEF TakeRecord, RadioOK
<1> QED
  BY <1>2, <1>3, <1>4

LEMMA KeepsRadio == SocketOK /\ RadioOK /\ [Next]_vars => RadioOK'
<1> SUFFICES ASSUME SocketOK, RadioOK, [Next]_vars PROVE RadioOK'
  OBVIOUS
<1> USE DEF SessionKeeps, radio_vars
<1>1. ASSUME UNCHANGED radio_vars PROVE RadioOK'
  BY <1>1 DEF RadioOK
<1>2. ASSUME NEW ok \in BOOLEAN, End(ok) PROVE RadioOK'
  BY <1>2, ClosedSocket DEF End
<1>3. CASE ReadPuback \/ ReadWhileWaiting
  BY <1>1, <1>3, RecordsAreTyped, TakenRadio DEF ReadPuback, ReadWhileWaiting
<1>4. CASE Resolve
  <2>1. \/ UNCHANGED radio_vars
        \/ \E ok \in BOOLEAN : End(ok)
        \/ /\ target' = [valid |-> TRUE, bssid |-> "JNAP", channel |-> "JNAP"]
           /\ UNCHANGED saw_devinfo
    BY <1>4 DEF Resolve
  <2>2. [valid |-> TRUE, bssid |-> "JNAP", channel |-> "JNAP"]
          \in [valid : BOOLEAN, bssid : Fields, channel : Fields]
    BY DEF Fields
  <2> QED
    BY <1>1, <1>2, <2>1, <2>2 DEF RadioOK
<1>5. CASE Connect \/ Subscribe \/ Publish \/ ReadSuback \/ LosePacket \/ Finish
  BY <1>1, <1>2, <1>5 DEF Connect, Subscribe, Publish, ReadSuback, LosePacket, Finish
<1>6. CASE Deadline
  BY <1>1, <1>2, <1>6 DEF Deadline
<1>7. CASE \/ \E j \in Jobs \ HttpJobs : StartWorkerJob(j)
           \/ StartHopTest \/ StartCancel \/ Accept \/ Answer \/ Forward \/ SetMode
           \/ Minute \/ UNCHANGED vars
  BY <1>1, <1>7 DEF StartWorkerJob, StartHopTest, StartCancel, Open, Accept, Answer,
     Forward, SetMode, Minute, vars
<1> QED
  BY <1>3, <1>4, <1>5, <1>6, <1>7 DEF Next, SessionStep

LEMMA KeepsShared == SharedOK /\ [Next]_vars => SharedOK'
<1> SUFFICES ASSUME SharedOK, [Next]_vars PROVE SharedOK'
  OBVIOUS
<1> USE DEF SessionKeeps, shared_vars
<1>1. ASSUME UNCHANGED shared_vars PROVE SharedOK'
  BY <1>1 DEF SharedOK
<1>2. ASSUME NEW ok \in BOOLEAN, End(ok) PROVE SharedOK'
  <2>1. /\ available' \in {available} \cup {ok : j \in {job} \cap {"probe", "steer"}}
        /\ cooldown' = cooldown \/ cooldown' = FALSE
        /\ answered' = (answered \/ (job = "hop-test" /\ ok)) /\ mode' = mode
    BY <1>2 DEF End, Conclude
  <2>2. available' \in {available, ok}
    BY <2>1
  <2>3. answered' \in BOOLEAN
    BY <2>1, Zenon
  <2> QED
    BY <2>1, <2>2, <2>3 DEF SharedOK
<1>3. CASE SessionStep
  BY <1>1, <1>2, <1>3 DEF SessionStep, Connect, Subscribe, Publish, ReadSuback,
     ReadPuback, ReadWhileWaiting, LosePacket, Resolve, Finish, session_vars
<1>4. CASE Deadline
  BY <1>1, <1>2, <1>4 DEF Deadline
<1>5. CASE SetMode
  <2>1. mode' \in Modes /\ UNCHANGED <<cooldown, answered>>
    BY <1>5 DEF SetMode
  <2>2. available' \in BOOLEAN
    BY <1>5, Zenon DEF SetMode
  <2> QED
    BY <2>1, <2>2 DEF SharedOK
<1>6. CASE \/ \E j \in Jobs \ HttpJobs : StartWorkerJob(j)
           \/ StartHopTest \/ StartCancel \/ Accept \/ Answer \/ Forward \/ Minute
           \/ UNCHANGED vars
  BY <1>1, <1>6 DEF StartWorkerJob, StartHopTest, StartCancel, Accept, Answer, Forward,
     Minute, SharedOK, vars
<1> QED
  BY <1>3, <1>4, <1>5, <1>6 DEF Next

\* Types and bounds: a session of one of the five jobs sends no more packets than
\* its topics and the subscription, so an id is never used twice in it; and a Node
\* is under the cooldown as long as its hop test runs.
THEOREM TypeCorrect == Spec => []TypeOK
<1>1. Init => PlanOK /\ SocketOK /\ RadioOK /\ SharedOK
  <2> SUFFICES ASSUME Init PROVE PlanOK /\ SocketOK /\ RadioOK /\ SharedOK
    OBVIOUS
  <2>1. PlanOK
    BY DEF Init, PlanOK, Places
  <2>2. SocketOK
    BY NothingUnread DEF Init, SocketOK
  <2>3. RadioOK
    BY DEF Init, RadioOK, NoTarget, Fields
  <2>4. SharedOK
    BY DEF Init, SharedOK
  <2> QED
    BY <2>1, <2>2, <2>3, <2>4
<1>2. PlanOK /\ SocketOK /\ RadioOK /\ SharedOK /\ PacedOK => TypeOK
  BY DEF PlanOK, SocketOK, RadioOK, SharedOK, PacedOK, Topics, Places, TypeOK
<1>3. Spec => []PacedOK
  <2>1. PacedOK /\ [Next]_vars => PacedOK'
    BY StepPaced
  <2> QED
    BY <2>1, InitPaced, PTL DEF Spec
<1>4. Spec => []PlanOK
  BY <1>1, KeepsPlan, PTL DEF Spec
<1>5. Spec => []SocketOK
  BY <1>1, <1>4, KeepsSocket, PTL DEF Spec
<1>6. Spec => []RadioOK
  BY <1>1, <1>5, KeepsRadio, PTL DEF Spec
<1>7. Spec => []SharedOK
  BY <1>1, KeepsShared, PTL DEF Spec
<1> QED
  BY <1>2, <1>3, <1>4, <1>5, <1>6, <1>7, PTL

================================================================================
