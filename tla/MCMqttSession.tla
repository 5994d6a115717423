------------------------------ MODULE MCMqttSession -----------------------------
(* Small instances of MqttSession for TLC. *)
EXTENDS MqttSession

AllJobs == {"probe", "phy", "steer", "hop-test", "cancel"}
Steering == {"steer"}

Record(kind, parent, bssid, channel) ==
  [kind |-> kind, parent |-> parent, bssid |-> bssid, channel |-> channel]

\* The Parent's own records, with its radio or without the channel; another
\* Node's; and what is neither.
SomeRecords == {Record("DEVINFO", TRUE, TRUE, TRUE),
                Record("serving_channels", TRUE, TRUE, FALSE),
                Record("DEVINFO", FALSE, TRUE, TRUE),
                Record("other", FALSE, FALSE, FALSE)}
================================================================================
