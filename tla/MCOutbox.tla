------------------------------- MODULE MCOutbox -------------------------------
(* Small instances of Outbox: two channels, the second of which may be broken.  *)
EXTENDS Outbox, TLC

MCBackoff == <<1>>
MCWindow == [event |-> 1, channel_failed |-> 2, refused |-> 1]
MCAnything == [c \in Channels |-> {"delivered", "transient", "failed"}]
\* Channels that may be slow but refuse nothing.
MCSteady == [c \in Channels |-> {"delivered", "transient"}]
MCOnly == {Channels}
MCSome == {Channels, {"email"}, {}}
\* The channel that works stays configured.
MCWebhookOn == {Channels, {"webhook"}}

\* One broken channel beside one that works.
MCOneBroken == [email |-> {"delivered", "transient", "failed"}, webhook |-> {"delivered"}]

\* Half an hour a unit: 15 s, 60 s and 5 min round to 0; an event 1, an escalation 12 (six hours).
RealBackoff == <<0, 0, 0, 1, 4>>
RealWindow == [event |-> 1, channel_failed |-> 12, refused |-> 1]
MCBothBroken == [c \in Channels |-> {"transient"}]

Sym == Permutations(Drains)
===============================================================================
