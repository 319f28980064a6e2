------------------------------- MODULE Realtime -------------------------------
(***************************************************************************)
(* Live alerts: the gateway worker appends the records of the alert topic  *)
(* to one Redis stream of bounded length, and a client follows the stream  *)
(* over server-sent events, resuming after a disconnection from the last   *)
(* identifier it received (realtime.py, realtime_worker.py,                *)
(* routes/campaigns.py).                                                   *)
(*                                                                         *)
(*   committed     the gateway's offset in the topic                       *)
(*   unconfirmed   a record was appended and its offset is not committed   *)
(*   entries       the records appended to the stream, oldest first; the   *)
(*                 identifier of an entry is its position                  *)
(*   oldest        the oldest entry the stream still holds                 *)
(*   subscription  the client's subscription                               *)
(*   last_event_id what the client resumes from                            *)
(*   received      the entries the client was sent                         *)
(*   announced     the entries a reset told the client to reload           *)
(*   overrun       the entries trimmed under a connected subscription      *)
(*   unread        the entries a subscription that starts from "now" did   *)
(*                 not wait for: appended outside its blocking read, or    *)
(*                 before it closed without having received one            *)
(***************************************************************************)
EXTENDS Naturals, Sequences, FiniteSets

CONSTANTS MaxAlerts,       \* bound on the records of the topic
          StreamLength,    \* realtime_stream_max_length
          ReadCount,       \* entries of one XREAD
          MaxDisruptions   \* bound on gateway crashes and disconnections

ASSUME RealtimeAssumption ==
  /\ {MaxAlerts, MaxDisruptions} \subseteq Nat
  /\ {StreamLength, ReadCount} \subseteq Nat \ {0}

Now == 0    \* the cursor "$"

VARIABLES committed, unconfirmed, entries, oldest, subscription, last_event_id,
          received, announced, overrun, unread, disruptions

gatewayVars == <<committed, unconfirmed>>
streamVars == <<entries, oldest>>
clientVars == <<last_event_id, received, announced>>
realtimeVars == <<gatewayVars, streamVars, subscription, clientVars, overrun, unread, disruptions>>

Away(cursor) == [state |-> "away", cursor |-> cursor, batch |-> <<>>]

RealtimeInit ==
  /\ committed = 0 /\ unconfirmed = FALSE
  /\ entries = <<>> /\ oldest = 1
  /\ subscription = Away(Now)
  /\ last_event_id = Now /\ received = {} /\ announced = {}
  /\ overrun = {} /\ unread = {} /\ disruptions = 0

Newer(cursor) == {e \in oldest..Len(entries) : e > cursor}
FirstOf(es) == {e \in es : Cardinality({f \in es : f < e}) < ReadCount}
InOrder(es) == [i \in 1..Cardinality(es) |->
                  CHOOSE e \in es : Cardinality({f \in es : f < e}) = i - 1]

(* XADD with an approximate maximum: the stream keeps at least             *)
(* StreamLength entries.  A blocked read is answered with the new entry.   *)
Trimmed(length) == {o \in oldest..length : o = oldest \/ length - o + 1 >= StreamLength}
SentUpTo(r) == IF r.batch = <<>> THEN r.cursor ELSE r.batch[Len(r.batch)]
PublishAlert ==
  /\ ~unconfirmed /\ committed < MaxAlerts
  /\ entries' = Append(entries, committed + 1)
  /\ oldest' \in Trimmed(Len(entries'))
  /\ unconfirmed' = TRUE
  /\ subscription' = IF subscription.state = "blocked"
               THEN [subscription EXCEPT !.state = "answered", !.batch = <<Len(entries')>>]
               ELSE subscription
  /\ unread' = IF subscription.cursor = Now /\ subscription.state # "blocked" /\ subscription.batch = <<>>
               THEN unread \union {Len(entries')} ELSE unread
  /\ overrun' = IF subscription.state \in {"reading", "answered"} /\ SentUpTo(subscription) # Now
                THEN overrun \union {e \in oldest..(oldest' - 1) : e > SentUpTo(subscription)}
                ELSE overrun
  /\ UNCHANGED <<committed, clientVars, disruptions>>

CommitAlert ==
  /\ unconfirmed
  /\ committed' = committed + 1 /\ unconfirmed' = FALSE
  /\ UNCHANGED <<streamVars, subscription, clientVars, overrun, unread, disruptions>>

(* The gateway restarts from its committed offset: the record is appended  *)
(* a second time, under a new identifier.                                  *)
GatewayCrashes ==
  /\ unconfirmed /\ disruptions < MaxDisruptions
  /\ unconfirmed' = FALSE /\ disruptions' = disruptions + 1
  /\ UNCHANGED <<committed, streamVars, subscription, clientVars, overrun, unread>>
-----------------------------------------------------------------------------
(* subscribe: a resumed cursor is compared once with the oldest entry.     *)
IsBehindTheNewest(cursor) ==  \* mutant: a cursor is compared with the newest entry
  cursor # Now /\ cursor > Len(entries)
IsBehind(cursor) == cursor # Now /\ Len(entries) > 0 /\ cursor < oldest
Subscribe ==
  /\ subscription.state = "away"
  /\ IF IsBehind(last_event_id)
     THEN /\ subscription' = [Away(Now) EXCEPT !.state = "reading"]
          /\ last_event_id' = oldest
          /\ announced' = 1..Len(entries)
     ELSE /\ subscription' = [Away(last_event_id) EXCEPT !.state = "reading"]
          /\ UNCHANGED <<last_event_id, announced>>
  /\ UNCHANGED <<gatewayVars, streamVars, received, overrun, unread, disruptions>>

(* XREAD: the entries after the cursor, or a wait for the next one.        *)
ReadStream ==
  /\ subscription.state = "reading"
  /\ LET found == IF subscription.cursor = Now THEN {} ELSE FirstOf(Newer(subscription.cursor)) IN
     subscription' = IF found = {} THEN [subscription EXCEPT !.state = "blocked"]
               ELSE [subscription EXCEPT !.state = "answered", !.batch = InOrder(found)]
  /\ UNCHANGED <<gatewayVars, streamVars, clientVars, overrun, unread, disruptions>>

(* After 15 s without an entry: a heartbeat, and the same cursor again.    *)
Heartbeat ==
  /\ subscription.state = "blocked"
  /\ subscription' = [subscription EXCEPT !.state = "reading"]
  /\ UNCHANGED <<gatewayVars, streamVars, clientVars, overrun, unread, disruptions>>

SendEntry ==
  /\ subscription.state = "answered"
  /\ LET e == Head(subscription.batch) IN
     /\ received' = received \union {e}
     /\ last_event_id' = e
     /\ subscription' = [state |-> IF Len(subscription.batch) = 1 THEN "reading" ELSE "answered",
                   cursor |-> e, batch |-> SubSeq(subscription.batch, 2, Len(subscription.batch))]
  /\ UNCHANGED <<gatewayVars, streamVars, announced, overrun, unread, disruptions>>

Disconnect ==
  /\ subscription.state # "away" /\ disruptions < MaxDisruptions
  /\ subscription' = Away(last_event_id)
  /\ disruptions' = disruptions + 1
  /\ unread' = IF last_event_id = Now
               THEN 1..Len(entries) ELSE unread
  /\ UNCHANGED <<gatewayVars, streamVars, clientVars, overrun>>

RealtimeNext ==
  \/ PublishAlert \/ CommitAlert \/ GatewayCrashes
  \/ Subscribe \/ ReadStream \/ Heartbeat \/ SendEntry \/ Disconnect

RealtimeSpec == RealtimeInit /\ [][RealtimeNext]_realtimeVars
-----------------------------------------------------------------------------
(* A client is told of what it missed: every entry it passed over was      *)
(* announced by a reset, unless the stream was trimmed under its open      *)
(* subscription, or the entry came while a subscription from "now" was     *)
(* between two reads or as it closed.  These gaps are silent.              *)
SilentGapNeedsAnOverrun ==
  (1..last_event_id) \ received \subseteq announced \union overrun \union unread
=============================================================================
