------------------------------ MODULE Ingestion ------------------------------
(***************************************************************************)
(* A market or social ingestor process: the provider that polls an         *)
(* upstream source, and the ingestion service that passes every polled     *)
(* item through the guardrails, the dedupe claim, the quality tracker, the *)
(* publisher and the online state.                                         *)
(*                                                                         *)
(*   source    which of the two ingestors the behaviour runs               *)
(*   offered   the items the upstream source has, 1..offered by age        *)
(*   cursor    the newest item polled (process memory)                     *)
(*   page      items polled and not yet yielded (process memory)           *)
(*   emitted   sequence number of the last item yielded (process memory)   *)
(*   tracker   SourceQualityTracker (process memory)                       *)
(*   step      where the process is in ingest                              *)
(*   claims    dedupe keys in Redis                                        *)
(*   stream    what was published, in order                                *)
(*   latest    latest:<source> in Redis                                    *)
(* Counted for the properties: clean, the book updates since the last gap  *)
(* or stale one; full, whether a page was ever full; and the faults.       *)
(***************************************************************************)
EXTENDS Naturals, Sequences, FiniteSets

CONSTANTS MaxItem,           \* bound on the upstream items
          PageSize,          \* items of one poll (100 trades, 40 posts)
          BookItems,         \* market items that update the order book
          Refused,           \* items the guardrails reject
          MaxFaults          \* bound on crashes, failures and expired claims

ASSUME IngestionAssumption ==
  /\ PageSize \in Nat \ {0}
  /\ BookItems \subseteq 1..MaxItem
  /\ Refused \subseteq 1..MaxItem

VARIABLES source, offered, cursor, page, emitted, tracker, step,
          claims, stream, latest, clean, full, crashes, failures, expiries

process == <<cursor, page, emitted, tracker, step, clean>>
online == <<claims, stream, latest>>
faults == <<crashes, failures, expiries>>
ingestionVars == <<source, offered, process, online, full, faults>>

Fresh == [last |-> 0, book |-> "VALID"]

IngestionInit ==
  /\ source \in {"market", "social"}
  /\ offered = 0
  /\ cursor = 0 /\ page = <<>> /\ emitted = 0
  /\ tracker = Fresh /\ step = "poll" /\ clean = 2
  /\ claims = {} /\ stream = <<>> /\ latest = 0
  /\ full = FALSE
  /\ crashes = 0 /\ failures = 0 /\ expiries = 0

Faults == crashes + failures + expiries

(* The process ends and its supervisor starts another: its memory is new.  *)
ProcessEnds ==
  /\ cursor' = 0 /\ page' = <<>> /\ emitted' = 0
  /\ tracker' = Fresh /\ step' = "poll" /\ clean' = 2

UpstreamGrows ==
  /\ offered < MaxItem
  /\ offered' = offered + 1
  /\ UNCHANGED <<source, process, online, full, faults>>

(* A market poll asks for the trades after the cursor, oldest first, once  *)
(* it has one; the first market poll and every social poll get the newest. *)
Newest(S) == {i \in S : Cardinality({j \in S : j > i}) < PageSize}
Oldest(S) == {i \in S : Cardinality({j \in S : j < i}) < PageSize}
PageWithoutTheLast ==  \* mutant: the next unseen item is left out
  LET unseen == (cursor + 2)..offered
  IN  IF source = "market" /\ cursor > 0 THEN Oldest(unseen) ELSE Newest(unseen)
Page ==
  LET unseen == (cursor + 1)..offered
  IN  IF source = "market" /\ cursor > 0 THEN Oldest(unseen) ELSE Newest(unseen)
Ascending(S) == [k \in 1..Cardinality(S) |->
                   CHOOSE i \in S : Cardinality({j \in S : j < i}) = k - 1]

Poll ==
  /\ step = "poll" /\ page = <<>>
  /\ Page # {}
  /\ page' = Ascending(Page)
  /\ cursor' = page'[Len(page')]
  /\ full' = (full \/ Cardinality(Page) = PageSize)
  /\ UNCHANGED <<source, offered, emitted, tracker, step, clean, online, faults>>

(* A failed request ends the provider's generator, and with it the process *)
(* and the circuit breaker that has counted the failure.                   *)
PollFails ==
  /\ step = "poll" /\ page = <<>>
  /\ Faults < MaxFaults
  /\ failures' = failures + 1
  /\ ProcessEnds
  /\ UNCHANGED <<source, offered, online, full, crashes, expiries>>

Item == Head(page)
InIngest == IF step = "poll" THEN {} ELSE {Item}

(* The item is refused by the guardrails, or its claim is already held.    *)
Skip ==
  /\ step = "poll" /\ page # <<>>
  /\ Item \in Refused \union claims
  /\ emitted' = emitted + 1
  /\ page' = Tail(page)
  /\ UNCHANGED <<source, offered, cursor, tracker, step, clean, online,
                 full, faults>>

(* SourceQualityTracker.observe of the item yielded with this sequence.    *)
Gap(sequence) == tracker.last # 0 /\ sequence # tracker.last + 1
BookAfter(sequence, stale) ==
  IF stale THEN "STALE"
  ELSE IF Gap(sequence) THEN "GAP_DETECTED"
  ELSE CASE tracker.book \in {"GAP_DETECTED", "STALE"} -> "RESYNCING"
         [] tracker.book = "RESYNCING" -> "RECOVERED"
         [] tracker.book \in {"RECOVERED", "VALID"} -> "VALID"
BookValid(state) == state \in {"VALID", "RECOVERED"}
IsBook == source = "market" /\ Item \in BookItems
Observe(sequence) ==
  \E stale \in BOOLEAN :
    /\ tracker' = [last |-> IF sequence > tracker.last THEN sequence ELSE tracker.last,
                   book |-> IF IsBook THEN BookAfter(sequence, stale) ELSE tracker.book]
    /\ clean' = IF ~IsBook THEN clean
                ELSE IF stale \/ Gap(sequence) THEN 0 ELSE clean + 1

(* A market item is observed before it is published (its quality travels   *)
(* with it), a social one after.                                           *)
Claim ==
  /\ step = "poll" /\ page # <<>>
  /\ Item \notin Refused \union claims
  /\ claims' = claims \union {Item}
  /\ emitted' = emitted + 1
  /\ step' = "publish"
  /\ IF source = "market" THEN Observe(emitted') ELSE UNCHANGED <<tracker, clean>>
  /\ UNCHANGED <<source, offered, cursor, page, stream, latest, full, faults>>

PublishItem ==
  /\ step = "publish"
  /\ stream' = Append(stream, Item)
  /\ step' = "set_latest"
  /\ IF source = "social" THEN Observe(emitted) ELSE UNCHANGED <<tracker, clean>>
  /\ UNCHANGED <<source, offered, cursor, page, emitted, claims, latest,
                 full, faults>>

SetLatest ==
  /\ step = "set_latest"
  /\ latest' = Item
  /\ step' = "set_health"
  /\ UNCHANGED <<source, offered, cursor, page, emitted, tracker, clean,
                 claims, stream, full, faults>>

SetHealth ==
  /\ step = "set_health"
  /\ page' = Tail(page)
  /\ step' = "poll"
  /\ UNCHANGED <<source, offered, cursor, emitted, tracker, clean, online,
                 full, faults>>

(* An exception between the claim and the end of ingest releases the claim *)
(* and ends the process; a publication that raised may have been committed. *)
IngestFailsKeepsClaim ==  \* mutant: the claim is kept
  /\ step \in {"publish", "set_latest", "set_health"}
  /\ Faults < MaxFaults
  /\ failures' = failures + 1
  /\ ProcessEnds
  /\ UNCHANGED <<source, offered, online, full, crashes, expiries>>
IngestFails ==
  /\ step \in {"publish", "set_latest", "set_health"}
  /\ Faults < MaxFaults
  /\ failures' = failures + 1
  /\ claims' = claims \ {Item}
  /\ stream' \in IF step = "publish" THEN {stream, Append(stream, Item)} ELSE {stream}
  /\ ProcessEnds
  /\ UNCHANGED <<source, offered, latest, full, crashes, expiries>>

IngestorCrashes ==
  /\ Faults < MaxFaults
  /\ crashes' = crashes + 1
  /\ ProcessEnds
  /\ UNCHANGED <<source, offered, online, full, failures, expiries>>

(* A claim lasts a day.                                                    *)
ClaimTimesOut ==
  /\ Faults < MaxFaults
  /\ \E i \in claims \ InIngest : claims' = claims \ {i}
  /\ expiries' = expiries + 1
  /\ UNCHANGED <<source, offered, process, stream, latest, full, crashes, failures>>

Ingest == Skip \/ Claim \/ PublishItem \/ SetLatest \/ SetHealth \/ IngestFails
IngestionNext ==
  \/ UpstreamGrows \/ Poll \/ PollFails \/ Ingest \/ IngestorCrashes \/ ClaimTimesOut

IngestionSpec == IngestionInit /\ [][IngestionNext]_ingestionVars
-----------------------------------------------------------------------------
Published == {stream[k] : k \in DOMAIN stream}
Copies(i) == Cardinality({k \in DOMAIN stream : stream[k] = i})
Waiting == {page[k] : k \in DOMAIN page}

(* The dedupe claim comes before the publication, so an item claimed by a  *)
(* process that died in between is refused to every retry for a day.  Each *)
(* crash loses at most the one item being ingested, and a failure the      *)
(* process survives long enough to handle loses none.                      *)
LossNeedsACrash ==
  Cardinality((claims \ Published) \ InIngest) <= crashes

(* A claim released after the publication lets the item be published once  *)
(* more: the copies of an item beyond the first are no more than the       *)
(* failures and the claims that ran out.                                   *)
CopiesNeedAFault ==
  \A i \in Published : Copies(i) <= 1 + failures + expiries

(* The cursor moves when a page is fetched, before any of its items is     *)
(* ingested, and a social poll takes the newest items above it.  As long   *)
(* as no page was full, no item at or below the cursor is passed over.     *)
PassedOverNeedsAFullPage ==
  ~full => \A i \in 1..cursor :
             i \in Waiting \union Published \union claims \union Refused \/ expiries > 0

(* An order book that had a gap or was stale is valid again only after two *)
(* clean updates in a row, and then at once.                               *)
BookNeedsTwoCleanUpdates == BookValid(tracker.book) <=> clean >= 2

(* What an ingestor promises of the items it did poll.                     *)
IngestionInv == LossNeedsACrash /\ CopiesNeedAFault /\ BookNeedsTwoCleanUpdates
=============================================================================
