---------------------------- MODULE SourceImport ----------------------------
(***************************************************************************)
(* The import of one data source: the worker that pages through its        *)
(* channels and checkpoints the watermark, the scanner each process keeps  *)
(* in memory between its calls, and the provider, whose channels go on     *)
(* publishing.  The job lock is not assumed: after a force-cancel, or when *)
(* a lease ran out, several processes import the source at once.           *)
(*                                                                         *)
(* A record is its channel and its timestamp.                              *)
(***************************************************************************)
EXTENDS Naturals, FiniteSets

CONSTANTS
  Channels,     \* external ids of the source
  Processes,    \* each has at most one run of the source, and one scanner
  MaxTime,      \* bound: timestamps are 1 .. MaxTime
  Timeframe,    \* width of the window a page reads
  PageSize,     \* records a page holds at most
  CallsFail     \* may repository and provider calls return Err

ASSUME ChannelsAssumption == IsFiniteSet(Channels)
ASSUME MaxTimeAssumption == MaxTime \in Nat
ASSUME TimeframeAssumption == Timeframe \in Nat \ {0}
ASSUME PageSizeAssumption == PageSize \in Nat \ {0}
ASSUME CallsFailAssumption == CallsFail \in BOOLEAN

VARIABLES
  published,        \* what the provider serves, per channel
  saved,            \* the measurements table: pairs of a channel and a timestamp
  imported_until,   \* the data source's row (None: NULL)
  pc,
  from,             \* the anchor of the process' run
  batch,            \* what its last page returned
  anchor,           \* the process' scanner: the anchor it was seeded with,
  order,            \*   the order its map of cursors is iterated in,
  next,             \*   the exclusive lower bound of each channel's next page,
  last_real,        \*   the last record read of each channel,
  done,             \*   the exhausted channels
  seen,             \* history: the records that were in reach of its pages
  lost              \* history: the records of pages that were not saved

scanner == <<anchor, order, next, last_real, done, seen, lost>>
vars == <<published, saved, imported_until, pc, from, batch, scanner>>

-----------------------------------------------------------------------------

Times == 1 .. MaxTime

None == 0           \* no timestamp
Unseeded == MaxTime + 1

Least(S) == CHOOSE t \in S : \A u \in S : t <= u
Greatest(S) == CHOOSE t \in S : \A u \in S : t >= u

\* The iteration orders of a hash map, as the rank of each channel.
Orders ==
  {o \in [Channels -> 1 .. Cardinality(Channels)] :
     \A c, d \in Channels : o[c] = o[d] => c = d}

First(S, o) == CHOOSE c \in S : \A d \in S : o[c] <= o[d]

-----------------------------------------------------------------------------
(* A page of one channel (page_channel).  Without a cursor it starts at the *)
(* channel's earliest record.                                               *)

After(c, cur) == {t \in published[c] : t > cur}

WindowEnd(c, cur) ==
  Timeframe + IF cur = None THEN Least(published[c]) ELSE cur

InWindow(c, cur) == {t \in After(c, cur) : t <= WindowEnd(c, cur)}

\* Rows beyond the window: the channel is not exhausted.
DataBeyond(c, cur) == \E t \in After(c, cur) : t > WindowEnd(c, cur)

Page(c, cur) ==
  {t \in InWindow(c, cur) :
     Cardinality({u \in InWindow(c, cur) : u < t}) < PageSize}

PageFull(c, cur) == InWindow(c, cur) # Page(c, cur)

\* Mutation: the last record of the window, also when the page was cut short.
LastRealOfWindow(c, cur) ==
  IF InWindow(c, cur) = {} THEN None ELSE Greatest(InWindow(c, cur))

\* Mutation: the cursor that skips a gap passes for a record.
LastRealOrGap(c, cur) ==
  CASE Page(c, cur) # {} -> Greatest(Page(c, cur))
    [] Page(c, cur) = {} /\ DataBeyond(c, cur) -> WindowEnd(c, cur)
    [] OTHER -> None

LastReal(c, cur) == IF Page(c, cur) = {} THEN None ELSE Greatest(Page(c, cur))

\* Mutation: the cursor stays where it is when the window is empty.
NextFromStays(c, cur) == IF Page(c, cur) = {} THEN cur ELSE LastReal(c, cur)

\* Mutation: an empty window is skipped whether or not there is data beyond it.
NextFromSkips(c, cur) ==
  IF Page(c, cur) = {} /\ cur # None THEN WindowEnd(c, cur) ELSE LastReal(c, cur)

\* An empty window with data beyond it is skipped: a cursor no record has.
NextFrom(c, cur) ==
  CASE Page(c, cur) # {} -> LastReal(c, cur)
    [] Page(c, cur) = {} /\ DataBeyond(c, cur) -> WindowEnd(c, cur)
    [] OTHER -> None

\* Mutation: an empty window is taken for the end of the channel.
DoneUnlessFull(c, cur) == ~PageFull(c, cur)

Done(c, cur) == ~(PageFull(c, cur) \/ DataBeyond(c, cur))

-----------------------------------------------------------------------------
(* SourceScanner::watermark.  A channel that is exhausted without a record   *)
(* does not count; one that still has data but no record yet blocks the      *)
(* watermark.  The fold over the others is written as a minimum, but both    *)
(* arms of its comparison keep the value it has: the watermark is the last   *)
(* record of the channel the map iterates first.                             *)

Watermark(real, exhausted, o) ==
  LET read == {c \in Channels : real[c] # None}
  IN  IF read # {} /\ Channels \subseteq read \cup exhausted
      THEN real[First(read, o)]
      ELSE None

-----------------------------------------------------------------------------

NoBatch == [records |-> {}, next_from |-> None, more |-> FALSE]

Init ==
  /\ published = [c \in Channels |-> {}]
  /\ saved = {}
  /\ imported_until = None
  /\ pc = [p \in Processes |-> "idle"]
  /\ from = [p \in Processes |-> None]
  /\ batch = [p \in Processes |-> NoBatch]
  /\ anchor = [p \in Processes |-> Unseeded]
  /\ order \in [Processes -> Orders]
  /\ next = [p \in Processes |-> [c \in Channels |-> None]]
  /\ last_real = [p \in Processes |-> [c \in Channels |-> None]]
  /\ done = [p \in Processes |-> {}]
  /\ seen = [p \in Processes |-> {}]
  /\ lost = [p \in Processes |-> {}]

Goto(p, label) == pc' = [pc EXCEPT ![p] = label]

-----------------------------------------------------------------------------
(* The worker (update_one_source).                                          *)

\* The scanner was seeded with this anchor before, by an earlier run.
matches(p, a) == anchor[p] = a

Rewind(p, a) ==
  /\ next' = [next EXCEPT ![p] = [c \in Channels |-> a]]
  /\ last_real' = [last_real EXCEPT ![p] = [c \in Channels |-> None]]
  /\ done' = [done EXCEPT ![p] = {}]
  /\ seen' = [seen EXCEPT ![p] = {}]
  /\ lost' = [lost EXCEPT ![p] = {}]

Seed(p, a) ==
  /\ anchor' = [anchor EXCEPT ![p] = a]
  /\ \E o \in Orders : order' = [order EXCEPT ![p] = o]
  /\ Rewind(p, a)

\* Reads imported_until, which stays the anchor of the whole run.
Start(p) ==
  /\ pc[p] = "idle"
  /\ Goto(p, "syncing")
  /\ from' = [from EXCEPT ![p] = imported_until]
  /\ UNCHANGED <<published, saved, imported_until, batch, scanner>>

\* The sync of the stations or of the channels returns Err: no page is asked for.
SyncFails(p) ==
  /\ CallsFail
  /\ pc[p] = "syncing"
  /\ Goto(p, "idle")
  /\ UNCHANGED <<published, saved, imported_until, from, batch, scanner>>

\* The stations and channels are synced: the run's first page request seeds the
\* scanner.
Request(p) ==
  /\ pc[p] = "syncing"
  /\ Goto(p, "reading")
  /\ IF matches(p, from[p]) THEN UNCHANGED scanner ELSE Seed(p, from[p])
  /\ UNCHANGED <<published, saved, imported_until, from, batch>>

\* get_measurements_source: one page of a channel that is not exhausted (the
\* code takes them in turn), recorded in the scanner before it is returned.
Fetch(p, c) ==
  /\ pc[p] = "reading"
  /\ c \notin done[p]
  /\ LET cur == next[p][c]
         real == [last_real[p] EXCEPT ![c] =
                    IF LastReal(c, cur) # None THEN LastReal(c, cur) ELSE @]
         exhausted == IF Done(c, cur) THEN done[p] \cup {c} ELSE done[p]
     IN  /\ next' = [next EXCEPT ![p][c] = NextFrom(c, cur)]
         /\ last_real' = [last_real EXCEPT ![p] = real]
         /\ done' = [done EXCEPT ![p] = exhausted]
         /\ seen' = [seen EXCEPT ![p] = @ \cup {c} \X After(c, cur)]
         /\ batch' = [batch EXCEPT ![p] =
                        [records |-> {c} \X Page(c, cur),
                         next_from |-> Watermark(real, exhausted, order[p]),
                         more |-> exhausted # Channels]]
  /\ Goto(p, "saving")
  /\ UNCHANGED <<published, saved, imported_until, from, anchor, order, lost>>

\* Every channel is exhausted: an empty batch, and the end of the run.
FetchNothing(p) ==
  /\ pc[p] = "reading"
  /\ done[p] = Channels
  /\ batch' = [batch EXCEPT ![p] = NoBatch]
  /\ Goto(p, "checkpoint")
  /\ UNCHANGED <<published, saved, imported_until, from, scanner>>

\* The provider returns Err: nothing is recorded, the run fails.
FetchFails(p) ==
  /\ CallsFail
  /\ pc[p] = "reading"
  /\ Goto(p, "idle")
  /\ UNCHANGED <<published, saved, imported_until, from, batch, scanner>>

Save(p) ==
  /\ pc[p] = "saving"
  /\ saved' = saved \cup batch[p].records
  /\ Goto(p, "checkpoint")
  /\ UNCHANGED <<published, imported_until, from, batch, scanner>>

\* save_batch returns Err and is rolled back: the run fails.
SaveFails(p) ==
  /\ CallsFail
  /\ pc[p] = "saving"
  /\ lost' = [lost EXCEPT ![p] = @ \cup batch[p].records]
  /\ Goto(p, "idle")
  /\ UNCHANGED <<published, saved, imported_until, from, batch, anchor, order,
                 next, last_real, done, seen>>

\* on_batch: the watermark is stored, whatever the row holds by now; then the
\* job's heartbeat may tell that it was cancelled (or fail), and the run ends.
Checkpoint(p) ==
  /\ pc[p] = "checkpoint"
  /\ imported_until' = IF batch[p].next_from = None THEN imported_until
                                                     ELSE batch[p].next_from
  /\ \/ batch[p].more /\ Goto(p, "reading")
     \/ Goto(p, "idle")
  /\ UNCHANGED <<published, saved, from, batch, scanner>>

\* update_metadata or the update of the row returns Err.
CheckpointFails(p) ==
  /\ CallsFail
  /\ pc[p] = "checkpoint"
  /\ Goto(p, "idle")
  /\ UNCHANGED <<published, saved, imported_until, from, batch, scanner>>

\* The process dies; the next one has no scanner yet.
Crash(p) ==
  /\ Goto(p, "idle")
  /\ batch' = [batch EXCEPT ![p] = NoBatch]
  /\ anchor' = [anchor EXCEPT ![p] = Unseeded]
  /\ Rewind(p, None)
  /\ UNCHANGED <<published, saved, imported_until, from, order>>

-----------------------------------------------------------------------------
(* The environment.                                                         *)

\* A channel publishes its records in order; the channels do so independently.
Publish(c, t) ==
  /\ \A u \in published[c] : u < t
  /\ published' = [published EXCEPT ![c] = @ \cup {t}]
  /\ UNCHANGED <<saved, imported_until, pc, from, batch, scanner>>

\* DELETE /data-sources/{id}/imported_until.
Reset ==
  /\ imported_until' = None
  /\ UNCHANGED <<published, saved, pc, from, batch, scanner>>

-----------------------------------------------------------------------------
Worker(p) ==
  \/ Start(p) \/ SyncFails(p) \/ Request(p)
  \/ \E c \in Channels : Fetch(p, c)
  \/ FetchNothing(p) \/ FetchFails(p)
  \/ Save(p) \/ SaveFails(p)
  \/ Checkpoint(p) \/ CheckpointFails(p)

Next ==
  \/ \E p \in Processes : Worker(p) \/ Crash(p)
  \/ \E c \in Channels, t \in Times : Publish(c, t)
  \/ Reset

Spec == Init /\ [][Next]_vars

-----------------------------------------------------------------------------
(* Properties.                                                              *)

Timestamp == Times \cup {None}
Records == Channels \X Times

\* Every variable has its type.
TypeOK ==
  /\ published \in [Channels -> SUBSET Times]
  /\ saved \in SUBSET Records
  /\ imported_until \in Timestamp
  /\ pc \in [Processes -> {"idle", "syncing", "reading", "saving", "checkpoint"}]
  /\ from \in [Processes -> Timestamp]
  /\ batch \in [Processes -> [records : SUBSET Records, next_from : Timestamp,
                              more : BOOLEAN]]
  /\ anchor \in [Processes -> Timestamp \cup {Unseeded}]
  /\ order \in [Processes -> Orders]
  /\ next \in [Processes -> [Channels -> Timestamp]]
  /\ last_real \in [Processes -> [Channels -> Timestamp]]
  /\ done \in [Processes -> SUBSET Channels]
  /\ seen \in [Processes -> SUBSET Records]
  /\ lost \in [Processes -> SUBSET Records]

\* Neither a channel's last record nor its cursor is past a record that was in
\* reach of its pages and that no page returned: pages cut short and skipped
\* gaps leave nothing out.
NothingSkipped ==
  \A p \in Processes : \A r \in seen[p] :
    r[2] <= last_real[p][r[1]] \/ r[2] <= next[p][r[1]] =>
      \/ r \in saved \cup lost[p]
      \/ pc[p] = "saving" /\ r \in batch[p].records

\* A run that has read all its channels, the last page saved, has imported all
\* that was in reach of its pages, failed saves aside: what a watermark ahead of
\* a channel leaves out is only lost when the run is interrupted.
FinishedRunIsComplete ==
  \A p \in Processes :
    pc[p] = "checkpoint" /\ ~batch[p].more => seen[p] \subseteq saved \cup lost[p]

\* What the source's row and table promise (ImportFeed), with several processes
\* at once: only records the provider has are stored, and the watermark is the
\* time of one, never the cursor that skips a gap, and past the run's anchor.
Feed == INSTANCE ImportFeed WITH
  Importers <- Processes,
  Records <- Channels \X Times,
  NoTime <- None,
  served <- {r \in Channels \X Times : r[2] \in published[r[1]]},
  table <- saved,
  watermark <- imported_until,
  running <- {p \in Processes : pc[p] # "idle"},
  anchors <- [p \in Processes |-> IF pc[p] = "idle" THEN None ELSE from[p]]

FeedProtocol == Feed!Spec

\* What provider_port.rs says of the watermark of a page: "no remaining channel
\* can miss measurements at or before this timestamp".  Failed saves aside.
SafeWatermark ==
  \A p \in Processes :
    pc[p] = "checkpoint" =>
      \A r \in seen[p] : r[2] <= batch[p].next_from => r \in saved \cup lost[p]

\* What data_source.rs says of imported_until: "everything on/before this
\* timestamp has been imported".
EverythingImported ==
  \A c \in Channels : \A t \in published[c] : t <= imported_until => <<c, t>> \in saved

-----------------------------------------------------------------------------
(* Fairness: a due run starts, and every call returns.                      *)

Fairness ==
  \A p \in Processes :
    /\ WF_vars(Start(p)) /\ WF_vars(Request(p))
    /\ WF_vars((\E c \in Channels : Fetch(p, c)) \/ FetchNothing(p))
    /\ WF_vars(Save(p))
    /\ WF_vars(Checkpoint(p))

FairSpec == Spec /\ Fairness

\* A run ends, also over gaps wider than a page's window.
RunEnds == \A p \in Processes : pc[p] # "idle" ~> pc[p] = "idle"

\* What the provider publishes is imported by some later run, unless the process
\* dies or the watermark is reset again and again.
SourceFollowed ==
  <>[][~Reset /\ \A p \in Processes : ~Crash(p)]_vars =>
    \A c \in Channels, t \in Times : t \in published[c] ~> <<c, t>> \in saved
=============================================================================
