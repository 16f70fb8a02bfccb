------------------------ MODULE SourceImportProofs ------------------------
(***************************************************************************)
(* Theorems about SourceImport, for every set of channels and processes,   *)
(* every bound on time, window, page size.                                 *)
(***************************************************************************)
EXTENDS SourceImport, FiniteSetTheorems, TLAPS

-----------------------------------------------------------------------------
(* Least and greatest elements.  Least numbers come from the well-founded  *)
(* order of finite sets by inclusion.                                      *)

\* Sets of timestamps are finite.
LEMMA TimesFinite == \A S \in SUBSET Times : IsFiniteSet(S)
  <1>1. IsFiniteSet(1 .. MaxTime)
    BY FS_Interval, MaxTimeAssumption
  <1> QED
    BY <1>1, FS_Subset DEF Times

\* A nonempty family of subsets of a finite set has a member that none other is
\* strictly inside of.
LEMMA SmallestOf ==
  ASSUME NEW F, NEW S, IsFiniteSet(S), F \subseteq SUBSET S, F # {}
  PROVE  \E A \in F : \A B \in F : B \subseteq A => B = A
  <1>1. IsWellFoundedOn(StrictSubsetOrdering(S), FiniteSubsetsOf(S))
    BY FS_StrictSubsetOrderingWellFounded
  <1>2. F \subseteq FiniteSubsetsOf(S)
    BY FS_Subset DEF FiniteSubsetsOf
  <1>3. PICK A \in F : \A B \in F : ~ (<<B, A>> \in StrictSubsetOrdering(S))
    BY <1>1, <1>2, WFMin
  <1> QED
    BY <1>3, Zenon DEF StrictSubsetOrdering

\* What Least returns: the least timestamp of a nonempty set.
LEMMA LeastOf ==
  ASSUME NEW S \in SUBSET Times, S # {}
  PROVE  Least(S) \in S /\ \A u \in S : Least(S) <= u
  <1> DEFINE Below(t) == {u \in S : u <= t}
  <1>1. \E t \in S : \A u \in S : Below(u) \subseteq Below(t) => Below(u) = Below(t)
    <2> DEFINE F == {Below(t) : t \in S}
    <2>1. F \subseteq SUBSET S /\ F # {}
      OBVIOUS
    <2>2. IsFiniteSet(S)
      BY TimesFinite
    <2>3. \E A \in F : \A C \in F : C \subseteq A => C = A
      <3> HIDE DEF F
      <3> QED BY <2>1, <2>2, SmallestOf
    <2>4. PICK t \in S : \A C \in F : C \subseteq Below(t) => C = Below(t)
      BY <2>3
    <2>5. \A u \in S : Below(u) \in F
      OBVIOUS
    <2> HIDE DEF F, Below
    <2> QED
      BY <2>4, <2>5
  <1>2. PICK t \in S : \A u \in S : Below(u) \subseteq Below(t) => Below(u) = Below(t)
    BY <1>1
  <1>3. \A u \in S : u \in Nat
    BY DEF Times
  <1>4. ASSUME NEW u \in S, u < t PROVE FALSE
    <2>1. Below(u) \subseteq Below(t)
      BY <1>3, <1>4
    <2>2. t \in Below(t) /\ t \notin Below(u)
      BY <1>3, <1>4
    <2> QED
      BY <1>2, <2>1, <2>2
  <1>5. t \in S /\ \A u \in S : t <= u
    BY <1>3, <1>4
  <1>6. Least(S) \in S /\ \A u \in S : Least(S) <= u
    BY <1>5 DEF Least
  <1> QED
    BY <1>3, <1>6

\* What Greatest returns: the last timestamp of a nonempty set.
LEMMA GreatestOf ==
  ASSUME NEW S \in SUBSET Times, S # {}
  PROVE  Greatest(S) \in S /\ \A u \in S : u <= Greatest(S)
  <1> DEFINE Above(t) == {u \in S : u >= t}
  <1>1. \E t \in S : \A u \in S : Above(u) \subseteq Above(t) => Above(u) = Above(t)
    <2> DEFINE F == {Above(t) : t \in S}
    <2>1. F \subseteq SUBSET S /\ F # {}
      OBVIOUS
    <2>2. IsFiniteSet(S)
      BY TimesFinite
    <2>3. \E A \in F : \A C \in F : C \subseteq A => C = A
      <3> HIDE DEF F
      <3> QED BY <2>1, <2>2, SmallestOf
    <2>4. PICK t \in S : \A C \in F : C \subseteq Above(t) => C = Above(t)
      BY <2>3
    <2>5. \A u \in S : Above(u) \in F
      OBVIOUS
    <2> HIDE DEF F, Above
    <2> QED
      BY <2>4, <2>5
  <1>2. PICK t \in S : \A u \in S : Above(u) \subseteq Above(t) => Above(u) = Above(t)
    BY <1>1
  <1>3. \A u \in S : u \in Nat
    BY DEF Times
  <1>4. ASSUME NEW u \in S, u > t PROVE FALSE
    <2>1. Above(u) \subseteq Above(t)
      BY <1>3, <1>4
    <2>2. t \in Above(t) /\ t \notin Above(u)
      BY <1>3, <1>4
    <2> QED
      BY <1>2, <2>1, <2>2
  <1>5. t \in S /\ \A u \in S : t >= u
    BY <1>3, <1>4
  <1>6. Greatest(S) \in S /\ \A u \in S : Greatest(S) >= u
    BY <1>5 DEF Greatest
  <1> QED
    BY <1>3, <1>6

\* What First returns is one of the channels it is given.
LEMMA FirstOf ==
  ASSUME NEW S \in SUBSET Channels, S # {}, NEW o \in Orders
  PROVE  First(S, o) \in S
  <1> DEFINE Upto(c) == {d \in S : o[d] <= o[c]}
  <1>1. \E c \in S : \A d \in S : Upto(d) \subseteq Upto(c) => Upto(d) = Upto(c)
    <2> DEFINE F == {Upto(c) : c \in S}
    <2>1. F \subseteq SUBSET S /\ F # {}
      OBVIOUS
    <2>2. IsFiniteSet(S)
      BY ChannelsAssumption, FS_Subset
    <2>3. \E A \in F : \A C \in F : C \subseteq A => C = A
      <3> HIDE DEF F
      <3> QED BY <2>1, <2>2, SmallestOf
    <2>4. PICK c \in S : \A C \in F : C \subseteq Upto(c) => C = Upto(c)
      BY <2>3
    <2>5. \A d \in S : Upto(d) \in F
      OBVIOUS
    <2> HIDE DEF F, Upto
    <2> QED
      BY <2>4, <2>5
  <1>2. PICK c \in S : \A d \in S : Upto(d) \subseteq Upto(c) => Upto(d) = Upto(c)
    BY <1>1
  <1>3. \A d \in S : o[d] \in Nat
    BY ChannelsAssumption, FS_CardinalityType DEF Orders
  <1>4. ASSUME NEW d \in S, o[d] < o[c] PROVE FALSE
    <2>1. Upto(d) \subseteq Upto(c)
      BY <1>3, <1>4
    <2>2. c \in Upto(c) /\ c \notin Upto(d)
      BY <1>3, <1>4
    <2> QED
      BY <1>2, <2>1, <2>2
  <1>5. \A d \in S : o[c] <= o[d]
    BY <1>3, <1>4
  <1> QED
    BY <1>5 DEF First

-----------------------------------------------------------------------------
(* What a page returns.                                                    *)

\* A page is an initial part of its window, and empty only when the window is.
LEMMA PageFacts ==
  ASSUME TypeOK, NEW c \in Channels, NEW cur \in Timestamp
  PROVE  /\ Page(c, cur) \subseteq InWindow(c, cur)
         /\ InWindow(c, cur) \subseteq After(c, cur)
         /\ After(c, cur) \subseteq published[c]
         /\ published[c] \subseteq Times
         /\ Page(c, cur) = {} => InWindow(c, cur) = {}
         /\ Page(c, cur) # {} =>
              \A t \in InWindow(c, cur) : t <= Greatest(Page(c, cur)) => t \in Page(c, cur)
  <1>1. /\ Page(c, cur) \subseteq InWindow(c, cur)
        /\ InWindow(c, cur) \subseteq After(c, cur)
        /\ After(c, cur) \subseteq published[c]
        /\ published[c] \subseteq Times
    BY DEF Page, InWindow, After, TypeOK
  <1> DEFINE W == InWindow(c, cur)
             Before(t) == {u \in W : u < t}
  <1>2. W \in SUBSET Times /\ Page(c, cur) \in SUBSET Times
    BY <1>1
  <1>3. ASSUME W # {} PROVE Page(c, cur) # {}
    <2>1. Least(W) \in W /\ \A u \in W : Least(W) <= u
      BY <1>2, <1>3, LeastOf
    <2>2. \A u \in W : u \in Nat
      BY <1>2 DEF Times
    <2>3. Before(Least(W)) = {}
      BY <2>1, <2>2
    <2>4. Cardinality(Before(Least(W))) < PageSize
      BY <2>3, FS_EmptySet, PageSizeAssumption
    <2> QED
      BY <2>1, <2>4 DEF Page
  <1>4. ASSUME Page(c, cur) # {}, NEW t \in W, t <= Greatest(Page(c, cur))
        PROVE  t \in Page(c, cur)
    <2> DEFINE g == Greatest(Page(c, cur))
    <2>1. g \in Page(c, cur)
      BY <1>2, <1>4, GreatestOf
    <2>2. t \in Nat /\ g \in Nat /\ \A u \in W : u \in Nat
      BY <1>1, <1>2, <2>1 DEF Times
    <2>3. Before(t) \in SUBSET Before(g)
      <3>1. t <= g
        BY <1>4
      <3> HIDE DEF g
      <3>2. \A u \in W : u < t => u < g
        BY <2>2, <3>1
      <3> QED
        BY <3>2
    <2>4. IsFiniteSet(Before(g)) /\ IsFiniteSet(Before(t))
      BY <1>2, TimesFinite
    <2>5. Cardinality(Before(t)) <= Cardinality(Before(g))
      BY <2>3, <2>4, FS_Subset
    <2>6. Cardinality(Before(g)) < PageSize
      BY <2>1 DEF Page
    <2>7. Cardinality(Before(t)) \in Nat /\ Cardinality(Before(g)) \in Nat
      BY <2>4, FS_CardinalityType
    <2>8. Cardinality(Before(t)) < PageSize
      BY <2>5, <2>6, <2>7, PageSizeAssumption
    <2> QED
      BY <2>8 DEF Page
  <1> QED
    BY <1>1, <1>3, <1>4

\* The last record of a page: nothing in reach up to it is left out.
LEMMA LastRealFacts ==
  ASSUME TypeOK, NEW c \in Channels, NEW cur \in Timestamp
  PROVE  /\ LastReal(c, cur) \in Timestamp
         /\ LastReal(c, cur) # None =>
              /\ LastReal(c, cur) \in published[c]
              /\ LastReal(c, cur) > cur
         /\ \A t \in After(c, cur) : t <= LastReal(c, cur) => t \in Page(c, cur)
  <1>1. CASE Page(c, cur) = {}
    <2>1. LastReal(c, cur) = None
      BY <1>1 DEF LastReal
    <2>2. \A t \in After(c, cur) : t \in Times
      BY PageFacts
    <2> QED
      BY <2>1, <2>2 DEF None, Timestamp, Times
  <1>2. CASE Page(c, cur) # {}
    <2> DEFINE g == Greatest(Page(c, cur))
    <2>1. LastReal(c, cur) = g
      BY <1>2 DEF LastReal
    <2>2. g \in Page(c, cur)
      BY <1>2, PageFacts, GreatestOf
    <2>3. g \in Times /\ g \in published[c] /\ g \in InWindow(c, cur) /\ g > cur
      BY <2>2, PageFacts DEF After
    <2>4. ASSUME NEW t \in After(c, cur), t <= g PROVE t \in InWindow(c, cur)
      <3>1. g <= WindowEnd(c, cur)
        BY <2>3 DEF InWindow
      <3>2. t \in Times /\ published[c] \in SUBSET Times
        BY PageFacts
      <3>3. WindowEnd(c, cur) \in Nat
        <4>1. Least(published[c]) \in Nat
          BY <2>3, <3>2, LeastOf DEF Times
        <4> QED
          BY <4>1, TimeframeAssumption DEF WindowEnd, Timestamp, Times, None
      <3> QED
        BY <2>3, <2>4, <3>1, <3>2, <3>3 DEF InWindow, Times
    <2>5. \A t \in After(c, cur) : t <= g => t \in Page(c, cur)
      BY <1>2, <2>4, PageFacts
    <2> QED
      BY <2>1, <2>3, <2>5 DEF Timestamp
  <1> QED
    BY <1>1, <1>2

\* The cursor of the next page: it too leaves nothing out, is never past the
\* channel's last record, and advances unless the channel is exhausted.
LEMMA NextFromFacts ==
  ASSUME TypeOK, NEW c \in Channels, NEW cur \in Timestamp
  PROVE  /\ NextFrom(c, cur) \in Timestamp
         /\ \A t \in After(c, cur) : t <= NextFrom(c, cur) => t \in Page(c, cur)
         /\ NextFrom(c, cur) # None => \E u \in published[c] : NextFrom(c, cur) <= u
         /\ ~Done(c, cur) => /\ NextFrom(c, cur) > cur
                             /\ LastReal(c, cur) # None => NextFrom(c, cur) = LastReal(c, cur)
  <1>1. published[c] \in SUBSET Times
    BY PageFacts
  <1>2. CASE Page(c, cur) # {}
    <2>1. NextFrom(c, cur) = LastReal(c, cur)
      BY <1>2 DEF NextFrom
    <2>2. LastReal(c, cur) # None
      <3>1. LastReal(c, cur) = Greatest(Page(c, cur))
        BY <1>2 DEF LastReal
      <3>2. Greatest(Page(c, cur)) \in Times
        BY <1>2, PageFacts, GreatestOf
      <3> QED
        BY <3>1, <3>2 DEF None, Times
    <2>3. LastReal(c, cur) \in Times
      BY <1>1, <2>2, LastRealFacts
    <2> QED
      BY <2>1, <2>2, <2>3, LastRealFacts DEF Times
  <1>3. CASE Page(c, cur) = {} /\ DataBeyond(c, cur)
    <2> DEFINE w == WindowEnd(c, cur)
    <2>1. NextFrom(c, cur) = w /\ LastReal(c, cur) = None
      BY <1>3 DEF NextFrom, LastReal
    <2>2. PICK u \in published[c] : u > w
      BY <1>3 DEF DataBeyond, After
    <2>3. Least(published[c]) \in Times
      BY <1>1, <2>2, LeastOf
    <2>4. u \in Times
      BY <1>1, <2>2
    <2>5. w \in Nat /\ w > cur
      BY <2>3, TimeframeAssumption DEF WindowEnd, Timestamp, Times, None
    <2>6. w \in Timestamp /\ w <= u
      BY <2>2, <2>4, <2>5, MaxTimeAssumption DEF Timestamp, Times, None
    <2>7. InWindow(c, cur) = {}
      BY <1>3, PageFacts
    <2>8. \A t \in After(c, cur) : ~ (t <= w)
      BY <2>7 DEF InWindow
    <2> QED
      BY <2>1, <2>5, <2>6, <2>8
  <1>4. CASE Page(c, cur) = {} /\ ~DataBeyond(c, cur)
    <2>1. NextFrom(c, cur) = None
      BY <1>4 DEF NextFrom
    <2>2. Done(c, cur)
      BY <1>4, PageFacts DEF Done, PageFull
    <2>3. \A t \in After(c, cur) : t \in Times
      BY PageFacts
    <2> QED
      BY <2>1, <2>2, <2>3 DEF None, Timestamp, Times
  <1> QED
    BY <1>2, <1>3, <1>4

\* A watermark is the last record of some channel.
LEMMA WatermarkFacts ==
  ASSUME NEW real \in [Channels -> Timestamp], NEW exhausted, NEW o \in Orders
  PROVE  \/ Watermark(real, exhausted, o) = None
         \/ \E c \in Channels : /\ real[c] # None
                                /\ Watermark(real, exhausted, o) = real[c]
  <1> DEFINE R == {c \in Channels : real[c] # None}
  <1>1. CASE R = {}
    BY <1>1 DEF Watermark
  <1>2. CASE R # {}
    <2>1. First(R, o) \in R
      BY <1>2, FirstOf
    <2> QED
      BY <2>1 DEF Watermark
  <1> QED
    BY <1>1, <1>2

-----------------------------------------------------------------------------
(* The type invariant.                                                     *)

\* Init satisfies the type invariant.
LEMMA InitType == Init => TypeOK
  <1> SUFFICES ASSUME Init PROVE TypeOK
    OBVIOUS
  <1>1. None \in Timestamp /\ Unseeded \in Timestamp \cup {Unseeded}
    BY DEF Timestamp
  <1>2. NoBatch \in [records : SUBSET Records, next_from : Timestamp, more : BOOLEAN]
    BY <1>1 DEF NoBatch
  <1> QED
    BY <1>1, <1>2 DEF Init, TypeOK

\* A scanner that is seeded or emptied is well typed.
LEMMA RewindType ==
  ASSUME TypeOK, NEW p \in Processes, NEW a \in Timestamp, Rewind(p, a)
  PROVE  /\ next' \in [Processes -> [Channels -> Timestamp]]
         /\ last_real' \in [Processes -> [Channels -> Timestamp]]
         /\ done' \in [Processes -> SUBSET Channels]
         /\ seen' \in [Processes -> SUBSET Records]
         /\ lost' \in [Processes -> SUBSET Records]
  <1>1. None \in Timestamp
    BY DEF Timestamp
  <1> QED
    BY <1>1 DEF TypeOK, Rewind

\* A page is recorded in the scanner, and what the caller gets is a batch.
LEMMA FetchType ==
  ASSUME TypeOK, NEW p \in Processes, NEW c \in Channels, Fetch(p, c)
  PROVE  TypeOK'
  <1> DEFINE cur == next[p][c]
             real == [last_real[p] EXCEPT ![c] =
                        IF LastReal(c, cur) # None THEN LastReal(c, cur) ELSE @]
             exhausted == IF Done(c, cur) THEN done[p] \cup {c} ELSE done[p]
             page == [records |-> {c} \X Page(c, cur),
                      next_from |-> Watermark(real, exhausted, order[p]),
                      more |-> exhausted # Channels]
  <1>1. cur \in Timestamp
    BY DEF TypeOK
  <1>2. LastReal(c, cur) \in Timestamp /\ NextFrom(c, cur) \in Timestamp
    BY <1>1, LastRealFacts, NextFromFacts
  <1>3. Page(c, cur) \in SUBSET Times /\ After(c, cur) \in SUBSET Times
    BY <1>1, PageFacts
  <1>4. real \in [Channels -> Timestamp]
    BY <1>2 DEF TypeOK
  <1>5. exhausted \in SUBSET Channels
    BY DEF TypeOK
  <1>6. Watermark(real, exhausted, order[p]) \in Timestamp
    <2>1. order[p] \in Orders
      BY DEF TypeOK
    <2> HIDE DEF real, exhausted
    <2> QED
      BY <1>4, <2>1, WatermarkFacts DEF Timestamp
  <1>7. page \in [records : SUBSET Records, next_from : Timestamp, more : BOOLEAN]
    <2> HIDE DEF real, exhausted
    <2> QED
      BY <1>3, <1>6 DEF Records
  <1>8. /\ next' = [next EXCEPT ![p][c] = NextFrom(c, cur)]
        /\ last_real' = [last_real EXCEPT ![p] = real]
        /\ done' = [done EXCEPT ![p] = exhausted]
        /\ seen' = [seen EXCEPT ![p] = @ \cup {c} \X After(c, cur)]
        /\ batch' = [batch EXCEPT ![p] = page]
    BY DEF Fetch
  <1> HIDE DEF real, exhausted, page, cur
  <1>9. /\ next' \in [Processes -> [Channels -> Timestamp]]
        /\ last_real' \in [Processes -> [Channels -> Timestamp]]
        /\ done' \in [Processes -> SUBSET Channels]
        /\ batch' \in [Processes -> [records : SUBSET Records, next_from : Timestamp,
                                     more : BOOLEAN]]
    BY <1>2, <1>4, <1>5, <1>7, <1>8 DEF TypeOK
  <1>10. seen' \in [Processes -> SUBSET Records]
    BY <1>3, <1>8 DEF TypeOK, Records
  <1>11. pc' \in [Processes -> {"idle", "syncing", "reading", "saving", "checkpoint"}]
    BY DEF Fetch, Goto, TypeOK
  <1> QED
    BY <1>9, <1>10, <1>11 DEF Fetch, TypeOK

\* Every step keeps the type invariant.
LEMMA TypeStep == TypeOK /\ [Next]_vars => TypeOK'
  <1> SUFFICES ASSUME TypeOK, [Next]_vars PROVE TypeOK'
    OBVIOUS
  <1>0. None \in Timestamp
    BY DEF Timestamp
  <1>1. ASSUME NEW p \in Processes, Start(p) PROVE TypeOK'
    <2>1. imported_until \in Timestamp
      BY DEF TypeOK
    <2> QED
      BY <1>1, <2>1 DEF Start, Goto, scanner, TypeOK
  <1>13. ASSUME NEW p \in Processes, Request(p) PROVE TypeOK'
    <2>1. from[p] \in Timestamp
      BY DEF TypeOK
    <2>2. pc' \in [Processes -> {"idle", "syncing", "reading", "saving", "checkpoint"}]
      BY <1>13 DEF Request, Goto, TypeOK
    <2>3. CASE UNCHANGED scanner
      BY <1>13, <2>2, <2>3 DEF Request, scanner, TypeOK
    <2>4. CASE Seed(p, from[p])
      <3>1. Rewind(p, from[p])
        BY <2>4 DEF Seed
      <3>2. /\ anchor' \in [Processes -> Timestamp \cup {Unseeded}]
            /\ order' \in [Processes -> Orders]
        BY <2>1, <2>4 DEF Seed, TypeOK
      <3>3. /\ next' \in [Processes -> [Channels -> Timestamp]]
            /\ last_real' \in [Processes -> [Channels -> Timestamp]]
            /\ done' \in [Processes -> SUBSET Channels]
            /\ seen' \in [Processes -> SUBSET Records]
            /\ lost' \in [Processes -> SUBSET Records]
        BY <2>1, <3>1, RewindType
      <3> QED
        BY <1>13, <2>2, <3>2, <3>3 DEF Request, TypeOK
    <2> QED
      BY <1>13, <2>3, <2>4 DEF Request
  <1>14. ASSUME NEW p \in Processes, SyncFails(p) PROVE TypeOK'
    BY <1>14 DEF SyncFails, Goto, scanner, TypeOK
  <1>2. ASSUME NEW p \in Processes, NEW c \in Channels, Fetch(p, c) PROVE TypeOK'
    BY <1>2, FetchType
  <1>3. ASSUME NEW p \in Processes, FetchNothing(p) PROVE TypeOK'
    <2>1. NoBatch \in [records : SUBSET Records, next_from : Timestamp, more : BOOLEAN]
      BY <1>0 DEF NoBatch
    <2> QED
      BY <1>3, <2>1 DEF FetchNothing, Goto, scanner, TypeOK
  <1>4. ASSUME NEW p \in Processes, FetchFails(p) PROVE TypeOK'
    BY <1>4 DEF FetchFails, Goto, scanner, TypeOK
  <1>5. ASSUME NEW p \in Processes, Save(p) PROVE TypeOK'
    BY <1>5 DEF Save, Goto, scanner, TypeOK
  <1>6. ASSUME NEW p \in Processes, SaveFails(p) PROVE TypeOK'
    BY <1>6 DEF SaveFails, Goto, TypeOK
  <1>7. ASSUME NEW p \in Processes, Checkpoint(p) PROVE TypeOK'
    <2>1. imported_until' \in Timestamp
      BY <1>7 DEF Checkpoint, TypeOK
    <2> QED
      BY <1>7, <2>1 DEF Checkpoint, Goto, scanner, TypeOK
  <1>8. ASSUME NEW p \in Processes, CheckpointFails(p) PROVE TypeOK'
    BY <1>8 DEF CheckpointFails, Goto, scanner, TypeOK
  <1>9. ASSUME NEW p \in Processes, Crash(p) PROVE TypeOK'
    <2>1. NoBatch \in [records : SUBSET Records, next_from : Timestamp, more : BOOLEAN]
      BY <1>0 DEF NoBatch
    <2>2. /\ next' \in [Processes -> [Channels -> Timestamp]]
          /\ last_real' \in [Processes -> [Channels -> Timestamp]]
          /\ done' \in [Processes -> SUBSET Channels]
          /\ seen' \in [Processes -> SUBSET Records]
          /\ lost' \in [Processes -> SUBSET Records]
      BY <1>0, <1>9, RewindType DEF Crash
    <2> QED
      BY <1>9, <2>1, <2>2 DEF Crash, Goto, TypeOK
  <1>10. ASSUME NEW c \in Channels, NEW t \in Times, Publish(c, t) PROVE TypeOK'
    BY <1>10 DEF Publish, scanner, TypeOK
  <1>11. CASE Reset
    BY <1>0, <1>11 DEF Reset, scanner, TypeOK
  <1>12. CASE UNCHANGED vars
    BY <1>12 DEF vars, scanner, TypeOK
  <1> QED
    BY <1>1, <1>2, <1>3, <1>4, <1>5, <1>6, <1>7, <1>8, <1>9, <1>10, <1>11, <1>12,
       <1>13, <1>14
    DEF Next, Worker


-----------------------------------------------------------------------------
(* What the steps do to a scanner.                                         *)

\* A page moves the cursor and the last record of its channel only.
LEMMA FetchEffect ==
  ASSUME TypeOK, NEW p \in Processes, NEW c \in Channels, Fetch(p, c)
  PROVE  /\ pc[p] = "reading" /\ c \notin done[p]
         /\ pc' = [pc EXCEPT ![p] = "saving"]
         /\ UNCHANGED <<published, saved, imported_until, from, anchor, lost>>
         /\ \A q \in Processes \ {p} :
              /\ next'[q] = next[q] /\ last_real'[q] = last_real[q]
              /\ done'[q] = done[q] /\ seen'[q] = seen[q] /\ batch'[q] = batch[q]
         /\ \A d \in Channels \ {c} :
              next'[p][d] = next[p][d] /\ last_real'[p][d] = last_real[p][d]
         /\ next'[p][c] = NextFrom(c, next[p][c])
         /\ last_real'[p][c] = IF LastReal(c, next[p][c]) # None
                               THEN LastReal(c, next[p][c]) ELSE last_real[p][c]
         /\ done'[p] = IF Done(c, next[p][c]) THEN done[p] \cup {c} ELSE done[p]
         /\ seen'[p] = seen[p] \cup {c} \X After(c, next[p][c])
         /\ batch'[p].records = {c} \X Page(c, next[p][c])
         /\ \/ batch'[p].next_from = None
            \/ \E d \in Channels : /\ last_real'[p][d] # None
                                   /\ batch'[p].next_from = last_real'[p][d]
  <1> DEFINE cur == next[p][c]
             real == [last_real[p] EXCEPT ![c] =
                        IF LastReal(c, cur) # None THEN LastReal(c, cur) ELSE @]
             exhausted == IF Done(c, cur) THEN done[p] \cup {c} ELSE done[p]
  <1>1. real \in [Channels -> Timestamp]
    <2>1. LastReal(c, cur) \in Timestamp
      BY LastRealFacts DEF TypeOK
    <2> QED
      BY <2>1 DEF TypeOK
  <1>2. last_real'[p] = real
    BY DEF Fetch, TypeOK
  <1>3. batch'[p].next_from = Watermark(real, exhausted, order[p])
    BY DEF Fetch, TypeOK
  <1>4. \/ batch'[p].next_from = None
        \/ \E d \in Channels : real[d] # None /\ batch'[p].next_from = real[d]
    <2>1. order[p] \in Orders
      BY DEF TypeOK
    <2> HIDE DEF real, exhausted
    <2> QED
      BY <1>1, <1>3, <2>1, WatermarkFacts
  <1>5. /\ pc[p] = "reading" /\ c \notin done[p]
        /\ pc' = [pc EXCEPT ![p] = "saving"]
        /\ UNCHANGED <<published, saved, imported_until, from, anchor, lost>>
    BY DEF Fetch, Goto
  <1>6. \A q \in Processes \ {p} :
          /\ next'[q] = next[q] /\ last_real'[q] = last_real[q]
          /\ done'[q] = done[q] /\ seen'[q] = seen[q] /\ batch'[q] = batch[q]
    BY DEF Fetch, TypeOK
  <1>7. /\ \A d \in Channels \ {c} : next'[p][d] = next[p][d]
        /\ next'[p][c] = NextFrom(c, cur)
    BY DEF Fetch, TypeOK
  <1>8. /\ \A d \in Channels \ {c} : last_real'[p][d] = last_real[p][d]
        /\ last_real'[p][c] = IF LastReal(c, cur) # None
                              THEN LastReal(c, cur) ELSE last_real[p][c]
    BY <1>2 DEF TypeOK
  <1>9. /\ done'[p] = exhausted
        /\ seen'[p] = seen[p] \cup {c} \X After(c, cur)
        /\ batch'[p].records = {c} \X Page(c, cur)
    BY DEF Fetch, TypeOK
  <1> QED
    BY <1>2, <1>4, <1>5, <1>6, <1>7, <1>8, <1>9

\* A scanner that is seeded or emptied starts over from the anchor.
LEMMA RewindEffect ==
  ASSUME TypeOK, NEW p \in Processes, NEW a \in Timestamp, Rewind(p, a)
  PROVE  /\ \A q \in Processes \ {p} :
              /\ next'[q] = next[q] /\ last_real'[q] = last_real[q]
              /\ done'[q] = done[q] /\ seen'[q] = seen[q] /\ lost'[q] = lost[q]
         /\ \A d \in Channels : next'[p][d] = a /\ last_real'[p][d] = None
         /\ done'[p] = {} /\ seen'[p] = {} /\ lost'[p] = {}
  BY DEF Rewind, TypeOK

-----------------------------------------------------------------------------
(* Pages leave nothing out.                                                *)

\* The last record of a channel is one of its records, and the cursor of a
\* channel that is not exhausted is never behind it.
Cursors ==
  \A p \in Processes, c \in Channels :
    /\ last_real[p][c] # None => last_real[p][c] \in published[c]
    /\ c \notin done[p] => last_real[p][c] <= next[p][c]

\* What was in reach of a page was published.
InReach == \A p \in Processes : \A r \in seen[p] : r[2] \in published[r[1]]

Scanned == Cursors /\ InReach /\ NothingSkipped

\* A step that leaves cursors and history alone and drops no batch.
LEMMA ScannedFrame ==
  ASSUME TypeOK, Scanned, UNCHANGED <<next, last_real, done, seen>>,
         saved \subseteq saved',
         \A c \in Channels : published[c] \subseteq published'[c],
         \A p \in Processes :
           /\ lost[p] \subseteq lost'[p]
           /\ \/ pc[p] # "saving"
              \/ pc'[p] = "saving" /\ batch'[p] = batch[p]
              \/ batch[p].records \subseteq saved' \cup lost'[p]
  PROVE  Scanned'
  <1>1. Cursors'
    BY DEF Scanned, Cursors
  <1>2. \A p \in Processes : \A r \in seen[p] : r[1] \in Channels
    BY DEF TypeOK, Records
  <1>3. InReach'
    BY <1>2 DEF Scanned, InReach
  <1>4. NothingSkipped'
    BY DEF Scanned, NothingSkipped
  <1> QED
    BY <1>1, <1>3, <1>4 DEF Scanned

\* A step that starts a scanner over while its process has no page at hand.
LEMMA ScannedRewind ==
  ASSUME TypeOK, Scanned, NEW p \in Processes, NEW a \in Timestamp, Rewind(p, a),
         UNCHANGED <<published, saved>>,
         \A q \in Processes \ {p} : pc'[q] = pc[q] /\ batch'[q] = batch[q]
  PROVE  Scanned'
  <1>1. Cursors'
    BY RewindEffect DEF Scanned, Cursors, Timestamp, Times, None
  <1>2. InReach'
    BY RewindEffect DEF Scanned, InReach
  <1>3. NothingSkipped'
    <2>1. ASSUME NEW q \in Processes \ {p}, NEW r \in seen'[q],
                 r[2] <= last_real'[q][r[1]] \/ r[2] <= next'[q][r[1]]
          PROVE  \/ r \in saved' \cup lost'[q]
                 \/ pc'[q] = "saving" /\ r \in batch'[q].records
      BY <2>1, RewindEffect DEF Scanned, NothingSkipped
    <2> QED
      BY <2>1, RewindEffect DEF NothingSkipped
  <1> QED
    BY <1>1, <1>2, <1>3 DEF Scanned

\* A page: the records up to the new cursor are in the batch, those up to the
\* old one were taken care of before.
LEMMA ScannedFetch ==
  ASSUME TypeOK, Scanned, NEW p \in Processes, NEW c \in Channels, Fetch(p, c)
  PROVE  Scanned'
  <1> DEFINE cur == next[p][c]
  <1>a. /\ published' = published /\ saved' = saved /\ lost' = lost
        /\ pc[p] = "reading" /\ c \notin done[p]
        /\ pc'[p] = "saving" /\ \A q \in Processes \ {p} : pc'[q] = pc[q]
    <2>1. /\ published' = published /\ saved' = saved /\ lost' = lost
          /\ pc[p] = "reading" /\ c \notin done[p]
          /\ pc' = [pc EXCEPT ![p] = "saving"]
      BY FetchEffect
    <2> QED
      BY <2>1 DEF TypeOK
  <1>b. \A q \in Processes \ {p} :
          /\ next'[q] = next[q] /\ last_real'[q] = last_real[q]
          /\ done'[q] = done[q] /\ seen'[q] = seen[q] /\ batch'[q] = batch[q]
    BY FetchEffect
  <1>c. \A d \in Channels \ {c} :
          next'[p][d] = next[p][d] /\ last_real'[p][d] = last_real[p][d]
    BY FetchEffect
  <1>d. /\ next'[p][c] = NextFrom(c, cur)
        /\ last_real'[p][c] = IF LastReal(c, cur) # None THEN LastReal(c, cur)
                                                         ELSE last_real[p][c]
        /\ done'[p] = IF Done(c, cur) THEN done[p] \cup {c} ELSE done[p]
        /\ seen'[p] = seen[p] \cup {c} \X After(c, cur)
        /\ batch'[p].records = {c} \X Page(c, cur)
    BY FetchEffect
  <1>1. cur \in Timestamp /\ last_real[p][c] \in Timestamp /\ last_real[p][c] <= cur
    BY <1>a DEF TypeOK, Scanned, Cursors
  <1>2. /\ LastReal(c, cur) \in Timestamp /\ NextFrom(c, cur) \in Timestamp
        /\ LastReal(c, cur) # None =>
             LastReal(c, cur) \in published[c] /\ LastReal(c, cur) > cur
        /\ \A t \in After(c, cur) :
             t <= LastReal(c, cur) \/ t <= NextFrom(c, cur) => t \in Page(c, cur)
        /\ ~Done(c, cur) => /\ NextFrom(c, cur) > cur
                            /\ LastReal(c, cur) # None => NextFrom(c, cur) = LastReal(c, cur)
    BY <1>1, LastRealFacts, NextFromFacts
  <1> HIDE DEF cur
  <1>3. Cursors'
    <2> SUFFICES ASSUME NEW q \in Processes, NEW d \in Channels
                 PROVE  /\ last_real'[q][d] # None => last_real'[q][d] \in published'[d]
                        /\ d \notin done'[q] => last_real'[q][d] <= next'[q][d]
      BY DEF Cursors
    <2>1. CASE q # p
      BY <1>a, <1>b, <2>1 DEF Scanned, Cursors
    <2>2. CASE q = p /\ d # c
      BY <1>a, <1>c, <1>d, <2>2 DEF Scanned, Cursors
    <2>3. CASE q = p /\ d = c
      <3>1. published' = published
        BY <1>a
      <3>2. last_real'[p][c] = IF LastReal(c, cur) # None THEN LastReal(c, cur)
                                                          ELSE last_real[p][c]
        BY <1>d
      <3>3. next'[p][c] = NextFrom(c, cur)
        BY <1>d
      <3>4. c \notin done'[p] => ~Done(c, cur)
        BY <1>d
      <3>5. last_real'[p][c] # None => last_real'[p][c] \in published[c]
        BY <1>2, <3>2 DEF Scanned, Cursors
      <3>6. ~Done(c, cur) => last_real'[p][c] <= next'[p][c]
        BY <1>1, <1>2, <3>2, <3>3 DEF Timestamp, Times, None
      <3> QED
        BY <2>3, <3>1, <3>4, <3>5, <3>6
    <2> QED
      BY <2>1, <2>2, <2>3
  <1>4. After(c, cur) \subseteq published[c] /\ published[c] \subseteq Times
    BY <1>1, PageFacts
  <1>5. InReach'
    <2> SUFFICES ASSUME NEW q \in Processes, NEW r \in seen'[q]
                 PROVE  r[2] \in published'[r[1]]
      BY DEF InReach
    <2>1. published' = published
      BY <1>a
    <2>2. CASE r \in seen[q]
      BY <2>1, <2>2 DEF Scanned, InReach
    <2>3. CASE r \notin seen[q]
      <3>1. r \in {c} \X After(c, cur)
        BY <1>b, <1>d, <2>3
      <3> QED
        BY <1>4, <2>1, <3>1
    <2> QED
      BY <2>2, <2>3
  <1>6. NothingSkipped'
    <2> SUFFICES ASSUME NEW q \in Processes, NEW r \in seen'[q],
                        r[2] <= last_real'[q][r[1]] \/ r[2] <= next'[q][r[1]]
                 PROVE  \/ r \in saved' \cup lost'[q]
                        \/ pc'[q] = "saving" /\ r \in batch'[q].records
      BY DEF NothingSkipped
    <2>2. CASE q # p
      BY <1>a, <1>b, <2>2 DEF Scanned, NothingSkipped
    <2>3. CASE q = p /\ r \in {c} \X After(c, cur)
      <3>1. PICK t \in After(c, cur) : r = <<c, t>>
        BY <2>3
      <3>2. t \in Times
        BY <1>4
      <3>3. last_real'[p][c] = IF LastReal(c, cur) # None THEN LastReal(c, cur)
                                                          ELSE last_real[p][c]
        BY <1>d
      <3>4. next'[p][c] = NextFrom(c, cur)
        BY <1>d
      <3>5. t > cur
        BY DEF After
      <3>6. t <= last_real'[p][c] \/ t <= next'[p][c]
        BY <2>3, <3>1
      <3>7. t \in Page(c, cur)
        BY <1>1, <1>2, <3>2, <3>3, <3>4, <3>5, <3>6 DEF Timestamp, Times, None
      <3>8. batch'[p].records = {c} \X Page(c, cur)
        BY <1>d
      <3> QED
        BY <1>a, <2>3, <3>1, <3>7, <3>8
    <2>4. CASE q = p /\ r \notin {c} \X After(c, cur)
      <3>1. r \in seen[p]
        BY <1>d, <2>4
      <3>2. r[1] \in Channels /\ r[2] \in published[r[1]] /\ r = <<r[1], r[2]>>
        BY <3>1 DEF TypeOK, Records, Scanned, InReach
      <3>3. r \in saved \cup lost[p]
        <4>1. CASE r[1] # c
          BY <1>a, <1>c, <2>4, <3>1, <3>2, <4>1 DEF Scanned, NothingSkipped
        <4>2. CASE r[1] = c
          <5>1. r[2] \notin After(c, cur)
            BY <2>4, <3>2, <4>2
          <5>2. r[2] <= cur
            BY <1>1, <1>4, <3>2, <4>2, <5>1 DEF After, Timestamp, Times, None
          <5> QED
            BY <1>a, <3>1, <4>2, <5>2 DEF cur, Scanned, NothingSkipped
        <4> QED
          BY <4>1, <4>2
      <3> QED
        BY <1>a, <2>4, <3>3
    <2> QED
      BY <2>2, <2>3, <2>4
  <1> QED
    BY <1>3, <1>5, <1>6 DEF Scanned

\* Every step keeps the invariant behind NothingSkipped.
LEMMA ScannedStep == TypeOK /\ Scanned /\ [Next]_vars => Scanned'
  <1> SUFFICES ASSUME TypeOK, Scanned, [Next]_vars PROVE Scanned'
    OBVIOUS
  <1>0. None \in Timestamp
    BY DEF Timestamp
  <1>1. ASSUME NEW p \in Processes, Start(p) PROVE Scanned'
    <2>1. \A q \in Processes : pc[q] = "saving" => pc'[q] = "saving"
      BY <1>1 DEF Start, Goto, TypeOK
    <2> QED
      BY <1>1, <2>1, ScannedFrame DEF Start, scanner
  <1>13. ASSUME NEW p \in Processes, Request(p) PROVE Scanned'
    <2>1. \A q \in Processes \ {p} : pc'[q] = pc[q]
      BY <1>13 DEF Request, Goto, TypeOK
    <2>2. CASE UNCHANGED scanner
      BY <1>13, <2>1, <2>2, ScannedFrame DEF Request, scanner
    <2>3. CASE Seed(p, from[p])
      <3>1. from[p] \in Timestamp
        BY DEF TypeOK
      <3>2. Rewind(p, from[p]) /\ UNCHANGED <<published, saved, batch>>
        BY <1>13, <2>3 DEF Request, Seed
      <3> QED
        BY <2>1, <3>1, <3>2, ScannedRewind
    <2> QED
      BY <1>13, <2>2, <2>3 DEF Request
  <1>14. ASSUME NEW p \in Processes, SyncFails(p) PROVE Scanned'
    <2>1. \A q \in Processes : pc[q] = "saving" => pc'[q] = "saving"
      BY <1>14 DEF SyncFails, Goto, TypeOK
    <2> QED
      BY <1>14, <2>1, ScannedFrame DEF SyncFails, scanner
  <1>2. ASSUME NEW p \in Processes, NEW c \in Channels, Fetch(p, c) PROVE Scanned'
    BY <1>2, ScannedFetch
  <1>3. ASSUME NEW p \in Processes, FetchNothing(p) PROVE Scanned'
    <2>1. \A q \in Processes : pc[q] = "saving" => pc'[q] = "saving" /\ batch'[q] = batch[q]
      BY <1>3 DEF FetchNothing, Goto, TypeOK
    <2> QED
      BY <1>3, <2>1, ScannedFrame DEF FetchNothing, scanner
  <1>4. ASSUME NEW p \in Processes, FetchFails(p) PROVE Scanned'
    <2>1. \A q \in Processes : pc[q] = "saving" => pc'[q] = "saving"
      BY <1>4 DEF FetchFails, Goto, TypeOK
    <2> QED
      BY <1>4, <2>1, ScannedFrame DEF FetchFails, scanner
  <1>5. ASSUME NEW p \in Processes, Save(p) PROVE Scanned'
    <2>1. \A q \in Processes \ {p} : pc'[q] = pc[q]
      BY <1>5 DEF Save, Goto, TypeOK
    <2> QED
      BY <1>5, <2>1, ScannedFrame DEF Save, scanner
  <1>6. ASSUME NEW p \in Processes, SaveFails(p) PROVE Scanned'
    <2>1. \A q \in Processes \ {p} : pc'[q] = pc[q] /\ lost'[q] = lost[q]
      BY <1>6 DEF SaveFails, Goto, TypeOK
    <2>2. lost'[p] = lost[p] \cup batch[p].records
      BY <1>6 DEF SaveFails, TypeOK
    <2> QED
      BY <1>6, <2>1, <2>2, ScannedFrame DEF SaveFails
  <1>7. ASSUME NEW p \in Processes, Checkpoint(p) PROVE Scanned'
    <2>1. \A q \in Processes : pc[q] = "saving" => pc'[q] = "saving"
      BY <1>7 DEF Checkpoint, Goto, TypeOK
    <2> QED
      BY <1>7, <2>1, ScannedFrame DEF Checkpoint, scanner
  <1>8. ASSUME NEW p \in Processes, CheckpointFails(p) PROVE Scanned'
    <2>1. \A q \in Processes : pc[q] = "saving" => pc'[q] = "saving"
      BY <1>8 DEF CheckpointFails, Goto, TypeOK
    <2> QED
      BY <1>8, <2>1, ScannedFrame DEF CheckpointFails, scanner
  <1>9. ASSUME NEW p \in Processes, Crash(p) PROVE Scanned'
    <2>1. \A q \in Processes \ {p} : pc'[q] = pc[q] /\ batch'[q] = batch[q]
      BY <1>9 DEF Crash, Goto, TypeOK
    <2>2. Rewind(p, None) /\ UNCHANGED <<published, saved>>
      BY <1>9 DEF Crash
    <2> QED
      BY <1>0, <2>1, <2>2, ScannedRewind
  <1>10. ASSUME NEW c \in Channels, NEW t \in Times, Publish(c, t) PROVE Scanned'
    <2>1. \A d \in Channels : published[d] \subseteq published'[d]
      BY <1>10 DEF Publish, TypeOK
    <2> QED
      BY <1>10, <2>1, ScannedFrame DEF Publish, scanner
  <1>11. CASE Reset
    BY <1>11, ScannedFrame DEF Reset, scanner
  <1>12. CASE UNCHANGED vars
    BY <1>12, ScannedFrame DEF vars, scanner
  <1> QED
    BY <1>1, <1>2, <1>3, <1>4, <1>5, <1>6, <1>7, <1>8, <1>9, <1>10, <1>11, <1>12,
       <1>13, <1>14
    DEF Next, Worker


-----------------------------------------------------------------------------
(* Watermarks are records.                                                 *)

\* The timestamp of a record some channel published.
IsReal(t) == \E c \in Channels : t \in published[c]

\* What a checkpoint may store is a record's timestamp.
RealBatches == \A p \in Processes : batch[p].next_from # None => IsReal(batch[p].next_from)

\* The watermark is a real record's timestamp, never the cursor that skips a gap.
RealWatermark ==
  imported_until # None => \E c \in Channels : imported_until \in published[c]

RealMarks == RealBatches /\ RealWatermark

\* Channels only gain records.
LEMMA PublishedGrows ==
  TypeOK /\ [Next]_vars => \A c \in Channels : published[c] \subseteq published'[c]
  <1> SUFFICES ASSUME TypeOK, [Next]_vars, published' # published
               PROVE  \A c \in Channels : published[c] \subseteq published'[c]
    OBVIOUS
  <1>1. PICK c \in Channels, t \in Times : Publish(c, t)
    BY DEF Next, Worker, Start, SyncFails, Request, Fetch, FetchNothing, FetchFails, Save,
           SaveFails, Checkpoint, CheckpointFails, Crash, Reset, vars
  <1> QED
    BY <1>1 DEF Publish, TypeOK

\* Every step keeps watermarks real; that a page's is needs Scanned.
LEMMA RealStep == TypeOK /\ Scanned' /\ RealMarks /\ [Next]_vars => RealMarks'
  <1> SUFFICES ASSUME TypeOK, Scanned', RealMarks, [Next]_vars PROVE RealMarks'
    OBVIOUS
  <1>1. \A t : IsReal(t) => IsReal(t)'
    BY PublishedGrows DEF IsReal
  <1>2. RealWatermark <=> (imported_until # None => IsReal(imported_until))
    BY DEF RealWatermark, IsReal
  <1>3. RealWatermark' <=> (imported_until' # None => IsReal(imported_until)')
    BY DEF RealWatermark, IsReal
  <1>4. CASE UNCHANGED <<batch, imported_until>>
    BY <1>1, <1>2, <1>3, <1>4 DEF RealMarks, RealBatches
  <1>5. ASSUME NEW p \in Processes, Start(p) \/ SyncFails(p) \/ Request(p)
        PROVE  RealMarks'
    BY <1>4, <1>5 DEF Start, SyncFails, Request
  <1>6. ASSUME NEW p \in Processes, NEW c \in Channels, Fetch(p, c) PROVE RealMarks'
    <2>1. imported_until' = imported_until
      BY <1>6 DEF Fetch
    <2>2. ASSUME NEW q \in Processes, batch'[q].next_from # None
          PROVE  IsReal(batch[q].next_from)'
      <3>1. CASE q # p
        <4>1. batch'[q] = batch[q]
          BY <1>6, <3>1 DEF Fetch, TypeOK
        <4> QED
          BY <1>1, <2>2, <4>1 DEF RealMarks, RealBatches, IsReal
      <3>2. CASE q = p
        <4>1. PICK d \in Channels :
                last_real'[p][d] # None /\ batch'[p].next_from = last_real'[p][d]
          BY <1>6, <2>2, <3>2, FetchEffect
        <4>2. last_real'[p][d] \in published'[d]
          BY <4>1 DEF Scanned, Cursors
        <4> QED
          BY <3>2, <4>1, <4>2 DEF IsReal
      <3> QED
        BY <3>1, <3>2
    <2> QED
      BY <1>1, <1>2, <1>3, <2>1, <2>2 DEF RealMarks, RealBatches
  <1>7. ASSUME NEW p \in Processes, FetchNothing(p) PROVE RealMarks'
    <2>1. /\ imported_until' = imported_until
          /\ \A q \in Processes : batch'[q] = batch[q] \/ batch'[q].next_from = None
      BY <1>7 DEF FetchNothing, NoBatch, TypeOK
    <2> QED
      BY <1>1, <1>2, <1>3, <2>1 DEF RealMarks, RealBatches
  <1>8. ASSUME NEW p \in Processes, Checkpoint(p) PROVE RealMarks'
    <2>1. batch' = batch
      BY <1>8 DEF Checkpoint
    <2>2. imported_until' = imported_until \/ imported_until' = batch[p].next_from
      BY <1>8 DEF Checkpoint
    <2> QED
      BY <1>1, <1>2, <1>3, <2>1, <2>2 DEF RealMarks, RealBatches
  <1>9. ASSUME NEW p \in Processes, Crash(p) PROVE RealMarks'
    <2>1. /\ imported_until' = imported_until
          /\ \A q \in Processes : batch'[q] = batch[q] \/ batch'[q].next_from = None
      BY <1>9 DEF Crash, NoBatch, TypeOK
    <2> QED
      BY <1>1, <1>2, <1>3, <2>1 DEF RealMarks, RealBatches
  <1>10. CASE Reset
    <2>1. batch' = batch /\ imported_until' = None
      BY <1>10 DEF Reset
    <2> QED
      BY <1>1, <1>3, <2>1 DEF RealMarks, RealBatches
  <1>11. ASSUME NEW p \in Processes,
                FetchFails(p) \/ Save(p) \/ SaveFails(p) \/ CheckpointFails(p)
         PROVE  RealMarks'
    BY <1>4, <1>11 DEF FetchFails, Save, SaveFails, CheckpointFails
  <1>12. ASSUME NEW c \in Channels, NEW t \in Times, Publish(c, t) PROVE RealMarks'
    BY <1>4, <1>12 DEF Publish
  <1>13. CASE UNCHANGED vars
    BY <1>4, <1>13 DEF vars
  <1> QED
    BY <1>5, <1>6, <1>7, <1>8, <1>9, <1>10, <1>11, <1>12, <1>13 DEF Next, Worker


-----------------------------------------------------------------------------
(* Checkpoints advance.                                                    *)

\* A scanner's cursors do not fall behind its anchor, and its last records are
\* past it.
PastAnchor(p) ==
  anchor[p] # Unseeded =>
    \A c \in Channels :
      /\ c \notin done[p] => anchor[p] <= next[p][c]
      /\ last_real[p][c] # None => anchor[p] < last_real[p][c]

\* Once it asks for pages, a run works with a scanner seeded with its anchor.
OwnAnchor(p) == pc[p] \notin {"idle", "syncing"} => anchor[p] = from[p]

\* What a run is about to store is past the anchor it started from.
PastFrom(p) ==
  pc[p] \in {"saving", "checkpoint"} =>
    batch[p].next_from = None \/ batch[p].next_from > from[p]

Anchored == \A p \in Processes : OwnAnchor(p) /\ PastAnchor(p) /\ PastFrom(p)

\* A process whose scanner, anchor and batch stay is as it was.
LEMMA AnchoredFrame ==
  ASSUME NEW p \in Processes, OwnAnchor(p), PastAnchor(p), PastFrom(p),
         anchor'[p] = anchor[p], next'[p] = next[p], last_real'[p] = last_real[p],
         done'[p] = done[p], from'[p] = from[p],
         \/ pc'[p] = pc[p] /\ batch'[p] = batch[p]
         \/ pc[p] = "saving" /\ pc'[p] = "checkpoint" /\ batch'[p] = batch[p]
         \/ pc[p] = "reading" /\ pc'[p] = "checkpoint" /\ batch'[p] = NoBatch
         \/ pc[p] = "checkpoint" /\ pc'[p] = "reading"
         \/ pc'[p] = "idle"
  PROVE  (OwnAnchor(p) /\ PastAnchor(p) /\ PastFrom(p))'
  <1>1. PastAnchor(p)'
    BY DEF PastAnchor
  <1>2. OwnAnchor(p)'
    BY DEF OwnAnchor
  <1>3. PastFrom(p)'
    BY DEF PastFrom, NoBatch
  <1> QED
    BY <1>1, <1>2, <1>3

\* Every step keeps it.
LEMMA AnchoredStep == TypeOK /\ Scanned /\ Anchored /\ [Next]_vars => Anchored'
  <1> SUFFICES ASSUME TypeOK, Scanned, Anchored, [Next]_vars, NEW q \in Processes
               PROVE  (OwnAnchor(q) /\ PastAnchor(q) /\ PastFrom(q))'
    BY DEF Anchored
  <1>0. OwnAnchor(q) /\ PastAnchor(q) /\ PastFrom(q)
    BY DEF Anchored
  <1>1. ASSUME NEW p \in Processes, Start(p)
        PROVE  (OwnAnchor(q) /\ PastAnchor(q) /\ PastFrom(q))'
    <2>1. UNCHANGED <<anchor, next, last_real, done, batch>>
      BY <1>1 DEF Start, scanner
    <2>2. CASE q # p
      <3>1. pc'[q] = pc[q] /\ from'[q] = from[q]
        BY <1>1, <2>2 DEF Start, Goto, TypeOK
      <3> QED
        BY <1>0, <2>1, <3>1, AnchoredFrame
    <2>3. CASE q = p
      <3>1. pc'[p] = "syncing"
        BY <1>1 DEF Start, Goto, TypeOK
      <3> QED
        BY <1>0, <2>1, <2>3, <3>1 DEF OwnAnchor, PastAnchor, PastFrom
    <2> QED
      BY <2>2, <2>3
  <1>9. ASSUME NEW p \in Processes, Request(p)
        PROVE  (OwnAnchor(q) /\ PastAnchor(q) /\ PastFrom(q))'
    <2>1. CASE q # p
      <3>1. /\ pc'[q] = pc[q] /\ from'[q] = from[q] /\ batch'[q] = batch[q]
        BY <1>9, <2>1 DEF Request, Goto, TypeOK
      <3>2. /\ anchor'[q] = anchor[q] /\ next'[q] = next[q]
            /\ last_real'[q] = last_real[q] /\ done'[q] = done[q]
        BY <1>9, <2>1 DEF Request, Seed, Rewind, scanner, TypeOK
      <3> QED
        BY <1>0, <3>1, <3>2, AnchoredFrame
    <2>2. CASE q = p
      <3>1. pc'[p] = "reading" /\ from' = from
        BY <1>9 DEF Request, Goto, TypeOK
      <3>2. anchor'[p] = from[p]
        BY <1>9 DEF Request, matches, Seed, scanner, TypeOK
      <3>3. CASE UNCHANGED scanner
        BY <1>0, <2>2, <3>1, <3>2, <3>3 DEF scanner, OwnAnchor, PastAnchor, PastFrom
      <3>4. CASE Seed(p, from[p])
        <4>1. from[p] \in Timestamp /\ Rewind(p, from[p])
          BY <3>4 DEF Seed, TypeOK
        <4>2. \A d \in Channels : next'[p][d] = from[p] /\ last_real'[p][d] = None
          BY <4>1, RewindEffect
        <4> QED
          BY <2>2, <3>1, <3>2, <4>1, <4>2
          DEF OwnAnchor, PastAnchor, PastFrom, Timestamp, Times, None
      <3> QED
        BY <1>9, <3>3, <3>4 DEF Request
    <2> QED
      BY <2>1, <2>2
  <1>2. ASSUME NEW p \in Processes, NEW c \in Channels, Fetch(p, c)
        PROVE  (OwnAnchor(q) /\ PastAnchor(q) /\ PastFrom(q))'
    <2>1. anchor' = anchor /\ from' = from
      BY <1>2 DEF Fetch
    <2>2. CASE q # p
      <3>1. /\ next'[q] = next[q] /\ last_real'[q] = last_real[q]
            /\ done'[q] = done[q] /\ batch'[q] = batch[q]
        BY <1>2, <2>2 DEF Fetch, TypeOK
      <3>2. pc'[q] = pc[q]
        BY <1>2, <2>2 DEF Fetch, Goto, TypeOK
      <3> QED
        BY <1>0, <2>1, <3>1, <3>2, AnchoredFrame
    <2>3. CASE q = p
      <3> DEFINE cur == next[p][c]
      <3>1. pc[p] = "reading" /\ pc'[p] = "saving" /\ c \notin done[p]
        BY <1>2 DEF Fetch, Goto, TypeOK
      <3>2. anchor[p] = from[p] /\ anchor[p] \in Timestamp
        BY <1>0, <2>3, <3>1 DEF OwnAnchor, TypeOK
      <3>3. cur \in Timestamp /\ last_real[p][c] \in Timestamp
        BY DEF TypeOK
      <3>4. anchor[p] # Unseeded
        BY <3>2, MaxTimeAssumption DEF Unseeded, Timestamp, Times, None
      <3>5. anchor[p] <= cur
        BY <1>0, <2>3, <3>1, <3>4 DEF PastAnchor
      <3>6. /\ LastReal(c, cur) \in Timestamp /\ NextFrom(c, cur) \in Timestamp
            /\ LastReal(c, cur) # None => LastReal(c, cur) > cur
            /\ ~Done(c, cur) => NextFrom(c, cur) > cur
        BY <3>3, LastRealFacts, NextFromFacts
      <3>7. /\ next'[p][c] = NextFrom(c, cur)
            /\ last_real'[p][c] = IF LastReal(c, cur) # None THEN LastReal(c, cur)
                                                             ELSE last_real[p][c]
            /\ done'[p] = IF Done(c, cur) THEN done[p] \cup {c} ELSE done[p]
        BY <1>2, FetchEffect
      <3>8. \A d \in Channels \ {c} :
              next'[p][d] = next[p][d] /\ last_real'[p][d] = last_real[p][d]
        BY <1>2, FetchEffect
      <3> HIDE DEF cur
      <3>9. c \notin done'[p] => anchor[p] <= next'[p][c]
        BY <3>2, <3>3, <3>5, <3>6, <3>7 DEF Timestamp, Times, None
      <3>10. last_real'[p][c] # None => anchor[p] < last_real'[p][c]
        <4>1. CASE LastReal(c, cur) # None
          BY <3>2, <3>3, <3>5, <3>6, <3>7, <4>1 DEF Timestamp, Times, None
        <4>2. CASE LastReal(c, cur) = None
          BY <1>0, <2>3, <3>4, <3>7, <4>2 DEF PastAnchor
        <4> QED
          BY <4>1, <4>2
      <3>11. ASSUME NEW d \in Channels
             PROVE  /\ d \notin done'[p] => anchor[p] <= next'[p][d]
                    /\ last_real'[p][d] # None => anchor[p] < last_real'[p][d]
        BY <1>0, <2>3, <3>4, <3>7, <3>8, <3>9, <3>10 DEF PastAnchor
      <3>12. batch'[p].next_from = None \/ batch'[p].next_from > anchor[p]
        <4>1. \/ batch'[p].next_from = None
              \/ \E d \in Channels : /\ last_real'[p][d] # None
                                     /\ batch'[p].next_from = last_real'[p][d]
          BY <1>2, FetchEffect
        <4>2. ASSUME NEW d \in Channels PROVE last_real'[p][d] \in Timestamp
          BY <1>2, FetchType DEF TypeOK
        <4>3. ASSUME NEW d \in Channels, last_real'[p][d] # None
              PROVE  last_real'[p][d] > anchor[p]
          BY <3>2, <3>11, <4>2, <4>3 DEF Timestamp, Times, None
        <4> QED
          BY <4>1, <4>3
      <3>13. OwnAnchor(p)'
        BY <2>1, <3>2 DEF OwnAnchor
      <3>14. PastAnchor(p)'
        BY <2>1, <3>11 DEF PastAnchor
      <3>15. PastFrom(p)'
        BY <2>1, <3>2, <3>12 DEF PastFrom
      <3> QED
        BY <2>3, <3>13, <3>14, <3>15
    <2> QED
      BY <2>2, <2>3
  <1>3. ASSUME NEW p \in Processes,
               \/ SyncFails(p) \/ FetchNothing(p) \/ FetchFails(p) \/ Save(p) \/ SaveFails(p)
               \/ Checkpoint(p) \/ CheckpointFails(p)
        PROVE  (OwnAnchor(q) /\ PastAnchor(q) /\ PastFrom(q))'
    <2>1. UNCHANGED <<from, anchor, next, last_real, done>>
      BY <1>3 DEF SyncFails, FetchNothing, FetchFails, Save, SaveFails, Checkpoint,
                  CheckpointFails, scanner
    <2>2. CASE q # p
      <3>1. pc'[q] = pc[q] /\ batch'[q] = batch[q]
        BY <1>3, <2>2 DEF SyncFails, FetchNothing, FetchFails, Save, SaveFails, Checkpoint,
                          CheckpointFails, Goto, TypeOK
      <3> QED
        BY <1>0, <2>1, <3>1, AnchoredFrame
    <2>3. CASE q = p
      <3>1. \/ pc[p] = "saving" /\ pc'[p] = "checkpoint" /\ batch'[p] = batch[p]
            \/ pc[p] = "reading" /\ pc'[p] = "checkpoint" /\ batch'[p] = NoBatch
            \/ pc[p] = "checkpoint" /\ pc'[p] = "reading"
            \/ pc'[p] = "idle"
        BY <1>3 DEF SyncFails, FetchNothing, FetchFails, Save, SaveFails, Checkpoint,
                    CheckpointFails, Goto, TypeOK
      <3> QED
        BY <1>0, <2>1, <2>3, <3>1, AnchoredFrame
    <2> QED
      BY <2>2, <2>3
  <1>4. ASSUME NEW p \in Processes, Crash(p)
        PROVE  (OwnAnchor(q) /\ PastAnchor(q) /\ PastFrom(q))'
    <2>1. CASE q # p
      <3>1. Rewind(p, None) /\ None \in Timestamp /\ from' = from
        BY <1>4 DEF Crash, Timestamp
      <3>2. /\ next'[q] = next[q] /\ last_real'[q] = last_real[q] /\ done'[q] = done[q]
        BY <2>1, <3>1, RewindEffect
      <3>3. anchor'[q] = anchor[q] /\ pc'[q] = pc[q] /\ batch'[q] = batch[q]
        BY <1>4, <2>1 DEF Crash, Goto, TypeOK
      <3> QED
        BY <1>0, <3>1, <3>2, <3>3, AnchoredFrame
    <2>2. CASE q = p
      <3>1. pc'[p] = "idle" /\ anchor'[p] = Unseeded
        BY <1>4 DEF Crash, Goto, TypeOK
      <3> QED
        BY <2>2, <3>1 DEF OwnAnchor, PastAnchor, PastFrom
    <2> QED
      BY <2>1, <2>2
  <1>5. ASSUME UNCHANGED <<pc, from, batch, scanner>>
        PROVE  (OwnAnchor(q) /\ PastAnchor(q) /\ PastFrom(q))'
    BY <1>0, <1>5, AnchoredFrame DEF scanner
  <1>6. ASSUME NEW c \in Channels, NEW t \in Times, Publish(c, t)
        PROVE  (OwnAnchor(q) /\ PastAnchor(q) /\ PastFrom(q))'
    BY <1>5, <1>6 DEF Publish
  <1>7. CASE Reset
    BY <1>5, <1>7 DEF Reset
  <1>8. CASE UNCHANGED vars
    BY <1>5, <1>8 DEF vars
  <1> QED
    BY <1>1, <1>2, <1>3, <1>4, <1>6, <1>7, <1>8, <1>9 DEF Next, Worker

-----------------------------------------------------------------------------
(* The source keeps the promise of its feed.                               *)

Served == {r \in Channels \X Times : r[2] \in published[r[1]]}
Running == {p \in Processes : pc[p] # "idle"}
Anchors == [p \in Processes |-> IF pc[p] = "idle" THEN None ELSE from[p]]

\* A page holds what the provider serves.
PagesServed == \A p \in Processes : batch[p].records \subseteq Served

\* The provider serves more and more.
LEMMA ServedGrows == TypeOK /\ [Next]_vars => Served \subseteq Served'
  BY PublishedGrows DEF Served

\* Every step keeps the pages within what is served.
LEMMA PagesServedStep == TypeOK /\ PagesServed /\ [Next]_vars => PagesServed'
  <1> SUFFICES ASSUME TypeOK, PagesServed, [Next]_vars, NEW q \in Processes
               PROVE  batch'[q].records \subseteq Served'
    BY DEF PagesServed
  <1>1. CASE batch'[q] = batch[q] \/ batch'[q] = NoBatch
    BY <1>1, ServedGrows DEF PagesServed, NoBatch
  <1>2. ASSUME NEW p \in Processes, NEW c \in Channels, Fetch(p, c), q = p
        PROVE  batch'[q].records \subseteq Served'
    <2>1. batch'[p].records = {c} \X Page(c, next[p][c]) /\ published' = published
      BY <1>2, FetchEffect
    <2>2. Page(c, next[p][c]) \subseteq published[c] /\ published[c] \subseteq Times
      BY PageFacts DEF TypeOK
    <2> QED
      BY <1>2, <2>1, <2>2 DEF Served
  <1>3. ASSUME NEW p \in Processes, NEW c \in Channels, Fetch(p, c), q # p
        PROVE  batch'[q] = batch[q]
    BY <1>3 DEF Fetch, TypeOK
  <1>4. ASSUME NEW p \in Processes, FetchNothing(p) \/ Crash(p)
        PROVE  batch'[q] = batch[q] \/ batch'[q] = NoBatch
    BY <1>4 DEF FetchNothing, Crash, TypeOK
  <1>5. ASSUME NEW p \in Processes,
               \/ Start(p) \/ SyncFails(p) \/ Request(p) \/ FetchFails(p) \/ Save(p)
               \/ SaveFails(p) \/ Checkpoint(p) \/ CheckpointFails(p)
        PROVE  batch' = batch
    BY <1>5 DEF Start, SyncFails, Request, FetchFails, Save, SaveFails, Checkpoint,
                CheckpointFails
  <1>6. ASSUME \/ \E c \in Channels, t \in Times : Publish(c, t)
               \/ Reset \/ UNCHANGED vars
        PROVE  batch' = batch
    BY <1>6 DEF Publish, Reset, vars
  <1> QED
    BY <1>1, <1>2, <1>3, <1>4, <1>5, <1>6 DEF Next, Worker

\* A run that goes on, and one that ends.
LEMMA RunStays ==
  ASSUME TypeOK, NEW p \in Processes, NEW label, pc[p] # "idle", label # "idle",
         Goto(p, label), from' = from
  PROVE  Running' = Running /\ Anchors' = Anchors
  <1>1. \A q \in Processes : pc'[q] = "idle" <=> pc[q] = "idle"
    BY DEF Goto, TypeOK
  <1> QED
    BY <1>1 DEF Running, Anchors

LEMMA RunEnded ==
  ASSUME TypeOK, NEW p \in Processes, Goto(p, "idle"), from' = from
  PROVE  /\ Running' = Running \ {p}
         /\ Anchors' = [q \in Processes |-> IF q \in {p} THEN None ELSE Anchors[q]]
  <1>1. \A q \in Processes : pc'[q] = IF q = p THEN "idle" ELSE pc[q]
    BY DEF Goto, TypeOK
  <1> QED
    BY <1>1 DEF Running, Anchors

\* Every step of the source is a step of its feed.
LEMMA FeedStep ==
  ASSUME TypeOK, PagesServed, RealMarks, Anchored, [Next]_vars
  PROVE  Feed!Next \/ UNCHANGED <<Served, saved, imported_until, Running, Anchors>>
  <1> USE DEF Served, Running, Anchors
  <1>1. ASSUME NEW p \in Processes, Start(p) PROVE Feed!Begin(p)
    <2>1. \A q \in Processes : /\ pc'[q] = IF q = p THEN "syncing" ELSE pc[q]
                              /\ from'[q] = IF q = p THEN imported_until ELSE from[q]
      BY <1>1 DEF Start, Goto, TypeOK
    <2>2. pc[p] = "idle" /\ UNCHANGED <<published, saved, imported_until>>
      BY <1>1 DEF Start
    <2> QED
      BY <2>1, <2>2 DEF Feed!Begin
  <1>2. ASSUME NEW p \in Processes,
               Request(p) \/ FetchNothing(p) \/ \E c \in Channels : Fetch(p, c)
        PROVE  UNCHANGED <<Served, saved, imported_until, Running, Anchors>>
    <2>1. /\ UNCHANGED <<published, saved, imported_until, from>>
          /\ pc[p] # "idle"
          /\ \E label \in {"reading", "saving", "checkpoint"} : Goto(p, label)
      BY <1>2 DEF Request, FetchNothing, Fetch
    <2>2. Running' = Running /\ Anchors' = Anchors
      BY <2>1, RunStays
    <2> QED
      BY <2>1, <2>2
  <1>3. ASSUME NEW p \in Processes,
               \/ SyncFails(p) \/ FetchFails(p) \/ SaveFails(p) \/ CheckpointFails(p)
               \/ Crash(p)
        PROVE  Feed!Import(p) \/ UNCHANGED <<Served, saved, imported_until, Running, Anchors>>
    <2>1. UNCHANGED <<published, saved, imported_until, from>> /\ Goto(p, "idle")
      BY <1>3 DEF SyncFails, FetchFails, SaveFails, CheckpointFails, Crash
    <2>2. Served' = Served
      BY <2>1
    <2>3. /\ Running' = Running \ {p}
          /\ Anchors' = [q \in Processes |-> IF q \in {p} THEN None ELSE Anchors[q]]
      BY <2>1, RunEnded
    <2>4. CASE p \in Running
      <3>1. Feed!End({p})
        BY <2>3 DEF Feed!End
      <3> QED
        BY <2>1, <2>2, <2>4, <3>1 DEF Feed!Import
    <2>5. CASE p \notin Running
      <3>1. Running' = Running /\ Anchors' = Anchors
        BY <2>3, <2>5
      <3> QED
        BY <2>1, <2>2, <3>1
    <2> QED
      BY <2>4, <2>5
  <1>4. ASSUME NEW p \in Processes, Save(p) PROVE Feed!Import(p)
    <2>1. /\ UNCHANGED <<published, imported_until, from>>
          /\ pc[p] = "saving" /\ Goto(p, "checkpoint")
          /\ saved' = saved \cup batch[p].records
      BY <1>4 DEF Save
    <2>2. Running' = Running /\ Anchors' = Anchors
      BY <2>1, RunStays
    <2>3. saved \subseteq saved' /\ saved' \subseteq saved \cup Served
      BY <2>1 DEF PagesServed
    <2>4. Feed!End({})
      BY <2>2 DEF Feed!End
    <2> QED
      BY <2>1, <2>2, <2>3, <2>4 DEF Feed!Import
  <1>5. ASSUME NEW p \in Processes, Checkpoint(p) PROVE Feed!Import(p)
    <2>1. /\ UNCHANGED <<published, saved, from>> /\ pc[p] = "checkpoint"
          /\ Goto(p, "reading") \/ Goto(p, "idle")
      BY <1>5 DEF Checkpoint
    <2>2. p \in Running /\ Anchors[p] = from[p]
      BY <2>1
    <2>3. Feed!End({}) \/ Feed!End({p})
      BY <2>1, RunStays, RunEnded DEF Feed!End
    <2>4. imported_until' = imported_until \/ Feed!MovesOn(p)
      <3> SUFFICES ASSUME imported_until' # imported_until PROVE Feed!MovesOn(p)
        OBVIOUS
      <3>1. imported_until' = batch[p].next_from /\ batch[p].next_from # None
        BY <1>5 DEF Checkpoint
      <3>2. batch[p].next_from > from[p]
        BY <2>1, <3>1 DEF Anchored, PastFrom
      <3>3. PICK c \in Channels : batch[p].next_from \in published[c]
        BY <3>1 DEF RealMarks, RealBatches, IsReal
      <3>4. <<c, batch[p].next_from>> \in Served
        BY <3>3 DEF TypeOK
      <3> QED
        BY <2>2, <3>1, <3>2, <3>4 DEF Feed!MovesOn
    <2>5. Served' = Served
      BY <2>1
    <2> QED
      BY <2>1, <2>2, <2>3, <2>4, <2>5 DEF Feed!Import
  <1>6. ASSUME NEW c \in Channels, NEW t \in Times, Publish(c, t) PROVE Feed!Serve
    <2>1. UNCHANGED <<saved, imported_until, pc, from>>
      BY <1>6 DEF Publish
    <2>2. Served \subseteq Served'
      BY ServedGrows
    <2> QED
      BY <2>1, <2>2 DEF Feed!Serve
  <1>7. CASE Reset
    BY <1>7 DEF Reset, Feed!Reset, Feed!Next
  <1>8. CASE UNCHANGED vars
    BY <1>8 DEF vars
  <1> QED
    BY <1>1, <1>2, <1>3, <1>4, <1>5, <1>6, <1>7, <1>8 DEF Next, Worker, Feed!Next

-----------------------------------------------------------------------------
(* What a run has read to its end.                                         *)

\* The page that exhausts a channel holds all that was still in reach.
LEMMA DoneFacts ==
  ASSUME TypeOK, NEW c \in Channels, NEW cur \in Timestamp, Done(c, cur)
  PROVE  After(c, cur) \subseteq Page(c, cur)
  <1> SUFFICES ASSUME NEW t \in After(c, cur) PROVE t \in Page(c, cur)
    OBVIOUS
  <1>1. InWindow(c, cur) = Page(c, cur) /\ ~ (t > WindowEnd(c, cur))
    BY DEF Done, PageFull, DataBeyond
  <1>2. t \in published[c] /\ published[c] \in SUBSET Times
    BY PageFacts
  <1>3. Least(published[c]) \in Nat
    BY <1>2, LeastOf DEF Times
  <1>4. WindowEnd(c, cur) \in Nat
    BY <1>3, TimeframeAssumption DEF WindowEnd, Timestamp, Times, None
  <1>5. t <= WindowEnd(c, cur)
    BY <1>1, <1>2, <1>4 DEF Times
  <1> QED
    BY <1>1, <1>5 DEF InWindow

\* A record is in the table, in the page at hand, or was lost with a failed save.
Handled(p, r) ==
  \/ r \in saved \cup lost[p]
  \/ pc[p] = "saving" /\ r \in batch[p].records

\* Nothing is left of an exhausted channel, and after the last page all are.
ReadOut(p) == \A r \in seen[p] : r[1] \in done[p] => Handled(p, r)
LastPage(p) ==
  pc[p] \in {"saving", "checkpoint"} /\ ~batch[p].more => done[p] = Channels

Finished == \A p \in Processes : ReadOut(p) /\ LastPage(p)

\* A process whose scanner stays and whose page, if any, is kept, saved or lost.
LEMMA FinishedFrame ==
  ASSUME NEW p \in Processes, ReadOut(p), LastPage(p), saved \subseteq saved',
         lost[p] \subseteq lost'[p], seen'[p] = seen[p], done'[p] = done[p],
         \/ pc'[p] = pc[p] /\ batch'[p] = batch[p]
         \/ /\ pc[p] = "saving" /\ pc'[p] \in {"checkpoint", "idle"} /\ batch'[p] = batch[p]
            /\ batch[p].records \subseteq saved' \cup lost'[p]
         \/ pc[p] # "saving" /\ pc'[p] \in {"idle", "syncing", "reading"}
         \/ pc[p] # "saving" /\ pc'[p] = "checkpoint" /\ done[p] = Channels
  PROVE  (ReadOut(p) /\ LastPage(p))'
  <1>1. \A r : Handled(p, r) => Handled(p, r)'
    BY DEF Handled
  <1> QED
    BY <1>1 DEF ReadOut, LastPage

\* A process whose scanner starts over.
LEMMA FinishedRewind ==
  ASSUME TypeOK, NEW p \in Processes, NEW a \in Timestamp, Rewind(p, a),
         pc'[p] \in {"idle", "reading"}
  PROVE  (ReadOut(p) /\ LastPage(p))'
  BY RewindEffect DEF ReadOut, LastPage

\* A page: what it leaves of an exhausted channel was handled before.
LEMMA FinishedFetch ==
  ASSUME TypeOK, Scanned, Finished, NEW p \in Processes, NEW c \in Channels, Fetch(p, c)
  PROVE  (ReadOut(p) /\ LastPage(p))'
  <1> DEFINE cur == next[p][c]
  <1>1. /\ pc[p] = "reading" /\ c \notin done[p] /\ pc'[p] = "saving"
        /\ saved' = saved /\ lost' = lost
        /\ done'[p] = IF Done(c, cur) THEN done[p] \cup {c} ELSE done[p]
        /\ seen'[p] = seen[p] \cup {c} \X After(c, cur)
        /\ batch'[p].records = {c} \X Page(c, cur)
    BY FetchEffect DEF TypeOK
  <1>2. cur \in Timestamp /\ published[c] \in SUBSET Times
    BY DEF TypeOK
  <1>3. LastPage(p)'
    <2>1. batch'[p].more = (done'[p] # Channels)
      BY <1>1 DEF Fetch, TypeOK
    <2> QED
      BY <2>1 DEF LastPage
  <1>4. ASSUME NEW r \in seen'[p], r[1] \in done'[p] PROVE Handled(p, r)'
    <2>1. CASE r[1] = c /\ r \in {c} \X After(c, cur)
      <3>1. Done(c, cur)
        BY <1>1, <1>4, <2>1
      <3>2. r \in batch'[p].records
        BY <1>1, <1>2, <2>1, <3>1, DoneFacts
      <3> QED
        BY <1>1, <3>2 DEF Handled
    <2>2. CASE r[1] = c /\ r \notin {c} \X After(c, cur)
      <3>1. r \in seen[p]
        BY <1>1, <2>2
      <3>2. r = <<c, r[2]>> /\ r[2] \in published[c]
        BY <2>2, <3>1 DEF TypeOK, Records, Scanned, InReach
      <3>3. r[2] <= cur
        BY <1>2, <2>2, <3>2 DEF After, Timestamp, Times, None
      <3>4. r \in saved \cup lost[p]
        BY <1>1, <2>2, <3>1, <3>3 DEF Scanned, NothingSkipped
      <3> QED
        BY <1>1, <3>4 DEF Handled
    <2>3. CASE r[1] # c
      <3>1. r \in seen[p] /\ r[1] \in done[p]
        BY <1>1, <1>4, <2>3
      <3>2. Handled(p, r)
        BY <3>1 DEF Finished, ReadOut
      <3> QED
        BY <1>1, <3>2 DEF Handled
    <2> QED
      BY <2>1, <2>2, <2>3
  <1> QED
    BY <1>3, <1>4 DEF ReadOut

\* Every step keeps both.
LEMMA FinishedStep == TypeOK /\ Scanned /\ Finished /\ [Next]_vars => Finished'
  <1> SUFFICES ASSUME TypeOK, Scanned, Finished, [Next]_vars, NEW q \in Processes
               PROVE  (ReadOut(q) /\ LastPage(q))'
    BY DEF Finished
  <1>0. ReadOut(q) /\ LastPage(q)
    BY DEF Finished
  <1>1. ASSUME NEW p \in Processes, Start(p) PROVE (ReadOut(q) /\ LastPage(q))'
    <2>1. UNCHANGED <<seen, done, lost, saved>>
      BY <1>1 DEF Start, scanner
    <2>2. \/ pc'[q] = pc[q] /\ batch'[q] = batch[q]
          \/ pc[q] # "saving" /\ pc'[q] = "syncing"
      BY <1>1 DEF Start, Goto, TypeOK
    <2> QED
      BY <1>0, <2>1, <2>2, FinishedFrame
  <1>8. ASSUME NEW p \in Processes, Request(p) PROVE (ReadOut(q) /\ LastPage(q))'
    <2>1. CASE q # p \/ UNCHANGED scanner
      <3>1. /\ seen'[q] = seen[q] /\ done'[q] = done[q] /\ lost'[q] = lost[q]
            /\ saved' = saved
        BY <1>8, <2>1 DEF Request, Seed, Rewind, scanner, TypeOK
      <3>2. \/ pc'[q] = pc[q] /\ batch'[q] = batch[q]
            \/ pc[q] # "saving" /\ pc'[q] = "reading"
        BY <1>8 DEF Request, Goto, TypeOK
      <3> QED
        BY <1>0, <3>1, <3>2, FinishedFrame
    <2>2. CASE q = p /\ Seed(p, from[p])
      <3>1. from[p] \in Timestamp /\ Rewind(p, from[p])
        BY <2>2 DEF Seed, TypeOK
      <3>2. pc'[p] = "reading"
        BY <1>8 DEF Request, Goto, TypeOK
      <3> QED
        BY <2>2, <3>1, <3>2, FinishedRewind
    <2> QED
      BY <1>8, <2>1, <2>2 DEF Request
  <1>2. ASSUME NEW p \in Processes, NEW c \in Channels, Fetch(p, c)
        PROVE  (ReadOut(q) /\ LastPage(q))'
    <2>1. CASE q # p
      <3>1. /\ seen'[q] = seen[q] /\ done'[q] = done[q] /\ batch'[q] = batch[q]
        BY <1>2, <2>1 DEF Fetch, TypeOK
      <3>2. pc'[q] = pc[q] /\ lost' = lost /\ saved' = saved
        BY <1>2, <2>1 DEF Fetch, Goto, TypeOK
      <3> QED
        BY <1>0, <3>1, <3>2, FinishedFrame
    <2> QED
      BY <1>2, <2>1, FinishedFetch
  <1>3. ASSUME NEW p \in Processes,
               \/ SyncFails(p) \/ FetchNothing(p) \/ FetchFails(p) \/ Save(p) \/ SaveFails(p)
               \/ Checkpoint(p) \/ CheckpointFails(p)
        PROVE  (ReadOut(q) /\ LastPage(q))'
    <2>1. UNCHANGED <<seen, done>> /\ saved \subseteq saved' /\ lost[q] \subseteq lost'[q]
      BY <1>3 DEF SyncFails, FetchNothing, FetchFails, Save, SaveFails, Checkpoint,
                  CheckpointFails, scanner, TypeOK
    <2>2. CASE q # p
      <3>1. pc'[q] = pc[q] /\ batch'[q] = batch[q]
        BY <1>3, <2>2 DEF SyncFails, FetchNothing, FetchFails, Save, SaveFails, Checkpoint,
                          CheckpointFails, Goto, TypeOK
      <3> QED
        BY <1>0, <2>1, <3>1, FinishedFrame
    <2>3. CASE q = p
      <3>1. CASE FetchNothing(p)
        BY <1>0, <2>1, <2>3, <3>1, FinishedFrame DEF FetchNothing, Goto, TypeOK
      <3>2. CASE Save(p)
        BY <1>0, <2>1, <2>3, <3>2, FinishedFrame DEF Save, Goto, TypeOK
      <3>3. CASE SaveFails(p)
        BY <1>0, <2>1, <2>3, <3>3, FinishedFrame DEF SaveFails, Goto, TypeOK
      <3>4. CASE SyncFails(p) \/ FetchFails(p) \/ Checkpoint(p) \/ CheckpointFails(p)
        <4>1. pc[p] # "saving" /\ pc'[p] \in {"idle", "reading"}
          BY <3>4 DEF SyncFails, FetchFails, Checkpoint, CheckpointFails, Goto, TypeOK
        <4> QED
          BY <1>0, <2>1, <2>3, <4>1, FinishedFrame
      <3> QED
        BY <1>3, <3>1, <3>2, <3>3, <3>4
    <2> QED
      BY <2>2, <2>3
  <1>4. ASSUME NEW p \in Processes, Crash(p) PROVE (ReadOut(q) /\ LastPage(q))'
    <2>1. Rewind(p, None) /\ None \in Timestamp /\ saved' = saved
      BY <1>4 DEF Crash, Timestamp
    <2>2. CASE q # p
      <3>1. seen'[q] = seen[q] /\ done'[q] = done[q] /\ lost'[q] = lost[q]
        BY <2>1, <2>2, RewindEffect
      <3>2. pc'[q] = pc[q] /\ batch'[q] = batch[q]
        BY <1>4, <2>2 DEF Crash, Goto, TypeOK
      <3> QED
        BY <1>0, <2>1, <3>1, <3>2, FinishedFrame
    <2>3. CASE q = p
      <3>1. pc'[p] = "idle"
        BY <1>4 DEF Crash, Goto, TypeOK
      <3> QED
        BY <2>1, <2>3, <3>1, FinishedRewind
    <2> QED
      BY <2>2, <2>3
  <1>5. ASSUME UNCHANGED <<saved, pc, batch, scanner>>
        PROVE  (ReadOut(q) /\ LastPage(q))'
    BY <1>0, <1>5, FinishedFrame DEF scanner
  <1>6. ASSUME NEW c \in Channels, NEW t \in Times, Publish(c, t)
        PROVE  (ReadOut(q) /\ LastPage(q))'
    BY <1>5, <1>6 DEF Publish
  <1>7. CASE Reset \/ UNCHANGED vars
    BY <1>5, <1>7 DEF Reset, vars
  <1> QED
    BY <1>1, <1>2, <1>3, <1>4, <1>6, <1>7, <1>8 DEF Next, Worker

\* What a run has read to its end is handled.
LEMMA FinishedShows ==
  ASSUME TypeOK, Finished, NEW p \in Processes, pc[p] = "checkpoint", NEW r \in seen[p],
         r[1] \in done[p] \/ ~batch[p].more
  PROVE  r \in saved \cup lost[p]
  <1>1. r[1] \in Channels
    BY DEF TypeOK, Records
  <1>2. r[1] \in done[p]
    BY <1>1 DEF Finished, LastPage
  <1> QED
    BY <1>2 DEF Finished, ReadOut, Handled

\* The watermark of a page is the last record of a channel.
BatchMark(p) ==
  pc[p] \in {"saving", "checkpoint"} =>
    \/ batch[p].next_from = None
    \/ \E c \in Channels : batch[p].next_from = last_real[p][c]

\* Every step keeps that.
LEMMA BatchMarkStep ==
  ASSUME TypeOK, [Next]_vars, NEW q \in Processes, BatchMark(q)
  PROVE  BatchMark(q)'
  <1>1. CASE /\ last_real'[q] = last_real[q]
             /\ \/ pc'[q] = pc[q] /\ batch'[q] = batch[q]
                \/ pc[q] = "saving" /\ pc'[q] = "checkpoint" /\ batch'[q] = batch[q]
                \/ batch'[q] = NoBatch
    BY <1>1 DEF BatchMark, NoBatch
  <1>2. CASE pc'[q] \in {"idle", "syncing", "reading"}
    BY <1>2 DEF BatchMark
  <1>3. ASSUME NEW p \in Processes, NEW c \in Channels, Fetch(p, c) PROVE BatchMark(q)'
    <2>1. CASE q = p
      BY <1>3, <2>1, FetchEffect DEF BatchMark
    <2>2. CASE q # p
      BY <1>1, <1>3, <2>2 DEF Fetch, Goto, TypeOK
    <2> QED
      BY <2>1, <2>2
  <1>4. ASSUME NEW p \in Processes, Start(p) \/ Request(p) PROVE BatchMark(q)'
    <2>1. CASE q = p
      BY <1>2, <1>4, <2>1 DEF Start, Request, Goto, TypeOK
    <2>2. CASE q # p
      BY <1>1, <1>4, <2>2 DEF Start, Request, Seed, Rewind, scanner, Goto, TypeOK
    <2> QED
      BY <2>1, <2>2
  <1>5. ASSUME NEW p \in Processes, Crash(p) PROVE BatchMark(q)'
    <2>1. CASE q = p
      BY <1>2, <1>5, <2>1 DEF Crash, Goto, TypeOK
    <2>2. CASE q # p
      BY <1>1, <1>5, <2>2 DEF Crash, Rewind, Goto, TypeOK
    <2> QED
      BY <2>1, <2>2
  <1>6. ASSUME NEW p \in Processes,
               \/ SyncFails(p) \/ FetchNothing(p) \/ FetchFails(p) \/ Save(p) \/ SaveFails(p)
               \/ Checkpoint(p) \/ CheckpointFails(p)
        PROVE  BatchMark(q)'
    <2>1. last_real' = last_real
      BY <1>6 DEF SyncFails, FetchNothing, FetchFails, Save, SaveFails, Checkpoint,
                  CheckpointFails, scanner
    <2>2. \/ pc'[q] = pc[q] /\ batch'[q] = batch[q]
          \/ pc[q] = "saving" /\ pc'[q] = "checkpoint" /\ batch'[q] = batch[q]
          \/ batch'[q] = NoBatch
          \/ pc'[q] \in {"idle", "reading"}
      BY <1>6 DEF SyncFails, FetchNothing, FetchFails, Save, SaveFails, Checkpoint,
                  CheckpointFails, Goto, TypeOK
    <2> QED
      BY <1>1, <1>2, <2>1, <2>2
  <1>7. ASSUME UNCHANGED <<pc, batch, scanner>> PROVE BatchMark(q)'
    BY <1>1, <1>7 DEF scanner
  <1>8. CASE \/ \E c \in Channels, t \in Times : Publish(c, t)
             \/ Reset \/ UNCHANGED vars
    BY <1>7, <1>8 DEF Publish, Reset, vars
  <1> QED
    BY <1>3, <1>4, <1>5, <1>6, <1>8 DEF Next, Worker

\* What a checkpoint leaves out, failed saves aside, is of a channel that still has
\* data and whose last record is behind the watermark.
MissedIsBehind ==
  \A p \in Processes :
    pc[p] = "checkpoint" =>
      \A r \in seen[p] :
        r[2] <= batch[p].next_from /\ r \notin saved \cup lost[p] =>
          r[1] \notin done[p] /\ last_real[p][r[1]] < batch[p].next_from

\* Nothing skipped and nothing left over: both follow.
LEMMA MissedShows ==
  ASSUME TypeOK, Scanned, Finished
  PROVE  MissedIsBehind
  <1> SUFFICES ASSUME NEW p \in Processes, pc[p] = "checkpoint", NEW r \in seen[p],
                      r[2] <= batch[p].next_from, r \notin saved \cup lost[p]
               PROVE  r[1] \notin done[p] /\ last_real[p][r[1]] < batch[p].next_from
    BY DEF MissedIsBehind
  <1>1. r[1] \notin done[p]
    BY FinishedShows
  <1>2. ~ (r[2] <= last_real[p][r[1]])
    BY DEF Scanned, NothingSkipped
  <1>3. /\ r[2] \in Nat /\ last_real[p][r[1]] \in Nat
        /\ batch[p].next_from \in Nat
    BY DEF TypeOK, Records, Timestamp, Times, None
  <1> QED
    BY <1>1, <1>2, <1>3

-----------------------------------------------------------------------------
(* A source with one channel whose calls do not fail: everything up to the  *)
(* watermark is imported, also by several processes at once, across crashes *)
(* and resets.                                                              *)

OneChannel == \A c, d \in Channels : c = d

\* A timestamp that is not ahead of what the channel published.
Reached(c, t) == t = None \/ \E u \in published[c] : t <= u

\* Every record of the channel up to t is in the table, or in B.
Covered(c, t, B) ==
  /\ Reached(c, t)
  /\ \A u \in published[c] : u <= t => <<c, u>> \in saved \cup B

\* The page a process is about to save.
Unsaved(p) == IF pc[p] = "saving" THEN batch[p].records ELSE {}

\* The watermark, the anchors and the cursors cover everything before them.
MarkCovered == \A c \in Channels : Covered(c, imported_until, {})
AnchorCovered(p) ==
  /\ anchor[p] # Unseeded => \A c \in Channels : Covered(c, anchor[p], {})
  /\ pc[p] = "syncing" => \A c \in Channels : Covered(c, from[p], {})
CursorsCovered(p) ==
  \A c \in Channels :
    /\ Covered(c, last_real[p][c], Unsaved(p))
    /\ anchor[p] # Unseeded /\ c \notin done[p] => Covered(c, next[p][c], Unsaved(p))

Complete ==
  /\ MarkCovered
  /\ \A p \in Processes : AnchorCovered(p) /\ CursorsCovered(p) /\ BatchMark(p)

\* What is covered stays covered: new records are past all earlier ones.
LEMMA CoveredStep ==
  ASSUME TypeOK, [Next]_vars, NEW c \in Channels, NEW t \in Timestamp, NEW B, NEW C,
         Covered(c, t, B), B \subseteq saved' \cup C
  PROVE  /\ t = None \/ \E u \in published'[c] : t <= u
         /\ \A u \in published'[c] : u <= t => <<c, u>> \in saved' \cup C
  <1>1. saved \subseteq saved'
    BY DEF Next, Worker, Start, SyncFails, Request, Fetch, FetchNothing, FetchFails, Save,
           SaveFails, Checkpoint, CheckpointFails, Crash, Publish, Reset, vars
  <1>2. published[c] \subseteq published'[c]
    BY PublishedGrows
  <1>3. ASSUME NEW u \in published'[c], u <= t PROVE u \in published[c]
    <2> SUFFICES ASSUME u \notin published[c] PROVE FALSE
      OBVIOUS
    <2>1. PICK d \in Channels, v \in Times : Publish(d, v)
      BY DEF Next, Worker, Start, SyncFails, Request, Fetch, FetchNothing, FetchFails, Save,
             SaveFails, Checkpoint, CheckpointFails, Crash, Reset, vars
    <2>2. u = v /\ d = c /\ \A w \in published[c] : w < u
      BY <2>1 DEF Publish, TypeOK
    <2>3. published[c] \in SUBSET Times
      BY DEF TypeOK
    <2> QED
      BY <1>3, <2>2, <2>3 DEF Covered, Reached, Timestamp, Times, None
  <1> QED
    BY <1>1, <1>2, <1>3 DEF Covered, Reached

\* A page covers the cursors it moves.
LEMMA CompleteFetch ==
  ASSUME TypeOK, Scanned, Anchored, Complete, OneChannel,
         NEW p \in Processes, NEW c \in Channels, Fetch(p, c)
  PROVE  (CursorsCovered(p) /\ BatchMark(p))'
  <1> DEFINE cur == next[p][c]
  <1>1. /\ published' = published /\ saved' = saved /\ anchor' = anchor
        /\ pc[p] = "reading" /\ c \notin done[p] /\ pc'[p] = "saving"
    BY DEF Fetch, Goto, TypeOK
  <1>2. /\ next'[p][c] = NextFrom(c, cur)
        /\ last_real'[p][c] = IF LastReal(c, cur) # None THEN LastReal(c, cur)
                                                         ELSE last_real[p][c]
        /\ done'[p] = IF Done(c, cur) THEN done[p] \cup {c} ELSE done[p]
        /\ batch'[p].records = {c} \X Page(c, cur)
        /\ \/ batch'[p].next_from = None
           \/ \E d \in Channels : /\ last_real'[p][d] # None
                                  /\ batch'[p].next_from = last_real'[p][d]
    BY FetchEffect
  <1>3. cur \in Timestamp /\ published[c] \in SUBSET Times
    BY DEF TypeOK
  <1>4. anchor[p] # Unseeded
    <2>1. anchor[p] = from[p] /\ from[p] \in Timestamp
      BY <1>1 DEF Anchored, OwnAnchor, TypeOK
    <2> QED
      BY <2>1, MaxTimeAssumption DEF Unseeded, Timestamp, Times, None
  <1>5. Unsaved(p) = {}
    BY <1>1 DEF Unsaved
  <1>6. Covered(c, cur, {}) /\ Covered(c, last_real[p][c], {})
    BY <1>1, <1>4, <1>5 DEF Complete, CursorsCovered
  <1>7. /\ LastReal(c, cur) \in Timestamp /\ NextFrom(c, cur) \in Timestamp
        /\ LastReal(c, cur) # None => LastReal(c, cur) \in published[c]
        /\ NextFrom(c, cur) # None => \E u \in published[c] : NextFrom(c, cur) <= u
        /\ \A t \in After(c, cur) :
             t <= LastReal(c, cur) \/ t <= NextFrom(c, cur) => t \in Page(c, cur)
    BY <1>3, LastRealFacts, NextFromFacts
  <1> HIDE DEF cur
  <1>8. \A t \in published[c] : t <= cur \/ t \in After(c, cur)
    BY <1>3 DEF After, Timestamp, Times, None
  <1>9. \A t \in {LastReal(c, cur), NextFrom(c, cur)} : Reached(c, t)
    BY <1>3, <1>7 DEF Reached, Times
  <1>10. \A t \in {LastReal(c, cur), NextFrom(c, cur)} :
           Covered(c, t, {c} \X Page(c, cur))
    BY <1>6, <1>7, <1>8, <1>9 DEF Covered
  <1>11. Unsaved(p)' = {c} \X Page(c, cur)
    BY <1>1, <1>2 DEF Unsaved
  <1>12. Covered(c, last_real[p][c], {c} \X Page(c, cur))
    BY <1>6 DEF Covered
  <1>13. Covered(c, last_real[p][c], Unsaved(p))' /\ Covered(c, next[p][c], Unsaved(p))'
    <2>1. Covered(c, last_real'[p][c], {c} \X Page(c, cur))
      BY <1>2, <1>10, <1>12
    <2>2. Covered(c, next'[p][c], {c} \X Page(c, cur))
      BY <1>2, <1>10
    <2> QED
      BY <1>1, <1>11, <2>1, <2>2 DEF Covered, Reached
  <1>14. CursorsCovered(p)'
    BY <1>13 DEF CursorsCovered, OneChannel
  <1>15. BatchMark(p)'
    BY <1>2 DEF BatchMark
  <1> QED
    BY <1>14, <1>15

\* A process whose scanner and batch stay, or that saved its page.
LEMMA CompleteFrame ==
  ASSUME TypeOK, [Next]_vars, NEW p \in Processes,
         AnchorCovered(p), CursorsCovered(p), BatchMark(p),
         anchor'[p] = anchor[p], next'[p] = next[p], last_real'[p] = last_real[p],
         done'[p] = done[p],
         \/ pc'[p] = pc[p] /\ from'[p] = from[p] /\ batch'[p] = batch[p]
         \/ /\ pc[p] = "saving" /\ pc'[p] = "checkpoint" /\ batch'[p] = batch[p]
            /\ batch[p].records \subseteq saved'
         \/ pc[p] # "saving" /\ pc'[p] = "checkpoint" /\ batch'[p] = NoBatch
         \/ pc[p] # "saving" /\ pc'[p] \in {"idle", "reading"}
  PROVE  (AnchorCovered(p) /\ CursorsCovered(p) /\ BatchMark(p))'
  <1>1. Unsaved(p) \subseteq saved' \cup Unsaved(p)'
    BY DEF Unsaved
  <1>2. \A c \in Channels : last_real[p][c] \in Timestamp /\ next[p][c] \in Timestamp
    BY DEF TypeOK
  <1>3. (anchor[p] # Unseeded => anchor[p] \in Timestamp) /\ from[p] \in Timestamp
    BY DEF TypeOK
  <1>4. \A c \in Channels, t \in Timestamp :
          Covered(c, t, {}) =>
            /\ t = None \/ \E u \in published'[c] : t <= u
            /\ \A u \in published'[c] : u <= t => <<c, u>> \in saved'
    BY CoveredStep
  <1>5. \A c \in Channels, t \in Timestamp :
          Covered(c, t, Unsaved(p)) =>
            /\ t = None \/ \E u \in published'[c] : t <= u
            /\ \A u \in published'[c] : u <= t => <<c, u>> \in saved' \cup Unsaved(p)'
    BY <1>1, CoveredStep
  <1>6. AnchorCovered(p)'
    BY <1>3, <1>4 DEF AnchorCovered, Covered, Reached
  <1>7. CursorsCovered(p)'
    BY <1>2, <1>5 DEF CursorsCovered, Covered, Reached
  <1>8. BatchMark(p)'
    BY DEF BatchMark, NoBatch
  <1> QED
    BY <1>6, <1>7, <1>8

\* A process whose scanner starts over at a covered anchor.
LEMMA CompleteRewind ==
  ASSUME TypeOK, [Next]_vars, NEW p \in Processes, NEW a \in Timestamp,
         Rewind(p, a), \A c \in Channels : Covered(c, a, {}),
         anchor'[p] \in {a, Unseeded}, pc'[p] \in {"idle", "reading"}
  PROVE  (AnchorCovered(p) /\ CursorsCovered(p) /\ BatchMark(p))'
  <1>1. \A d \in Channels : next'[p][d] = a /\ last_real'[p][d] = None
    BY RewindEffect
  <1>2. \A c \in Channels :
          /\ a = None \/ \E u \in published'[c] : a <= u
          /\ \A u \in published'[c] : u <= a => <<c, u>> \in saved'
    BY CoveredStep
  <1>3. published' \in [Channels -> SUBSET Times]
    BY TypeStep DEF TypeOK
  <1>4. AnchorCovered(p)'
    BY <1>2 DEF AnchorCovered, Covered, Reached
  <1>5. CursorsCovered(p)'
    BY <1>1, <1>2, <1>3 DEF CursorsCovered, Covered, Reached, Times, None
  <1>6. BatchMark(p)'
    BY DEF BatchMark
  <1> QED
    BY <1>4, <1>5, <1>6

\* Every step keeps the invariant.
LEMMA CompleteStep ==
  ASSUME TypeOK, Scanned, RealMarks, Anchored, Complete, [Next]_vars, OneChannel, ~CallsFail
  PROVE  Complete'
  <1>1. MarkCovered'
    <2>1. CASE imported_until' = imported_until
      BY <2>1, CoveredStep DEF Complete, MarkCovered, TypeOK, Covered, Reached
    <2>2. CASE imported_until' # imported_until
      <3>1. (\E p \in Processes : Checkpoint(p)) \/ Reset
        BY <2>2 DEF Next, Worker, Start, SyncFails, Request, Fetch, FetchNothing, FetchFails,
                    Save, SaveFails, CheckpointFails, Crash, Publish, vars
      <3>2. CASE Reset
        <4>1. imported_until' = None /\ published' = published
          BY <3>2 DEF Reset
        <4>2. published \in [Channels -> SUBSET Times]
          BY DEF TypeOK
        <4> QED
          BY <4>1, <4>2 DEF MarkCovered, Covered, Reached, Times, None
      <3>3. ASSUME NEW p \in Processes, Checkpoint(p) PROVE MarkCovered'
        <4>1. /\ imported_until' = batch[p].next_from /\ batch[p].next_from # None
              /\ pc[p] = "checkpoint" /\ published' = published /\ saved' = saved
          BY <2>2, <3>3 DEF Checkpoint
        <4>2. PICK d \in Channels : batch[p].next_from = last_real[p][d]
          BY <4>1 DEF Complete, BatchMark
        <4>3. \A c \in Channels : Covered(c, last_real[p][c], {})
          BY <4>1 DEF Complete, CursorsCovered, Unsaved
        <4>4. \A c \in Channels : Covered(c, imported_until', {})
          BY <4>1, <4>2, <4>3 DEF OneChannel
        <4> QED
          BY <4>1, <4>4 DEF MarkCovered, Covered, Reached
      <3> QED
        BY <3>1, <3>2, <3>3
    <2> QED
      BY <2>1, <2>2
  <1>2. ASSUME NEW q \in Processes
        PROVE  (AnchorCovered(q) /\ CursorsCovered(q) /\ BatchMark(q))'
    <2>0. AnchorCovered(q) /\ CursorsCovered(q) /\ BatchMark(q)
      BY DEF Complete
    <2>1. ASSUME NEW p \in Processes, Start(p)
          PROVE  (AnchorCovered(q) /\ CursorsCovered(q) /\ BatchMark(q))'
      <3>1. UNCHANGED <<published, saved, anchor, next, last_real, done, batch>>
        BY <2>1 DEF Start, scanner
      <3>2. CASE q # p
        <4>1. pc'[q] = pc[q] /\ from'[q] = from[q]
          BY <2>1, <3>2 DEF Start, Goto, TypeOK
        <4> QED
          BY <2>0, <3>1, <4>1, CompleteFrame
      <3>3. CASE q = p
        <4>1. pc[p] = "idle" /\ pc'[p] = "syncing" /\ from'[p] = imported_until
          BY <2>1 DEF Start, Goto, TypeOK
        <4>2. \A c \in Channels : Covered(c, imported_until, {})
          BY DEF Complete, MarkCovered
        <4>3. AnchorCovered(q)'
          BY <2>0, <3>1, <3>3, <4>1, <4>2 DEF AnchorCovered, Covered, Reached
        <4>4. Unsaved(q) = {} /\ Unsaved(q)' = {}
          BY <3>3, <4>1 DEF Unsaved
        <4>5. CursorsCovered(q)'
          BY <2>0, <3>1, <4>4 DEF CursorsCovered, Covered, Reached
        <4>6. BatchMark(q)'
          BY <3>3, <4>1 DEF BatchMark
        <4> QED
          BY <4>3, <4>5, <4>6
      <3> QED
        BY <3>2, <3>3
    <2>9. ASSUME NEW p \in Processes, Request(p)
          PROVE  (AnchorCovered(q) /\ CursorsCovered(q) /\ BatchMark(q))'
      <3>1. CASE q # p \/ UNCHANGED scanner
        <4>1. /\ anchor'[q] = anchor[q] /\ next'[q] = next[q]
              /\ last_real'[q] = last_real[q] /\ done'[q] = done[q]
          BY <2>9, <3>1 DEF Request, Seed, Rewind, scanner, TypeOK
        <4>2. \/ pc'[q] = pc[q] /\ from'[q] = from[q] /\ batch'[q] = batch[q]
              \/ pc[q] # "saving" /\ pc'[q] = "reading"
          BY <2>9 DEF Request, Goto, TypeOK
        <4> QED
          BY <2>0, <4>1, <4>2, CompleteFrame
      <3>2. CASE q = p /\ Seed(p, from[p])
        <4>1. from[p] \in Timestamp /\ Rewind(p, from[p])
          BY <3>2 DEF Seed, TypeOK
        <4>2. anchor'[p] = from[p] /\ pc'[p] = "reading"
          BY <2>9, <3>2 DEF Request, Seed, Goto, TypeOK
        <4>3. \A c \in Channels : Covered(c, from[p], {})
          BY <2>0, <2>9, <3>2 DEF AnchorCovered, Request
        <4> QED
          BY <3>2, <4>1, <4>2, <4>3, CompleteRewind
      <3> QED
        BY <2>9, <3>1, <3>2 DEF Request
    <2>2. ASSUME NEW p \in Processes, NEW c \in Channels, Fetch(p, c)
          PROVE  (AnchorCovered(q) /\ CursorsCovered(q) /\ BatchMark(q))'
      <3>1. CASE q # p
        <4>1. /\ anchor'[q] = anchor[q] /\ next'[q] = next[q]
              /\ last_real'[q] = last_real[q] /\ done'[q] = done[q]
              /\ pc'[q] = pc[q] /\ from'[q] = from[q] /\ batch'[q] = batch[q]
          BY <2>2, <3>1 DEF Fetch, Goto, TypeOK
        <4> QED
          BY <2>0, <4>1, CompleteFrame
      <3>2. CASE q = p
        <4>1. UNCHANGED <<published, saved, anchor, from>> /\ pc'[q] = "saving"
          BY <2>2, <3>2, FetchEffect DEF TypeOK
        <4>2. AnchorCovered(q)'
          BY <2>0, <4>1 DEF AnchorCovered, Covered, Reached
        <4> QED
          BY <2>2, <3>2, <4>2, CompleteFetch
      <3> QED
        BY <3>1, <3>2
    <2>3. ASSUME NEW p \in Processes, FetchNothing(p) \/ Save(p) \/ Checkpoint(p)
          PROVE  (AnchorCovered(q) /\ CursorsCovered(q) /\ BatchMark(q))'
      <3>1. UNCHANGED <<anchor, next, last_real, done>>
        BY <2>3 DEF FetchNothing, Save, Checkpoint, scanner
      <3>2. \/ pc'[q] = pc[q] /\ from'[q] = from[q] /\ batch'[q] = batch[q]
            \/ /\ pc[q] = "saving" /\ pc'[q] = "checkpoint" /\ batch'[q] = batch[q]
               /\ batch[q].records \subseteq saved'
            \/ pc[q] # "saving" /\ pc'[q] = "checkpoint" /\ batch'[q] = NoBatch
            \/ pc[q] # "saving" /\ pc'[q] \in {"idle", "reading"}
        BY <2>3 DEF FetchNothing, Save, Checkpoint, Goto, TypeOK
      <3> QED
        BY <2>0, <3>1, <3>2, CompleteFrame
    <2>4. ASSUME NEW p \in Processes, Crash(p)
          PROVE  (AnchorCovered(q) /\ CursorsCovered(q) /\ BatchMark(q))'
      <3>1. Rewind(p, None) /\ None \in Timestamp
        BY <2>4 DEF Crash, Timestamp
      <3>2. CASE q # p
        <4>1. next'[q] = next[q] /\ last_real'[q] = last_real[q] /\ done'[q] = done[q]
          BY <3>1, <3>2, RewindEffect
        <4>2. /\ anchor'[q] = anchor[q] /\ pc'[q] = pc[q] /\ batch'[q] = batch[q]
              /\ from'[q] = from[q]
          BY <2>4, <3>2 DEF Crash, Goto, TypeOK
        <4> QED
          BY <2>0, <4>1, <4>2, CompleteFrame
      <3>3. CASE q = p
        <4>1. pc'[p] = "idle" /\ anchor'[p] = Unseeded
          BY <2>4 DEF Crash, Goto, TypeOK
        <4>2. \A c \in Channels : Covered(c, None, {})
          BY DEF Covered, Reached, TypeOK, Times, None
        <4> QED
          BY <3>1, <3>3, <4>1, <4>2, CompleteRewind
      <3> QED
        BY <3>2, <3>3
    <2>5. ASSUME UNCHANGED <<pc, from, batch, scanner>>
          PROVE  (AnchorCovered(q) /\ CursorsCovered(q) /\ BatchMark(q))'
      BY <2>0, <2>5, CompleteFrame DEF scanner
    <2>6. ASSUME NEW c \in Channels, NEW t \in Times, Publish(c, t)
          PROVE  (AnchorCovered(q) /\ CursorsCovered(q) /\ BatchMark(q))'
      BY <2>5, <2>6 DEF Publish
    <2>7. CASE Reset \/ UNCHANGED vars
      BY <2>5, <2>7 DEF Reset, vars
    <2>8. ASSUME NEW p \in Processes,
                 SyncFails(p) \/ FetchFails(p) \/ SaveFails(p) \/ CheckpointFails(p)
          PROVE  FALSE
      BY <2>8 DEF SyncFails, FetchFails, SaveFails, CheckpointFails
    <2> QED
      BY <2>1, <2>2, <2>3, <2>4, <2>6, <2>7, <2>8, <2>9 DEF Next, Worker
  <1> QED
    BY <1>1, <1>2 DEF Complete


-----------------------------------------------------------------------------
(* The theorems.                                                           *)

\* Every variable keeps its type.
THEOREM ImportTypes == Spec => []TypeOK
  <1> QED
    BY InitType, TypeStep, PTL DEF Spec

\* Initially no scanner read anything.
LEMMA InitScanned == Init => Scanned
  BY DEF Init, Scanned, Cursors, InReach, NothingSkipped, None

\* Pages cut short and skipped gaps leave no record out that was in reach.
THEOREM NothingIsSkipped == Spec => []NothingSkipped
  <1>1. Scanned => NothingSkipped
    BY DEF Scanned
  <1> QED
    BY <1>1, InitType, InitScanned, TypeStep, ScannedStep, PTL DEF Spec

\* Initially every scanner is unseeded.
LEMMA InitAnchored == Init => Anchored
  BY DEF Init, Anchored, OwnAnchor, PastAnchor, PastFrom

\* The source implements its feed: only records of the provider are stored, and
\* watermarks are times of records past the run's anchor, whatever fails, dies or
\* runs at the same time.
THEOREM FeedRefinement == Spec => FeedProtocol
  <1>1. Init => RealMarks /\ PagesServed
    BY DEF Init, RealMarks, RealBatches, RealWatermark, PagesServed, NoBatch, None
  <1>2. Init => Feed!Init
    BY DEF Init, Feed!Init
  <1>3. TypeOK /\ PagesServed /\ RealMarks /\ Anchored /\ [Next]_vars
          => [Feed!Next]_Feed!feedVars
    BY FeedStep DEF Feed!feedVars, Served, Running, Anchors
  <1> QED
    BY <1>1, <1>2, <1>3, InitType, InitScanned, InitAnchored, TypeStep, ScannedStep,
       RealStep, AnchoredStep, PagesServedStep, PTL DEF Spec, FeedProtocol, Feed!Spec

\* Initially nothing was read.
LEMMA InitFinished == Init => Finished
  BY DEF Init, Finished, ReadOut, LastPage

\* A run that has read all its channels has imported what was in reach of it.
THEOREM FinishedRunsAreComplete == Spec => []FinishedRunIsComplete
  <1>1. TypeOK /\ Finished => FinishedRunIsComplete
    BY FinishedShows DEF FinishedRunIsComplete
  <1> QED
    BY <1>1, InitType, InitScanned, InitFinished, TypeStep, ScannedStep, FinishedStep,
       PTL DEF Spec

\* What a checkpoint leaves out is of a channel the watermark is ahead of.
THEOREM OnlySlowChannelsMiss == Spec => []MissedIsBehind
  <1>1. TypeOK /\ Scanned /\ Finished => MissedIsBehind
    BY MissedShows
  <1> QED
    BY <1>1, InitType, InitScanned, InitFinished, TypeStep, ScannedStep, FinishedStep,
       PTL DEF Spec

\* With one channel the watermark of every page is safe, as provider_port.rs says:
\* no channel is ahead of another.
THEOREM OneChannelIsSafe ==
  ASSUME OneChannel
  PROVE  Spec => []SafeWatermark
  <1> DEFINE Marks == \A p \in Processes : BatchMark(p)
  <1>1. Init => Marks
    BY DEF Init, BatchMark
  <1>2. TypeOK /\ Marks /\ [Next]_vars => Marks'
    BY BatchMarkStep
  <1>3. TypeOK /\ MissedIsBehind /\ Marks => SafeWatermark
    <2> SUFFICES ASSUME TypeOK, MissedIsBehind, Marks,
                        NEW p \in Processes, pc[p] = "checkpoint",
                        NEW r \in seen[p], r[2] <= batch[p].next_from
                 PROVE  r \in saved \cup lost[p]
      BY DEF SafeWatermark
    <2>1. r[1] \in Channels /\ r[2] \in Times
      BY DEF TypeOK, Records
    <2>2. batch[p].next_from # None
      BY <2>1 DEF Times, None
    <2>3. PICK c \in Channels : batch[p].next_from = last_real[p][c]
      BY <2>2 DEF BatchMark
    <2>4. batch[p].next_from = last_real[p][r[1]]
      BY <2>1, <2>3 DEF OneChannel
    <2>5. batch[p].next_from \in Nat
      BY DEF TypeOK, Timestamp, Times, None
    <2> QED
      BY <2>4, <2>5 DEF MissedIsBehind
  <1> HIDE DEF Marks
  <1> QED
    BY <1>1, <1>2, <1>3, OnlySlowChannelsMiss, ImportTypes, InitType, TypeStep, PTL DEF Spec

\* Initially nothing is published.
LEMMA InitComplete == Init => Complete
  BY DEF Init, Complete, MarkCovered, AnchorCovered, CursorsCovered, BatchMark,
         Covered, Reached

\* With one channel and calls that do not fail, every record up to the watermark
\* is in the table, also with several processes at once, crashes and resets.
THEOREM OneChannelIsComplete ==
  ASSUME OneChannel, ~CallsFail
  PROVE  Spec => []EverythingImported
  <1>1. Init => RealMarks
    BY DEF Init, RealMarks, RealBatches, RealWatermark, NoBatch, None
  <1>2. TypeOK /\ Scanned /\ RealMarks /\ Anchored /\ Complete /\ [Next]_vars => Complete'
    BY CompleteStep
  <1>3. Complete => EverythingImported
    BY DEF Complete, MarkCovered, Covered, EverythingImported
  <1> QED
    BY <1>1, <1>2, <1>3, InitType, InitScanned, InitAnchored, InitComplete, TypeStep,
       ScannedStep, RealStep, AnchoredStep, PTL DEF Spec
=============================================================================
