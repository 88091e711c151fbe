-------------------------- MODULE ChainReplayProofs --------------------------
(***************************************************************************)
(* Proofs about ChainReplay, for any number of workers, any block bodies   *)
(* and any bounds.  Each step of a worker, the chain or the environment    *)
(* preserves IndInv; the properties follow from IndInv, the last two from  *)
(* IndInv and CursorKnown when there is one worker.                        *)
(***************************************************************************)
EXTENDS ChainReplay, TLAPS

\* The coordinates of a position
LEMMA PositionPair ==
    \A e \in Position : e[1] \in Nat /\ e[2] \in Nat /\ e = <<e[1], e[2]>>
BY DEF Position

\* A block is a list of event kinds
LEMMA BodyIsSeq ==
    ASSUME TypeOK
    PROVE  /\ Len(chain) \in Nat
           /\ \A n \in 1..Len(chain) : chain[n] \in Seq(Kinds) /\ Len(chain[n]) \in Nat
<1>1. chain \in Seq(Bodies) /\ Bodies \subseteq Seq(Kinds)
    BY ReplayAssumption DEF TypeOK
<1>2. \A n \in 1..Len(chain) : chain[n] \in Bodies
    BY <1>1
<1> QED
    BY <1>1, <1>2

\* The events of a finalized block
LEMMA EventsOfIff ==
    ASSUME TypeOK, NEW n \in 1..Len(chain), NEW e
    PROVE  e \in EventsOf(n) <=> e \in Position /\ e[1] = n /\ e[2] < Len(chain[n])
<1>1. Len(chain[n]) \in Nat
  BY BodyIsSeq
<1>2. ASSUME e \in EventsOf(n)
      PROVE  e \in Position /\ e[1] = n /\ e[2] < Len(chain[n])
  <2>1. PICK i \in 1..Len(chain[n]) : e = <<n, i - 1>>
    BY <1>2 DEF EventsOf
  <2> QED
    BY <1>1, <2>1 DEF Position
<1>3. ASSUME e \in Position, e[1] = n, e[2] < Len(chain[n])
      PROVE  e \in EventsOf(n)
  <2>1. e[2] + 1 \in 1..Len(chain[n])
    BY <1>1, <1>3 DEF Position
  <2>2. e = <<n, (e[2] + 1) - 1>>
    BY <1>3 DEF Position
  <2> QED
    BY <2>1, <2>2 DEF EventsOf
<1> QED
  BY <1>2, <1>3

\* What the set Supported contains, in terms of the two coordinates of a position
LEMMA SupportedIff ==
    TypeOK => \A e : e \in Supported <=>
                        /\ e \in Position
                        /\ e[1] \in 1..Len(chain)
                        /\ e[2] < Len(chain[e[1]])
                        /\ KindOf(e) = "supported"
<1> SUFFICES ASSUME TypeOK, NEW e
             PROVE  e \in Supported <=>
                        /\ e \in Position
                        /\ e[1] \in 1..Len(chain)
                        /\ e[2] < Len(chain[e[1]])
                        /\ KindOf(e) = "supported"
  OBVIOUS
<1>1. \A n \in 1..Len(chain) :
        e \in EventsOf(n) <=> e \in Position /\ e[1] = n /\ e[2] < Len(chain[n])
  BY EventsOfIff
<1> QED
  BY <1>1 DEF Supported

\* The same in the next state
LEMMA SupportedIffNext ==
    (TypeOK => \A e : e \in Supported <=>
                        /\ e \in Position
                        /\ e[1] \in 1..Len(chain)
                        /\ e[2] < Len(chain[e[1]])
                        /\ KindOf(e) = "supported")'
BY SupportedIff, PTL

\* A step that leaves the chain alone and forgets nothing keeps what is supported
\* and what is covered
LEMMA Grows ==
    ASSUME chain' = chain,
           chain_events \subseteq chain_events',
           missed \subseteq missed',
           dropped \subseteq dropped'
    PROVE  /\ Supported' = Supported
           /\ \A e : Covered(e) => Covered(e)'
BY DEF Supported, EventsOf, KindOf, Covered

\* The initial state: an empty chain and empty tables
LEMMA InitInv == Init => IndInv
<1> SUFFICES ASSUME Init PROVE IndInv
  OBVIOUS
<1>1. TypeOK
  BY DEF Init, TypeOK, Position, PC
<1>2. Supported = {}
  BY DEF Init, Supported
<1>3. LocalShape /\ CursorShape
  BY <1>2 DEF Init, LocalShape, CursorShape
<1> QED
  BY <1>1, <1>2, <1>3 DEF IndInv, Init, MirrorIsFinalized, CursorOnRecorded, AllCovered,
    CoveredUpTo

\* A new block adds events only after everything the workers have reached
LEMMA FinalizeBlockInv ==
    ASSUME IndInv, FinalizeBlock
    PROVE  IndInv'
<1> USE DEF dbVars, lossVars, localVars
<1>0. PICK b \in Bodies : chain' = Append(chain, b)
  BY DEF FinalizeBlock
<1>1. TypeOK'
  BY <1>0 DEF IndInv, FinalizeBlock, TypeOK
<1>2. /\ Len(chain) \in Nat /\ Len(chain') = Len(chain) + 1
      /\ \A n \in 1..Len(chain) : chain'[n] = chain[n]
  BY <1>0 DEF IndInv, TypeOK
<1>3. \A e \in Supported : e \in Position /\ e[1] \in 1..Len(chain) /\ e \in Supported'
  BY <1>1, <1>2, SupportedIff, SupportedIffNext DEF IndInv, KindOf
<1>4. \A e \in Supported' : e \in Position /\ (e \in Supported \/ e[1] = Len(chain) + 1)
  BY <1>1, <1>2, SupportedIff, SupportedIffNext DEF IndInv, KindOf
<1>5. (MirrorIsFinalized /\ CursorOnRecorded)'
  BY <1>3 DEF IndInv, FinalizeBlock, MirrorIsFinalized, CursorOnRecorded
<1>6. LocalShape'
  BY <1>2, <1>3 DEF IndInv, FinalizeBlock, TypeOK, LocalShape, Event
<1>7. CursorShape'
  BY DEF IndInv, FinalizeBlock, CursorShape, Advanced, AtOrBefore
<1>8. AllCovered'
  <2>1. \A c \in {<<0, 0>>} \cup chain_events : c[1] \in Nat /\ c[1] <= Len(chain)
    BY <1>2, <1>3 DEF IndInv, MirrorIsFinalized
  <2>2. \A c \in {<<0, 0>>} \cup chain_events : CoveredUpTo(c) => CoveredUpTo(c)'
    BY <1>2, <1>4, <2>1 DEF FinalizeBlock, CoveredUpTo, AtOrBefore, Covered
  <2>3. (cursor # None => CoveredUpTo(cursor))'
    BY <2>2 DEF IndInv, FinalizeBlock, CursorOnRecorded, AllCovered
  <2>4. ASSUME NEW r \in Replicas PROVE CoveredUpTo(last_cursor[r])'
    BY <2>2 DEF IndInv, FinalizeBlock, CursorShape, AllCovered
  <2>5. ASSUME NEW r \in Replicas, NEW e \in Supported', Behind(r, e)' PROVE Covered(e)'
    BY <1>2, <1>4, <2>5 DEF IndInv, FinalizeBlock, TypeOK, AllCovered, LocalShape,
      Behind, Covered,
        Position
  <2> QED
    BY <2>3, <2>4, <2>5 DEF AllCovered
<1> QED
  BY <1>1, <1>5, <1>6, <1>7, <1>8 DEF IndInv

\* AllCovered, for a step of worker r that leaves the chain alone, forgets nothing
\* and writes no local of another worker
LEMMA CoverStep ==
    ASSUME NEW r \in Replicas, AllCovered,
           Supported' = Supported,
           \A e : Covered(e) => Covered(e)',
           \A q \in Replicas : q # r =>
                /\ pc'[q] = pc[q] /\ next'[q] = next[q] /\ block'[q] = block[q]
                /\ idx'[q] = idx[q] /\ last_cursor'[q] = last_cursor[q],
           cursor' # None => CoveredUpTo(cursor'),
           CoveredUpTo(last_cursor'[r]),
           \A e \in Supported : Behind(r, e)' => Covered(e)'
    PROVE  AllCovered'
BY DEF AllCovered, CoveredUpTo, Behind

\* An event in hand that is_supported accepts
LEMMA InHandSupported ==
    ASSUME NEW r \in Replicas, TypeOK, LocalShape, HasEvent(r), KindOf(Event(r)) = "supported"
    PROVE  Event(r) \in Supported
<1>1. Event(r) \in Position /\ Event(r)[1] = block[r] /\ Event(r)[2] = idx[r]
  BY DEF TypeOK, Event, Position
<1>2. block[r] \in 1..Len(chain)
  BY DEF HasEvent, LocalShape
<1> QED
  BY <1>1, <1>2, SupportedIff DEF HasEvent

\* What is flushed: a mirrored event up to which everything is covered
LEMMA FlushCovered ==
    ASSUME NEW r \in Replicas, IndInv, pc[r] = "flush"
    PROVE  max_cursor[r] \in chain_events /\ CoveredUpTo(max_cursor[r])
<1>1. /\ Advanced(r)
      /\ max_cursor[r] = last_cursor[r] \/ max_cursor[r][1] = block[r]
      /\ max_cursor[r] \in {<<0, 0>>} \cup chain_events
  BY DEF IndInv, CursorShape
<1>2. last_cursor[r] \in Position /\ max_cursor[r] \in Position
  BY DEF IndInv, TypeOK
<1>3. max_cursor[r] # <<0, 0>> /\ max_cursor[r] # last_cursor[r]
  BY <1>1, <1>2, PositionPair DEF Advanced, AtOrBefore
<1>4. ASSUME NEW e \in Supported, AtOrBefore(e, max_cursor[r])
      PROVE  Covered(e)
  <2>1. next[r] = block[r] + 1 /\ block[r] \in Nat
    BY DEF IndInv, TypeOK, LocalShape
  <2>2. e[1] \in Nat
    BY SupportedIff, PositionPair DEF IndInv
  <2>3. e[1] < next[r]
    BY <1>1, <1>3, <1>4, <2>1, <2>2 DEF AtOrBefore
  <2> QED
    BY <2>3 DEF IndInv, AllCovered, Behind
<1> QED
  BY <1>1, <1>3, <1>4 DEF CoveredUpTo

\* Nothing is in hand before the subscription
LEMMA ConnectInv ==
    ASSUME NEW r \in Replicas, IndInv, Connect(r)
    PROVE  IndInv'
<1> USE DEF Connect, dbVars, lossVars, localVars, Goto
<1>0. /\ Supported' = Supported
      /\ \A e : Covered(e) => Covered(e)'
  BY Grows
<1>1. TypeOK'
  BY DEF IndInv, TypeOK, PC
<1>2. (MirrorIsFinalized /\ CursorOnRecorded)'
  BY <1>0 DEF IndInv, MirrorIsFinalized, CursorOnRecorded
<1>3. LocalShape'
  BY <1>0 DEF IndInv, TypeOK, LocalShape, Event
<1>4. CursorShape'
  BY DEF IndInv, TypeOK, CursorShape, Advanced
<1>5. AllCovered'
  BY <1>0, CoverStep DEF IndInv, TypeOK, AllCovered, Behind
<1> QED
  BY <1>1, <1>2, <1>3, <1>4, <1>5 DEF IndInv

\* What the subscription will not deliver is counted as missed
LEMMA SubscribeInv ==
    ASSUME NEW r \in Replicas, IndInv, Subscribe(r)
    PROVE  IndInv'
<1> USE DEF Subscribe, dbVars, lossVars, localVars, Goto
<1>0. /\ Supported' = Supported
      /\ \A e : Covered(e) => Covered(e)'
  BY Grows
<1>s. \A e \in Supported :
        e \in Position /\ e[1] \in Nat /\ e[2] \in Nat /\ e[1] \in 1..Len(chain)
  BY SupportedIff, PositionPair DEF IndInv
<1>1. TypeOK'
  BY <1>s DEF IndInv, TypeOK, PC, Lost
<1>2. (MirrorIsFinalized /\ CursorOnRecorded)'
  BY <1>0 DEF IndInv, MirrorIsFinalized, CursorOnRecorded
<1>3. LocalShape'
  BY <1>0 DEF IndInv, TypeOK, LocalShape, Event
<1>4. CursorShape'
  BY DEF IndInv, TypeOK, CursorShape, Advanced
<1>5. AllCovered'
  <2>1. ASSUME NEW e \in Supported, Behind(r, e)'
        PROVE  Covered(e)'
    <3>1. e[1] \in 1..Len(chain) - 1
      BY <1>s, <2>1 DEF IndInv, TypeOK, Behind
    <3>2. e \in EventsOf(e[1])
      BY EventsOfIff, SupportedIff DEF IndInv
    <3> QED
      BY <3>1, <3>2 DEF Covered, Lost
  <2> QED
    BY <2>1, <1>0, CoverStep DEF IndInv, TypeOK, AllCovered
<1> QED
  BY <1>1, <1>2, <1>3, <1>4, <1>5 DEF IndInv

\* The cursor in the table is covered
LEMMA LoadCursorInv ==
    ASSUME NEW r \in Replicas, IndInv, LoadCursor(r)
    PROVE  IndInv'
<1> USE DEF LoadCursor, dbVars, lossVars, localVars, Goto
<1>0. /\ Supported' = Supported
      /\ \A e : Covered(e) => Covered(e)'
  BY Grows
<1>s. \A e \in Supported :
        e \in Position /\ e[1] \in Nat /\ e[2] \in Nat /\ e[1] \in 1..Len(chain)
  BY SupportedIff, PositionPair DEF IndInv
<1>1. TypeOK'
  BY PositionPair DEF IndInv, TypeOK, PC, Position
<1>2. (MirrorIsFinalized /\ CursorOnRecorded)'
  BY <1>0 DEF IndInv, MirrorIsFinalized, CursorOnRecorded
<1>3. LocalShape'
  BY <1>0 DEF IndInv, TypeOK, LocalShape, Event
<1>4. CursorShape'
  BY DEF IndInv, TypeOK, CursorShape, CursorOnRecorded, Advanced
<1>5. AllCovered'
  <2>1. ASSUME NEW e \in Supported, Behind(r, e)'
        PROVE  Covered(e)'
    BY <1>0, <2>1 DEF IndInv, TypeOK, AllCovered, Behind
  <2>2. CoveredUpTo(last_cursor'[r])
    BY <1>s DEF IndInv, TypeOK, AllCovered, CoveredUpTo, AtOrBefore
  <2> QED
    BY <2>1, <2>2, <1>0, CoverStep DEF IndInv, TypeOK, AllCovered
<1> QED
  BY <1>1, <1>2, <1>3, <1>4, <1>5 DEF IndInv

\* The block in hand is the next one
LEMMA NextBlockInv ==
    ASSUME NEW r \in Replicas, IndInv, NextBlock(r)
    PROVE  IndInv'
<1> USE DEF NextBlock, dbVars, lossVars, localVars, Goto
<1>0. /\ Supported' = Supported
      /\ \A e : Covered(e) => Covered(e)'
  BY Grows
<1>1. TypeOK'
  BY DEF IndInv, TypeOK, PC
<1>2. (MirrorIsFinalized /\ CursorOnRecorded)'
  BY <1>0 DEF IndInv, MirrorIsFinalized, CursorOnRecorded
<1>3. LocalShape'
  BY <1>0 DEF IndInv, TypeOK, LocalShape, Event
<1>4. CursorShape'
  BY DEF IndInv, TypeOK, CursorShape, Advanced
<1>5. AllCovered'
  BY <1>0, CoverStep DEF IndInv, TypeOK, AllCovered, Behind
<1> QED
  BY <1>1, <1>2, <1>3, <1>4, <1>5 DEF IndInv

\* The events of the block are read from the first
LEMMA FetchEventsInv ==
    ASSUME NEW r \in Replicas, IndInv, FetchEvents(r)
    PROVE  IndInv'
<1> USE DEF FetchEvents, dbVars, lossVars, localVars, Goto
<1>0. /\ Supported' = Supported
      /\ \A e : Covered(e) => Covered(e)'
  BY Grows
<1>s. \A e \in Supported :
        e \in Position /\ e[1] \in Nat /\ e[2] \in Nat /\ e[1] \in 1..Len(chain)
  BY SupportedIff, PositionPair DEF IndInv
<1>1. TypeOK'
  BY DEF IndInv, TypeOK, PC
<1>2. (MirrorIsFinalized /\ CursorOnRecorded)'
  BY <1>0 DEF IndInv, MirrorIsFinalized, CursorOnRecorded
<1>3. LocalShape'
  BY <1>0 DEF IndInv, TypeOK, LocalShape, Event
<1>4. CursorShape'
  BY DEF IndInv, TypeOK, CursorShape, Advanced
<1>5. AllCovered'
  <2>1. ASSUME NEW e \in Supported, Behind(r, e)'
        PROVE  Covered(e)'
    BY <1>0, <1>s, <2>1 DEF IndInv, TypeOK, AllCovered, Behind
  <2> QED
    BY <2>1, <1>0, CoverStep DEF IndInv, TypeOK, AllCovered
<1> QED
  BY <1>1, <1>2, <1>3, <1>4, <1>5 DEF IndInv

\* A skipped event is covered or not supported
LEMMA SkipEventInv ==
    ASSUME NEW r \in Replicas, IndInv, SkipEvent(r)
    PROVE  IndInv'
<1> USE DEF SkipEvent, dbVars, lossVars, localVars, Goto
<1>0. /\ Supported' = Supported
      /\ \A e : Covered(e) => Covered(e)'
  BY Grows
<1>s. \A e \in Supported :
        e \in Position /\ e[1] \in Nat /\ e[2] \in Nat /\ e[1] \in 1..Len(chain)
  BY SupportedIff, PositionPair DEF IndInv
<1>1. TypeOK'
  BY DEF IndInv, TypeOK, PC
<1>2. (MirrorIsFinalized /\ CursorOnRecorded)'
  BY <1>0 DEF IndInv, MirrorIsFinalized, CursorOnRecorded
<1>3. LocalShape'
  <2>1. idx[r] + 1 <= Len(chain[block[r]])
    <3>1. block[r] \in 1..Len(chain) /\ idx[r] \in Nat
      BY DEF IndInv, TypeOK, LocalShape, HasEvent
    <3> QED
      BY <3>1, BodyIsSeq DEF IndInv, HasEvent
  <2> QED
    BY <1>0, <2>1 DEF IndInv, TypeOK, LocalShape, HasEvent, Event
<1>4. CursorShape'
  <2>1. max_cursor[r][2] \in Nat /\ idx[r] \in Nat
    BY PositionPair DEF IndInv, TypeOK
  <2>2. max_cursor[r][2] < idx[r] => max_cursor[r][2] < idx'[r]
    BY <2>1 DEF IndInv, TypeOK
  <2>3. \A q \in Replicas : q # r => idx'[q] = idx[q]
    BY SMT DEF IndInv, TypeOK
  <2> QED
    BY <2>2, <2>3 DEF IndInv, CursorShape, HasEvent, Advanced
<1>5. AllCovered'
  <2>1. ASSUME NEW e \in Supported, Behind(r, e)'
        PROVE  Covered(e)'
    <3>1. e[1] = block[r] /\ e[2] = idx[r] => e = Event(r)
      BY <1>s, PositionPair DEF Event
    <3>2. Behind(r, e) \/ e = Event(r)
      BY <1>s, <2>1, <3>1 DEF IndInv, TypeOK, Behind, HasEvent
    <3>3. e = Event(r) => Seen(r)
      BY SupportedIff DEF IndInv
    <3> QED
      BY <1>0, <3>2, <3>3 DEF IndInv, AllCovered, CoveredUpTo, Seen
  <2> QED
    BY <2>1, <1>0, CoverStep DEF IndInv, TypeOK, AllCovered
<1> QED
  BY <1>1, <1>2, <1>3, <1>4, <1>5 DEF IndInv

\* The handler runs on a supported event
LEMMA ApplyEventInv ==
    ASSUME NEW r \in Replicas, IndInv, ApplyEvent(r)
    PROVE  IndInv'
<1> USE DEF ApplyEvent, dbVars, lossVars, localVars, Goto
<1>0. /\ Supported' = Supported
      /\ \A e : Covered(e) => Covered(e)'
  BY Grows
<1>s. \A e \in Supported :
        e \in Position /\ e[1] \in Nat /\ e[2] \in Nat /\ e[1] \in 1..Len(chain)
  BY SupportedIff, PositionPair DEF IndInv
<1>e. Event(r) \in Supported
  BY InHandSupported DEF IndInv
<1>1. TypeOK'
  BY <1>e, <1>s DEF IndInv, TypeOK, PC
<1>2. (MirrorIsFinalized /\ CursorOnRecorded)'
  BY <1>0, <1>e DEF IndInv, MirrorIsFinalized, CursorOnRecorded
<1>3. LocalShape'
  BY <1>0, <1>e DEF IndInv, TypeOK, LocalShape, Event, HasEvent
<1>4. CursorShape'
  BY DEF IndInv, TypeOK, CursorShape, HasEvent, Advanced
<1>5. AllCovered'
  <2>1. ASSUME NEW e \in Supported, Behind(r, e)'
        PROVE  Covered(e)'
    BY <1>0, <2>1 DEF IndInv, TypeOK, AllCovered, Behind, HasEvent
  <2> QED
    BY <2>1, <1>0, CoverStep DEF IndInv, TypeOK, AllCovered
<1> QED
  BY <1>1, <1>2, <1>3, <1>4, <1>5 DEF IndInv

\* The event left behind is mirrored
LEMMA RecordChainEventInv ==
    ASSUME NEW r \in Replicas, IndInv, RecordChainEvent(r)
    PROVE  IndInv'
<1> USE DEF RecordChainEvent, dbVars, lossVars, localVars, Goto
<1>0. /\ Supported' = Supported
      /\ \A e : Covered(e) => Covered(e)'
  BY Grows
<1>s. \A e \in Supported :
        e \in Position /\ e[1] \in Nat /\ e[2] \in Nat /\ e[1] \in 1..Len(chain)
  BY SupportedIff, PositionPair DEF IndInv
<1>e. /\ Event(r) \in Supported \cap applied /\ Event(r) \in Position
      /\ Event(r)[1] = block[r] /\ Event(r)[2] = idx[r]
  BY DEF IndInv, TypeOK, LocalShape, Event, Position
<1>1. TypeOK'
  BY <1>e DEF IndInv, TypeOK, PC
<1>2. (MirrorIsFinalized /\ CursorOnRecorded)'
  BY <1>0, <1>e DEF IndInv, MirrorIsFinalized, CursorOnRecorded
<1>3. LocalShape'
  <2>1. idx[r] + 1 <= Len(chain[block[r]])
    <3>1. block[r] \in 1..Len(chain) /\ idx[r] \in Nat /\ idx[r] < Len(chain[block[r]])
      BY <1>e, SupportedIff DEF IndInv, TypeOK
    <3> QED
      BY <3>1, BodyIsSeq DEF IndInv
  <2> QED
    BY <1>0, <2>1 DEF IndInv, TypeOK, LocalShape, Event
<1>4. CursorShape'
  BY <1>e DEF IndInv, TypeOK, CursorShape, Advanced
<1>5. AllCovered'
  <2>1. ASSUME NEW e \in Supported, Behind(r, e)'
        PROVE  Covered(e)'
    <3>1. e[1] = block[r] /\ e[2] = idx[r] => e = Event(r)
      BY <1>s, PositionPair DEF Event
    <3>2. Behind(r, e) \/ e = Event(r)
      BY <1>s, <2>1, <3>1 DEF IndInv, TypeOK, Behind
    <3> QED
      BY <1>0, <3>2 DEF IndInv, AllCovered, Covered
  <2> QED
    BY <2>1, <1>0, CoverStep DEF IndInv, TypeOK, AllCovered
<1> QED
  BY <1>1, <1>2, <1>3, <1>4, <1>5 DEF IndInv

\* Every event of the block is behind
LEMMA EndBlockInv ==
    ASSUME NEW r \in Replicas, IndInv, EndBlock(r)
    PROVE  IndInv'
<1> USE DEF EndBlock, dbVars, lossVars, localVars, Goto
<1>0. /\ Supported' = Supported
      /\ \A e : Covered(e) => Covered(e)'
  BY Grows
<1>s. \A e \in Supported :
        e \in Position /\ e[1] \in Nat /\ e[2] \in Nat /\ e[1] \in 1..Len(chain)
  BY SupportedIff, PositionPair DEF IndInv
<1>1. TypeOK'
  BY DEF IndInv, TypeOK, PC
<1>2. (MirrorIsFinalized /\ CursorOnRecorded)'
  BY <1>0 DEF IndInv, MirrorIsFinalized, CursorOnRecorded
<1>3. LocalShape'
  BY <1>0 DEF IndInv, TypeOK, LocalShape, Event
<1>4. CursorShape'
  BY DEF IndInv, TypeOK, CursorShape, Advanced
<1>5. AllCovered'
  <2>1. ASSUME NEW e \in Supported, Behind(r, e)'
        PROVE  Covered(e)'
    <3>1. e[1] = block[r] => e[2] < idx[r]
      BY <1>s, SupportedIff, BodyIsSeq DEF IndInv, TypeOK, LocalShape, HasEvent
    <3>2. e[1] <= block[r]
      BY <1>s, <2>1 DEF IndInv, TypeOK, LocalShape, Behind
    <3>3. Behind(r, e)
      BY <1>s, <3>1, <3>2 DEF IndInv, TypeOK, Behind
    <3> QED
      BY <1>0, <3>3 DEF IndInv, AllCovered
  <2> QED
    BY <2>1, <1>0, CoverStep DEF IndInv, TypeOK, AllCovered
<1> QED
  BY <1>1, <1>2, <1>3, <1>4, <1>5 DEF IndInv

\* Everything up to max_cursor is covered
LEMMA UpdateChainCursorInv ==
    ASSUME NEW r \in Replicas, IndInv, UpdateChainCursor(r)
    PROVE  IndInv'
<1> USE DEF UpdateChainCursor, dbVars, lossVars, localVars, Goto
<1>0. /\ Supported' = Supported
      /\ \A e : Covered(e) => Covered(e)'
  BY Grows
<1>e. max_cursor[r] \in chain_events /\ CoveredUpTo(max_cursor[r])
  BY FlushCovered
<1>1. TypeOK'
  BY DEF IndInv, TypeOK, PC
<1>2. (MirrorIsFinalized /\ CursorOnRecorded)'
  BY <1>0, <1>e DEF IndInv, MirrorIsFinalized, CursorOnRecorded
<1>3. LocalShape'
  BY <1>0 DEF IndInv, TypeOK, LocalShape, Event
<1>4. CursorShape'
  BY <1>e DEF IndInv, TypeOK, CursorShape, Advanced
<1>5. AllCovered'
  BY <1>0, CoverStep, <1>e DEF IndInv, TypeOK, AllCovered, Behind
<1> QED
  BY <1>1, <1>2, <1>3, <1>4, <1>5 DEF IndInv

\* The locals are forgotten
LEMMA SubscriptionEndsInv ==
    ASSUME NEW r \in Replicas, IndInv, SubscriptionEnds(r)
    PROVE  IndInv'
<1> USE DEF SubscriptionEnds, Fault, dbVars, lossVars, localVars, Goto
<1>0. /\ Supported' = Supported
      /\ \A e : Covered(e) => Covered(e)'
  BY Grows
<1>1. TypeOK'
  BY DEF IndInv, TypeOK, PC
<1>2. (MirrorIsFinalized /\ CursorOnRecorded)'
  BY <1>0 DEF IndInv, MirrorIsFinalized, CursorOnRecorded
<1>3. LocalShape'
  BY <1>0 DEF IndInv, TypeOK, LocalShape, Event
<1>4. CursorShape'
  BY DEF IndInv, TypeOK, CursorShape, Advanced
<1>5. AllCovered'
  BY <1>0, CoverStep DEF IndInv, TypeOK, AllCovered, Behind
<1> QED
  BY <1>1, <1>2, <1>3, <1>4, <1>5 DEF IndInv

\* What is not fetched is counted as dropped
LEMMA FetchFailsInv ==
    ASSUME NEW r \in Replicas, IndInv, FetchFails(r)
    PROVE  IndInv'
<1> USE DEF FetchFails, Fault, dbVars, lossVars, localVars, Goto
<1>0. /\ Supported' = Supported
      /\ \A e : Covered(e) => Covered(e)'
  BY Grows
<1>s. \A e \in Supported :
        e \in Position /\ e[1] \in Nat /\ e[2] \in Nat /\ e[1] \in 1..Len(chain)
  BY SupportedIff, PositionPair DEF IndInv
<1>1. TypeOK'
  BY <1>s DEF IndInv, TypeOK, PC, Lost
<1>2. (MirrorIsFinalized /\ CursorOnRecorded)'
  BY <1>0 DEF IndInv, MirrorIsFinalized, CursorOnRecorded
<1>3. LocalShape'
  BY <1>0 DEF IndInv, TypeOK, LocalShape, Event
<1>4. CursorShape'
  BY DEF IndInv, TypeOK, CursorShape, Advanced
<1>5. AllCovered'
  <2>1. ASSUME NEW e \in Supported, Behind(r, e)'
        PROVE  Covered(e)'
    <3>1. e[1] <= block[r]
      BY <1>s, <2>1 DEF IndInv, TypeOK, LocalShape, Behind
    <3>2. CASE e[1] = block[r]
        <4>1. e \in EventsOf(block[r])
        BY <3>2, EventsOfIff, SupportedIff DEF IndInv
        <4> QED
        BY <4>1 DEF Covered, Lost
    <3>3. CASE e[1] < block[r]
      BY <1>0, <3>3 DEF IndInv, AllCovered, Behind
    <3> QED
      BY <1>s, <3>1, <3>2, <3>3 DEF IndInv, TypeOK
  <2> QED
    BY <2>1, <1>0, CoverStep DEF IndInv, TypeOK, AllCovered
<1> QED
  BY <1>1, <1>2, <1>3, <1>4, <1>5 DEF IndInv

\* What is not decoded is counted as dropped
LEMMA DecodeFailsInv ==
    ASSUME NEW r \in Replicas, IndInv, DecodeFails(r)
    PROVE  IndInv'
<1> USE DEF DecodeFails, Fault, dbVars, lossVars, localVars, Goto
<1>0. /\ Supported' = Supported
      /\ \A e : Covered(e) => Covered(e)'
  BY Grows
<1>s. \A e \in Supported :
        e \in Position /\ e[1] \in Nat /\ e[2] \in Nat /\ e[1] \in 1..Len(chain)
  BY SupportedIff, PositionPair DEF IndInv
<1>k. PICK k \in idx[r] + 1..Len(chain[block[r]]) :
        /\ dropped' = dropped \cup Lost({<<block[r], i>> : i \in idx[r]..k - 1})
        /\ idx' = [idx EXCEPT ![r] = k]
  OBVIOUS
<1>l. /\ idx[r] \in Nat /\ k \in Nat /\ idx[r] < k
      /\ block[r] \in 1..Len(chain) /\ k <= Len(chain[block[r]])
  BY BodyIsSeq DEF IndInv, TypeOK, LocalShape, HasEvent
<1>1. TypeOK'
  BY <1>s, <1>k, <1>l DEF IndInv, TypeOK, PC, Lost
<1>2. (MirrorIsFinalized /\ CursorOnRecorded)'
  BY <1>0 DEF IndInv, MirrorIsFinalized, CursorOnRecorded
<1>3. LocalShape'
  BY <1>0, <1>k, <1>l DEF IndInv, TypeOK, LocalShape, HasEvent, Event
<1>4. CursorShape'
  <2>1. max_cursor[r][2] \in Nat /\ idx[r] \in Nat
    BY PositionPair DEF IndInv, TypeOK
  <2>2. max_cursor[r][2] < idx[r] => max_cursor[r][2] < idx'[r]
    BY <1>k, <1>l, <2>1 DEF IndInv, TypeOK
  <2>3. \A q \in Replicas : q # r => idx'[q] = idx[q]
    BY <1>k, <1>l, SMT DEF IndInv, TypeOK
  <2> QED
    BY <2>2, <2>3 DEF IndInv, CursorShape, HasEvent, Advanced
<1>5. AllCovered'
  <2>1. ASSUME NEW e \in Supported, Behind(r, e)'
        PROVE  Covered(e)'
    <3>1. CASE Behind(r, e)
      BY <1>0, <3>1 DEF IndInv, AllCovered
    <3>2. CASE ~Behind(r, e)
        <4>1. e[1] = block[r] /\ e[2] \in idx[r]..k - 1
        BY <1>k, <1>l, <1>s, <2>1, <3>2 DEF IndInv, TypeOK, Behind, HasEvent
        <4>2. e \in {<<block[r], i>> : i \in idx[r]..k - 1}
        BY <1>s, <4>1, PositionPair
        <4> QED
        BY <1>k, <4>2 DEF Covered, Lost
    <3> QED
      BY <3>1, <3>2
  <2> QED
    BY <2>1, <1>0, CoverStep DEF IndInv, TypeOK, AllCovered
<1> QED
  BY <1>1, <1>2, <1>3, <1>4, <1>5 DEF IndInv

\* What the tables keep is recorded and covered
LEMMA SinkFailsInv ==
    ASSUME NEW r \in Replicas, IndInv, SinkFails(r)
    PROVE  IndInv'
<1> USE DEF SinkFails, Fault, dbVars, lossVars, localVars, Goto
<1>0. /\ Supported' = Supported
      /\ \A e : Covered(e) => Covered(e)'
  BY Grows
<1>s. \A e \in Supported :
        e \in Position /\ e[1] \in Nat /\ e[2] \in Nat /\ e[1] \in 1..Len(chain)
  BY SupportedIff, PositionPair DEF IndInv
<1>e. /\ pc[r] = "record" => Event(r) \in Supported \cap applied
      /\ pc[r] = "flush" => max_cursor[r] \in chain_events /\ CoveredUpTo(max_cursor[r])
  BY FlushCovered DEF IndInv, LocalShape
<1>1. TypeOK'
  BY <1>e, <1>s DEF IndInv, TypeOK, PC
<1>2. (MirrorIsFinalized /\ CursorOnRecorded)'
  BY <1>0, <1>e DEF IndInv, MirrorIsFinalized, CursorOnRecorded
<1>3. LocalShape'
  BY <1>0 DEF IndInv, TypeOK, LocalShape, Event
<1>4. CursorShape'
  BY DEF IndInv, TypeOK, CursorShape, Advanced
<1>5. AllCovered'
  BY <1>0, CoverStep, <1>e DEF IndInv, TypeOK, AllCovered, Behind
<1> QED
  BY <1>1, <1>2, <1>3, <1>4, <1>5 DEF IndInv

\* The tables survive
LEMMA CrashInv ==
    ASSUME NEW r \in Replicas, IndInv, Crash(r)
    PROVE  IndInv'
<1> USE DEF Crash, Fault, dbVars, lossVars, localVars, Goto
<1>0. /\ Supported' = Supported
      /\ \A e : Covered(e) => Covered(e)'
  BY Grows
<1>1. TypeOK'
  BY DEF IndInv, TypeOK, PC
<1>2. (MirrorIsFinalized /\ CursorOnRecorded)'
  BY <1>0 DEF IndInv, MirrorIsFinalized, CursorOnRecorded
<1>3. LocalShape'
  BY <1>0 DEF IndInv, TypeOK, LocalShape, Event
<1>4. CursorShape'
  BY DEF IndInv, TypeOK, CursorShape, Advanced
<1>5. AllCovered'
  BY <1>0, CoverStep DEF IndInv, TypeOK, AllCovered, Behind
<1> QED
  BY <1>1, <1>2, <1>3, <1>4, <1>5 DEF IndInv

-----------------------------------------------------------------------------
\* Every step of a worker, of the chain or of the environment preserves IndInv
LEMMA NextInv == IndInv /\ [Next]_vars => IndInv'
<1> SUFFICES ASSUME IndInv, [Next]_vars PROVE IndInv'
  OBVIOUS
<1>1. CASE FinalizeBlock
  BY <1>1, FinalizeBlockInv
<1>2. ASSUME NEW r \in Replicas, ReplayStep(r) PROVE IndInv'
  BY <1>2, ConnectInv, SubscribeInv, LoadCursorInv, NextBlockInv, FetchEventsInv,
    SkipEventInv, ApplyEventInv, RecordChainEventInv, EndBlockInv,
    UpdateChainCursorInv DEF ReplayStep
<1>3. ASSUME NEW r \in Replicas, FaultStep(r) PROVE IndInv'
  BY <1>3, SubscriptionEndsInv, FetchFailsInv, DecodeFailsInv, SinkFailsInv, CrashInv
    DEF FaultStep
<1>4. CASE UNCHANGED vars
  <2>1. Supported' = Supported /\ \A e : Covered(e) => Covered(e)'
    BY <1>4, Grows DEF vars
  <2> QED
    BY <1>4, <2>1 DEF IndInv, vars, TypeOK, MirrorIsFinalized, CursorOnRecorded,
        LocalShape, CursorShape, AllCovered, CoveredUpTo, Behind, Advanced, Event
<1> QED
  BY <1>1, <1>2, <1>3, <1>4 DEF Next

\* Every reachable state of the replay satisfies the inductive invariant, with any
\* number of workers, any block bodies and any number of faults.
THEOREM Invariance == Spec => []IndInv
BY InitInv, NextInv, PTL DEF Spec

\* The variables of the replay keep their types.
THEOREM TypeCorrect == Spec => []TypeOK
<1>1. IndInv => TypeOK
  BY DEF IndInv
<1> QED
  BY <1>1, Invariance, PTL

\* What run_chain_replay applies and mirrors is finalized and supported, and
\* nothing is mirrored before its handler has run.
THEOREM MirrorCorrect == Spec => []MirrorIsFinalized
<1>1. IndInv => MirrorIsFinalized
  BY DEF IndInv
<1> QED
  BY <1>1, Invariance, PTL

\* The row update_chain_cursor writes always names an applied and mirrored event.
THEOREM CursorCorrect == Spec => []CursorOnRecorded
<1>1. IndInv => CursorOnRecorded
  BY DEF IndInv
<1> QED
  BY <1>1, Invariance, PTL

\* No supported event at or before the persisted cursor is lost except by the
\* ways the code lets events go by: not delivered, not fetched, not decoded.
THEOREM NothingSkipped == Spec => []NoSilentSkip
<1>1. IndInv => NoSilentSkip
  BY DEF IndInv, AllCovered, CoveredUpTo, Covered, MirrorIsFinalized, NoSilentSkip,
    Reached
<1> QED
  BY <1>1, Invariance, PTL

-----------------------------------------------------------------------------
\* With one replica, a worker past load_cursor knows the cursor in the table
LEMMA CursorKnownStep ==
    ASSUME \A p, q \in Replicas : p = q,
           IndInv, CursorKnown, [Next]_vars
    PROVE  CursorKnown'
<1> USE DEF dbVars, lossVars, localVars, Goto, CursorKnown
<1>1. CASE FinalizeBlock \/ UNCHANGED vars
  BY <1>1 DEF FinalizeBlock, vars
<1>2. ASSUME NEW r \in Replicas, ReplayStep(r) PROVE CursorKnown'
  <2>1. CASE LoadCursor(r)
    BY <2>1 DEF LoadCursor, IndInv, TypeOK
  <2>2. CASE UpdateChainCursor(r)
    <3>1. max_cursor[r] # None
      BY ReplayAssumption DEF IndInv, TypeOK, Position
    <3> QED
      BY <2>2, <3>1 DEF UpdateChainCursor, IndInv, TypeOK
  <2>3. CASE Connect(r) \/ Subscribe(r) \/ NextBlock(r) \/ FetchEvents(r) \/ SkipEvent(r)
    BY <2>3 DEF Connect, Subscribe, NextBlock, FetchEvents, SkipEvent, HasEvent, IndInv,
        TypeOK
  <2>4. CASE ApplyEvent(r) \/ RecordChainEvent(r) \/ EndBlock(r)
    BY <2>4 DEF ApplyEvent, RecordChainEvent, EndBlock, HasEvent, IndInv, TypeOK
  <2> QED
    BY <1>2, <2>1, <2>2, <2>3, <2>4 DEF ReplayStep
<1>3. ASSUME NEW r \in Replicas, FaultStep(r) PROVE CursorKnown'
  <2>1. CASE SinkFails(r)
    BY <2>1 DEF SinkFails, IndInv, TypeOK
  <2>2. CASE SubscriptionEnds(r) \/ FetchFails(r) \/ DecodeFails(r) \/ Crash(r)
    BY <2>2 DEF SubscriptionEnds, FetchFails, DecodeFails, Crash, HasEvent, IndInv,
      TypeOK
  <2> QED
    BY <1>3, <2>1, <2>2 DEF FaultStep
<1> QED
  BY <1>1, <1>2, <1>3 DEF Next

\* So with one replica CursorKnown holds throughout, along with IndInv
LEMMA CursorKnownInvariant ==
    ASSUME \A p, q \in Replicas : p = q
    PROVE  Spec => [](IndInv /\ CursorKnown)
<1>1. Init => CursorKnown
  BY DEF Init, CursorKnown
<1>2. IndInv /\ CursorKnown /\ [Next]_vars => CursorKnown'
  BY CursorKnownStep
<1> QED
  BY <1>1, <1>2, InitInv, NextInv, PTL DEF Spec

\* Only a flush writes the cursor
LEMMA CursorWriters ==
    ASSUME [Next]_vars, cursor' # cursor
    PROVE  \E r \in Replicas : pc[r] = "flush" /\ cursor' = max_cursor[r]
BY DEF Next, vars, FinalizeBlock, ReplayStep, FaultStep, Connect, Subscribe, LoadCursor,
    NextBlock, FetchEvents, SkipEvent, ApplyEvent, RecordChainEvent, EndBlock,
    UpdateChainCursor, SubscriptionEnds, FetchFails, DecodeFails, SinkFails, Crash,
    dbVars, lossVars, localVars

\* One worker, restarted any number of times, never moves chain_cursors back,
\* although update_chain_cursor overwrites the row whatever it holds.
THEOREM CursorAdvances ==
    ASSUME \A p, q \in Replicas : p = q
    PROVE  Spec => CursorMonotone
<1>1. IndInv /\ CursorKnown /\ [Next]_vars =>
        [cursor # None => cursor' # None /\ AtOrBefore(cursor, cursor')]_cursor
  <2> SUFFICES ASSUME IndInv, CursorKnown, [Next]_vars, cursor' # cursor, cursor # None
               PROVE  cursor' # None /\ AtOrBefore(cursor, cursor')
    OBVIOUS
  <2>1. PICK r \in Replicas : pc[r] = "flush" /\ cursor' = max_cursor[r]
    BY CursorWriters
  <2>2. max_cursor[r] \in Position /\ max_cursor[r] # None /\ cursor \in Position
    BY ReplayAssumption DEF IndInv, TypeOK, Position
  <2>3. ~AtOrBefore(max_cursor[r], cursor)
    BY <2>1 DEF IndInv, CursorShape, Advanced, CursorKnown
  <2> QED
    BY <2>1, <2>2, <2>3, PositionPair DEF AtOrBefore
<1> QED
  BY <1>1, CursorKnownInvariant, PTL DEF Spec, CursorMonotone

\* One worker, restarted any number of times, never applies an event the
\* persisted cursor already covers.
THEOREM NeverReapplied ==
    ASSUME \A p, q \in Replicas : p = q
    PROVE  Spec => NoReapply
<1>1. IndInv /\ CursorKnown /\ [Next]_vars =>
        [\A r \in Replicas :
            (pc[r] = "event" /\ pc'[r] = "record") => ~Reached(Event(r))]_vars
  <2> SUFFICES ASSUME IndInv, CursorKnown, Next, NEW r \in Replicas,
                      pc[r] = "event", pc'[r] = "record"
               PROVE  ~Reached(Event(r))
    BY DEF vars
  <2>1. ApplyEvent(r)
    BY DEF Next, FinalizeBlock, ReplayStep, FaultStep, Connect, Subscribe, LoadCursor,
        NextBlock, FetchEvents, SkipEvent, RecordChainEvent, EndBlock, UpdateChainCursor,
        SubscriptionEnds, FetchFails, DecodeFails, SinkFails, Crash, Goto, IndInv, TypeOK
  <2> QED
    BY <2>1 DEF ApplyEvent, Seen, Reached, CursorKnown
<1> QED
  BY <1>1, CursorKnownInvariant, PTL DEF Spec, NoReapply

-----------------------------------------------------------------------------
\* The new block's supported events come after all others
LEMMA FinalizeExtends ==
    ASSUME IndInv, FinalizeBlock
    PROVE  Mirror!Finalize
<1> USE DEF dbVars, lossVars, localVars
<1>0. PICK b \in Bodies : chain' = Append(chain, b)
  BY DEF FinalizeBlock
<1>1. TypeOK'
  BY FinalizeBlockInv DEF IndInv
<1>2. /\ Len(chain) \in Nat /\ Len(chain') = Len(chain) + 1
      /\ \A n \in 1..Len(chain) : chain'[n] = chain[n]
  BY <1>0 DEF IndInv, TypeOK
<1>3. \A e \in Supported : e \in Supported' /\ e[1] \in 1..Len(chain)
  BY <1>1, <1>2, SupportedIff, SupportedIffNext DEF IndInv, KindOf
<1>4. \A e \in Supported' : e \in Supported \/ e[1] = Len(chain) + 1
  BY <1>1, <1>2, SupportedIff, SupportedIffNext DEF IndInv, KindOf
<1>5. \A e \in Supported' \ Supported, f \in Supported : Mirror!Before(f, e)
  BY <1>2, <1>3, <1>4 DEF Mirror!Before
<1> QED
  BY <1>3, <1>5 DEF FinalizeBlock, Mirror!Finalize

\* A worker that mirrors the event in hand
LEMMA RecordIngests ==
    ASSUME NEW r \in Replicas, IndInv, pc[r] = "record",
           chain_events' = chain_events \cup {Event(r)},
           UNCHANGED <<chain, missed, dropped, cursor>>
    PROVE  Mirror!Ingest
<1>1. Event(r) \in Supported
  BY DEF IndInv, LocalShape
<1>2. Supported' = Supported
  BY Grows
<1> QED
  BY <1>1, <1>2 DEF Mirror!Ingest

\* A worker that lets events go by: only those that are not mirrored are let go
LEMMA LossGivesUp ==
    ASSUME NEW S, UNCHANGED <<chain, chain_events, cursor>>,
           \/ missed' = missed \cup Lost(S) /\ dropped' = dropped
           \/ dropped' = dropped \cup Lost(S) /\ missed' = missed
    PROVE  Mirror!GiveUp
<1>1. Supported' = Supported
  BY Grows
<1> QED
  BY <1>1 DEF Mirror!GiveUp, Lost

\* A worker that writes the cursor: FlushCovered, put in terms of ReplayAbs
LEMMA FlushSetsCursor ==
    ASSUME NEW r \in Replicas, IndInv, pc[r] = "flush",
           cursor' = max_cursor[r],
           UNCHANGED <<chain, chain_events, missed, dropped>>
    PROVE  Mirror!SetCursor
<1>1. max_cursor[r] \in chain_events /\ CoveredUpTo(max_cursor[r])
  BY FlushCovered
<1>2. Supported' = Supported
  BY Grows
<1>3. ASSUME NEW e \in Supported, ~Covered(e)
      PROVE  Mirror!Before(max_cursor[r], e)
  <2>1. ~AtOrBefore(e, max_cursor[r])
    BY <1>1, <1>3 DEF CoveredUpTo
  <2>2. /\ e[1] \in Nat /\ e[2] \in Nat
        /\ max_cursor[r][1] \in Nat /\ max_cursor[r][2] \in Nat
    BY SupportedIff, PositionPair DEF IndInv, TypeOK
  <2> QED
    BY <2>1, <2>2 DEF AtOrBefore, Mirror!Before
<1> QED
  BY <1>1, <1>2, <1>3 DEF Mirror!SetCursor, Covered

\* A step that writes neither the tables of the replay nor the chain
LEMMA Unseen ==
    ASSUME UNCHANGED <<chain, chain_events, missed, dropped, cursor>>
    PROVE  UNCHANGED Mirror!absVars
<1>1. Supported' = Supported
  BY Grows
<1> QED
  BY <1>1 DEF Mirror!absVars

\* Every step of the replay is a step of ReplayAbs, or none of its business
LEMMA MirrorStep ==
    ASSUME IndInv, [Next]_vars
    PROVE  [Mirror!AbsNext]_Mirror!absVars
<1> USE DEF dbVars, lossVars, localVars
<1>1. CASE FinalizeBlock
  BY <1>1, FinalizeExtends DEF Mirror!AbsNext
<1>2. ASSUME NEW r \in Replicas, ReplayStep(r)
      PROVE  [Mirror!AbsNext]_Mirror!absVars
  <2>1. CASE Subscribe(r)
    BY <2>1, LossGivesUp DEF Subscribe, Mirror!AbsNext
  <2>2. CASE RecordChainEvent(r)
    BY <2>2, RecordIngests DEF RecordChainEvent, Mirror!AbsNext
  <2>3. CASE UpdateChainCursor(r)
    BY <2>3, FlushSetsCursor DEF UpdateChainCursor, Mirror!AbsNext
  <2>4. CASE Connect(r) \/ LoadCursor(r) \/ NextBlock(r) \/ FetchEvents(r) \/ SkipEvent(r)
                \/ ApplyEvent(r) \/ EndBlock(r)
    BY <2>4, Unseen DEF Connect, LoadCursor, NextBlock, FetchEvents, SkipEvent,
      ApplyEvent, EndBlock
  <2> QED
    BY <1>2, <2>1, <2>2, <2>3, <2>4 DEF ReplayStep
<1>3. ASSUME NEW r \in Replicas, FaultStep(r)
      PROVE  [Mirror!AbsNext]_Mirror!absVars
  <2>1. CASE FetchFails(r)
    BY <2>1, LossGivesUp DEF FetchFails, Mirror!AbsNext
  <2>2. CASE DecodeFails(r)
    <3>1. PICK k \in idx[r] + 1..Len(chain[block[r]]) :
            dropped' = dropped \cup Lost({<<block[r], i>> : i \in idx[r]..k - 1})
      BY <2>2 DEF DecodeFails
    <3> QED
      BY <2>2, <3>1, LossGivesUp DEF DecodeFails, Mirror!AbsNext
  <2>3. CASE SinkFails(r)
    <3>1. CASE pc[r] = "record" /\ chain_events' = chain_events \cup {Event(r)}
                    /\ UNCHANGED cursor
      BY <2>3, <3>1, RecordIngests DEF SinkFails, Mirror!AbsNext
    <3>2. CASE pc[r] = "flush" /\ cursor' = max_cursor[r] /\ UNCHANGED chain_events
      BY <2>3, <3>2, FlushSetsCursor DEF SinkFails, Mirror!AbsNext
    <3>3. CASE UNCHANGED <<chain_events, cursor>>
      BY <2>3, <3>3, Unseen DEF SinkFails
    <3> QED
      BY <2>3, <3>1, <3>2, <3>3 DEF SinkFails
  <2>4. CASE SubscriptionEnds(r) \/ Crash(r)
    BY <2>4, Unseen DEF SubscriptionEnds, Crash
  <2> QED
    BY <1>3, <2>1, <2>2, <2>3, <2>4 DEF FaultStep
<1>4. CASE UNCHANGED vars
  BY <1>4, Unseen DEF vars
<1> QED
  BY <1>1, <1>2, <1>3, <1>4 DEF Next

\* Any number of workers of run_chain_replay, with crashes, lost subscriptions and
\* failing statements, keep the promise of ReplayAbs to those who read
\* chain_events and chain_cursors.
THEOREM ReplayImplementsMirror == Spec => ImplementsMirror
<1>1. Init => Mirror!AbsInit
  BY DEF Init, Mirror!AbsInit, Supported
<1>2. IndInv /\ [Next]_vars => [Mirror!AbsNext]_Mirror!absVars
  BY MirrorStep
<1> QED
  BY <1>1, <1>2, Invariance, PTL DEF Spec, ImplementsMirror, Mirror!AbsSpec

=============================================================================
