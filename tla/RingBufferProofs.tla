-------------------------- MODULE RingBufferProofs --------------------------
(***************************************************************************)
(* Proofs about RingBuffer, for every buffer size, every set of lengths    *)
(* and every interleaving of the two threads.                              *)
(***************************************************************************)
EXTENDS RingBufferFifo, SequenceTheorems, TLAPS

Holding == {"copy", "copied", "write_finished", "publish"}

(* The strengthening of TypeOK and StaysMapped.  Between its grant and the *)
(* tail += size that publishes it, a range can only move down, by a wrap,  *)
(* so the end of the double mapping is out of reach; and a wrap finds both *)
(* indices past the buffer size because head does not overtake tail.       *)
MapInv ==
    /\ TypeOK
    /\ StaysMapped
    /\ ppc # "idle" => psize \in WriteSizes
    /\ ppc \in Holding => tail <= pptr
    /\ cpc \in {"reading", "used"} => csize \in ReadSizes
    /\ cpc \in {"idle", "reading", "used"} => head < BufferSize
    /\ cpc = "wrap_head" => head < MapSize
    /\ cpc = "wrap_tail" => head < BufferSize /\ head + BufferSize <= tail
    /\ head <= tail

(* Initially nothing is granted and both indices are 0.                    *)
LEMMA InitMapInv == Init => MapInv
BY RingAssumption DEF Init, MapInv, TypeOK, StaysMapped, Holding, MapSize, NoByte

(* A step of the producer keeps MapInv.                                    *)
LEMMA BeginWriteMapInv ==
    ASSUME MapInv, NEW size \in WriteSizes, BeginWrite(size) PROVE MapInv'
BY RingAssumption DEF BeginWrite, MapInv, TypeOK, StaysMapped, Holding, MapSize,
    consumerVars

LEMMA ProducerMapInv == MapInv /\ ProducerStep => MapInv'
<1> SUFFICES ASSUME MapInv, ProducerStep PROVE MapInv'
    OBVIOUS
<1> USE RingAssumption DEF MapInv, TypeOK, StaysMapped, Holding, MapSize,
        consumerVars
<1>1. CASE WritePtrGranted
    BY <1>1 DEF WritePtrGranted, Fits
<1>2. CASE WritePtrRefused
    BY <1>2 DEF WritePtrRefused
<1>3. CASE WaitReturns
    BY <1>3 DEF WaitReturns
<1>4. CASE CopyIn
    <2>1. buffer' \in [0 .. BufferSize - 1 -> Int]
        BY <1>4 DEF CopyIn, ChunkOffset
    <2> QED
        BY <2>1, <1>4 DEF CopyIn
<1>5. CASE FinishLoadsHead
    BY <1>5 DEF FinishLoadsHead
<1>6. CASE FinishChecks
    BY <1>6 DEF FinishChecks
<1>7. CASE Publish
    BY <1>7 DEF Publish
<1>8. CASE WriteEnd
    BY <1>8 DEF WriteEnd
<1> QED
    BY <1>1, <1>2, <1>3, <1>4, <1>5, <1>6, <1>7, <1>8 DEF ProducerStep

(* A step of the consumer keeps MapInv.                                    *)
LEMMA ConsumerMapInv == MapInv /\ ConsumerStep => MapInv'
<1> SUFFICES ASSUME MapInv, ConsumerStep PROVE MapInv'
    OBVIOUS
<1> USE RingAssumption DEF MapInv, TypeOK, StaysMapped, Holding, MapSize,
        producerVars
<1>1. CASE \E size \in ReadSizes : ReadBegin(size)
    BY <1>1 DEF ReadBegin
<1>2. CASE UseBlock
    <2>1. \A j \in 1 .. csize : buffer[Cell(head + j - 1)] \in Int
        BY <1>2 DEF UseBlock, Cell
    <2>2. [j \in 1 .. csize |-> buffer[Cell(head + j - 1)]] \in Seq(Int)
        BY <1>2, <2>1 DEF UseBlock
    <2>3. delivered' \in Seq(Int)
        BY <1>2, <2>2 DEF UseBlock
    <2> QED
        BY <1>2, <2>3 DEF UseBlock
<1>3. CASE ReadFinished
    BY <1>3 DEF ReadFinished
<1>4. CASE WrapHead
    BY <1>4 DEF WrapHead
<1>5. CASE WrapTail
    BY <1>5 DEF WrapTail
<1> QED
    BY <1>1, <1>2, <1>3, <1>4, <1>5 DEF ConsumerStep

LEMMA NextMapInv == MapInv /\ [Next]_vars => MapInv'
<1> SUFFICES ASSUME MapInv, [Next]_vars PROVE MapInv'
    OBVIOUS
<1>1. CASE UNCHANGED vars
    BY <1>1 DEF vars, producerVars, consumerVars, MapInv, TypeOK, StaysMapped,
        Holding
<1> QED
    BY <1>1, BeginWriteMapInv, ProducerMapInv, ConsumerMapInv DEF Next

THEOREM Mapped == Spec => []MapInv
BY InitMapInv, NextMapInv, PTL DEF Spec

(* Every index and every local stays in its range, for any lengths and any *)
(* interleaving of the loads and the wraps (common/ringbuffer.c).          *)
THEOREM TypeCorrect == Spec => []TypeOK
<1>1. MapInv => TypeOK
    BY DEF MapInv
<1> QED
    BY <1>1, Mapped, PTL

(* No access leaves the double mapping and the wrap never underflows.      *)
THEOREM NeverUnmapped == Spec => []StaysMapped
<1>1. MapInv => StaysMapped
    BY DEF MapInv
<1> QED
    BY <1>1, Mapped, PTL

-----------------------------------------------------------------------------
(* What follows holds until the head of a full ring has been taken for the *)
(* head of an empty one.                                                   *)

(* The head the producer has loaded may be older than the tail it is about *)
(* to load.  The distance between them is then what a head loaded now      *)
(* would give, plus what the consumer has released since, plus or minus    *)
(* one buffer size if a wrap has moved one of them and not the other.      *)
(* The head of a full ring is a whole number of buffer sizes away.         *)
StaleHead ==
    ppc = "write_ptr" =>
        \/ tail < phead
        \/ /\ loadedFull
           /\ tail - phead \in {0, BufferSize, MapSize}
        \/ /\ ~loadedFull
           /\ \/ tail - phead \in Fill .. BufferSize - 1
              \/ tail - phead - BufferSize \in Fill .. BufferSize - 1

(* The room of a granted range stays free: the fill only drops until the   *)
(* range is published, and at most one wrap moves tail away from it.       *)
Window ==
    ppc \in Holding =>
        /\ Fill + psize <= BufferSize
        /\ pptr = tail \/ pptr = tail + BufferSize

(* The indices say what the history says, between the two steps of a wrap  *)
(* up to one buffer size.                                                  *)
FlowInv ==
    /\ MapInv
    /\ Fill \in 0 .. BufferSize
    /\ cpc # "wrap_tail" => tail - head = Fill
    /\ cpc = "wrap_tail" => tail - head = Fill + BufferSize
    /\ StaleHead
    /\ Window

LEMMA InitFlowInv == ASSUME Init PROVE FlowInv
<1>1. MapInv
    BY InitMapInv
<1> QED
    BY <1>1, RingAssumption DEF Init, FlowInv, StaleHead, Window, Fill,
        Holding

(* What a head loaded now is away from tail.                               *)
LEMMA FreshHead ==
    ASSUME NEW f \in 0 .. BufferSize, NEW d \in Int,
           d = f \/ d = f + BufferSize
    PROVE  /\ f = BufferSize => d \in {0, BufferSize, MapSize}
           /\ f # BufferSize => \/ d \in f .. BufferSize - 1
                               \/ d - BufferSize \in f .. BufferSize - 1
BY RingAssumption DEF MapSize

(* A step of the producer keeps FlowInv.                                   *)
LEMMA ProducerFlowInv ==
    ASSUME FlowInv, ~misread',
           ProducerStep \/ \E size \in WriteSizes : BeginWrite(size)
    PROVE  FlowInv'
<1>1. MapInv /\ MapInv'
    BY NextMapInv DEF FlowInv, Next
<1> USE <1>1, RingAssumption DEF FlowInv, MapInv, TypeOK, StaleHead, Window,
        Fill, Holding, MapSize, consumerVars
<1>3. CASE \E size \in WriteSizes : BeginWrite(size)
    <2>1. /\ phead' = head /\ tail' = tail /\ ppc' = "write_ptr"
          /\ Fill' = Fill /\ cpc' = cpc /\ head' = head
          /\ loadedFull' <=> Fill = BufferSize
        BY <1>3 DEF BeginWrite
    <2>2. /\ Fill \in 0 .. BufferSize /\ tail - head \in Int
          /\ tail - head = Fill \/ tail - head = Fill + BufferSize
        OBVIOUS
    <2>3. StaleHead'
        <3>1. CASE Fill = BufferSize
            BY <2>1, <2>2, <3>1, FreshHead
        <3>2. CASE Fill # BufferSize
            BY <2>1, <2>2, <3>2, FreshHead
        <3> QED
            BY <3>1, <3>2
    <2> QED
        BY <1>3, <2>3 DEF BeginWrite
<1>4. CASE WritePtrGranted
    BY <1>4 DEF WritePtrGranted, Fits
<1>5. CASE WritePtrRefused
    BY <1>5 DEF WritePtrRefused
<1>6. CASE WaitReturns
    <2>1. /\ phead' = head /\ tail' = tail /\ ppc' = "write_ptr"
          /\ Fill' = Fill /\ cpc' = cpc /\ head' = head
          /\ loadedFull' <=> Fill = BufferSize
        BY <1>6 DEF WaitReturns
    <2>2. /\ Fill \in 0 .. BufferSize /\ tail - head \in Int
          /\ tail - head = Fill \/ tail - head = Fill + BufferSize
        OBVIOUS
    <2>3. StaleHead'
        <3>1. CASE Fill = BufferSize
            BY <2>1, <2>2, <3>1, FreshHead
        <3>2. CASE Fill # BufferSize
            BY <2>1, <2>2, <3>2, FreshHead
        <3> QED
            BY <3>1, <3>2
    <2> QED
        BY <1>6, <2>3 DEF WaitReturns
<1>7. CASE CopyIn
    BY <1>7 DEF CopyIn
<1>8. CASE FinishLoadsHead
    BY <1>8 DEF FinishLoadsHead
<1>9. CASE FinishChecks
    BY <1>9 DEF FinishChecks
<1>10. CASE Publish
    BY <1>10 DEF Publish
<1>11. CASE WriteEnd
    BY <1>11 DEF WriteEnd
<1> QED
    BY <1>3, <1>4, <1>5, <1>6, <1>7, <1>8, <1>9, <1>10, <1>11 DEF ProducerStep

(* A step of the consumer keeps FlowInv.                                   *)
LEMMA ConsumerFlowInv ==
    ASSUME FlowInv, ConsumerStep PROVE FlowInv'
<1>1. MapInv /\ MapInv'
    BY NextMapInv DEF FlowInv, Next
<1> USE <1>1, RingAssumption DEF FlowInv, MapInv, TypeOK, StaysMapped,
        StaleHead, Window, Fill, Holding, MapSize, producerVars
<1>3. CASE \E size \in ReadSizes : ReadBegin(size)
    BY <1>3 DEF ReadBegin
<1>4. CASE UseBlock
    BY <1>4 DEF UseBlock
<1>5. CASE ReadFinished
    BY <1>5 DEF ReadFinished
<1>6. CASE WrapHead
    BY <1>6 DEF WrapHead
<1>7. CASE WrapTail
    BY <1>7 DEF WrapTail
<1> QED
    BY <1>3, <1>4, <1>5, <1>6, <1>7 DEF ConsumerStep

LEMMA NextFlowInv ==
    FlowInv /\ [Next]_vars /\ ~misread' => FlowInv'
<1> SUFFICES ASSUME FlowInv, [Next]_vars, ~misread' PROVE FlowInv'
    OBVIOUS
<1>1. CASE UNCHANGED vars
    <2>1. MapInv'
        BY <1>1, NextMapInv DEF FlowInv
    <2> QED
        BY <1>1, <2>1 DEF vars, producerVars, consumerVars, FlowInv, StaleHead,
            Window, Fill, Holding
<1> QED
    BY <1>1, ProducerFlowInv, ConsumerFlowInv DEF Next

(* The two mappings of a cell.                                             *)
LEMMA CellFacts ==
    /\ \A x \in 0 .. MapSize - 1 : Cell(x) \in 0 .. BufferSize - 1
    /\ \A x \in BufferSize .. MapSize - 1 : Cell(x) = Cell(x - BufferSize)
BY RingAssumption DEF Cell, MapSize

(* Where an unread stream position is, as an address.                      *)
LEMMA UnreadAddress ==
    ASSUME FlowInv, NEW i \in Unread
    PROVE  /\ i \in Int /\ Base \in Int
           /\ i - Base \in 0 .. MapSize - 1
           /\ i - Base >= 0
           /\ i - Base >= tail - Fill
           /\ i - Base < tail
           /\ cpc = "wrap_tail" => i - Base >= BufferSize
BY RingAssumption DEF FlowInv, MapInv, TypeOK, Unread, Base, Fill, MapSize

LEMMA FlowWindow == ASSUME FlowInv PROVE GrantIsFree
<1> SUFFICES ASSUME ppc \in Holding,
                    NEW a \in pptr .. pptr + psize - 1, NEW i \in Unread,
                    Cell(a) = Cell(i - Base)
             PROVE  FALSE
    BY DEF GrantIsFree, GrantedCells, UnreadCells, Holding
<1>1. /\ i - Base \in 0 .. MapSize - 1
      /\ i - Base >= tail - Fill /\ i - Base < tail
    BY UnreadAddress
<1>2. /\ Fill \in Nat /\ psize \in Nat /\ Fill + psize <= BufferSize
      /\ tail \in 0 .. MapSize /\ pptr \in Nat /\ pptr + psize <= MapSize
      /\ pptr = tail \/ pptr = tail + BufferSize
    BY RingAssumption DEF FlowInv, MapInv, TypeOK, StaysMapped, Window, Fill, Holding,
        MapSize
<1> QED
    BY <1>1, <1>2, RingAssumption DEF MapSize, Cell

-----------------------------------------------------------------------------
(* The contents of the cells.                                              *)

(* A range that has been filled holds the next bytes of the stream.        *)
FilledRange ==
    ppc \in {"copied", "write_finished", "publish"} =>
        \A j \in 0 .. psize - 1 : buffer[Cell(tail + j)] = published + j

DataInv == FlowInv /\ CellsIntact /\ FilledRange

LEMMA InitDataInv == ASSUME Init PROVE DataInv
<1>1. FlowInv
    BY InitFlowInv
<1>2. CellsIntact /\ FilledRange
    BY DEF Init, CellsIntact, FilledRange, Unread
<1> QED
    BY <1>1, <1>2 DEF DataInv

Filled == {"copied", "write_finished", "publish"}

(* A step that leaves the cells, tail and published alone, releases no     *)
(* byte back and starts no filled range keeps DataInv.                     *)
LEMMA QuietKeepsDataInv ==
    ASSUME DataInv, FlowInv',
           buffer' = buffer, tail' = tail, published' = published,
           released' >= released,
           ppc' \in Filled => ppc \in Filled /\ psize' = psize
    PROVE  DataInv'
<1>1. Unread' \subseteq Unread /\ Base' = Base
    BY DEF DataInv, FlowInv, MapInv, TypeOK, Unread, Base
<1>2. CellsIntact'
    BY <1>1 DEF DataInv, CellsIntact, Cell
<1>3. FilledRange'
    BY DEF DataInv, FilledRange, Filled, Cell
<1> QED
    BY <1>2, <1>3 DEF DataInv

(* An address up to Fill below tail is not in the range at pptr.           *)
LEMMA ChunkIsElsewhere ==
    ASSUME FlowInv, ppc = "copy",
           NEW x \in 0 .. MapSize - 1, x >= tail - Fill, x < tail
    PROVE  ~(ChunkOffset(Cell(x)) \in 0 .. psize - 1)
BY RingAssumption DEF FlowInv, MapInv, TypeOK, StaysMapped, Window, Fill,
    Holding, MapSize, Cell, ChunkOffset

(* The copy fills the cells of the range and no other.                     *)
LEMMA CopyKeepsDataInv ==
    ASSUME DataInv, CopyIn, ~misread' PROVE DataInv'
<1>1. FlowInv /\ FlowInv'
    BY NextFlowInv DEF DataInv, Next, ProducerStep
<1>2. ASSUME NEW i \in Unread PROVE buffer'[Cell(i - Base)] = i
    <2>1. /\ i - Base \in 0 .. MapSize - 1
          /\ i - Base >= tail - Fill /\ i - Base < tail
        BY <1>1, UnreadAddress
    <2>2. Cell(i - Base) \in 0 .. BufferSize - 1
        BY <2>1, CellFacts
    <2>3. ~(ChunkOffset(Cell(i - Base)) \in 0 .. psize - 1)
        BY <1>1, <2>1, ChunkIsElsewhere DEF CopyIn
    <2>4. buffer'[Cell(i - Base)] = buffer[Cell(i - Base)]
        BY <2>2, <2>3 DEF CopyIn
    <2> QED
        BY <2>4 DEF DataInv, CellsIntact
<1>3. CellsIntact'
    BY <1>2 DEF CopyIn, CellsIntact, Unread, Base, Cell
<1>4. ASSUME NEW j \in 0 .. psize - 1
      PROVE  buffer'[Cell(tail + j)] = published + j
    <2>1. /\ Cell(tail + j) \in 0 .. BufferSize - 1
          /\ ChunkOffset(Cell(tail + j)) = j
        BY <1>1, RingAssumption DEF CopyIn, FlowInv, MapInv, TypeOK,
            StaysMapped, Window, Fill, Holding, MapSize, Cell, ChunkOffset
    <2> QED
        BY <2>1 DEF CopyIn
<1>5. FilledRange'
    BY <1>4 DEF CopyIn, FilledRange, Cell
<1> QED
    BY <1>1, <1>3, <1>5 DEF DataInv

(* The publication makes the filled range unread.                          *)
LEMMA PublishKeepsDataInv ==
    ASSUME DataInv, Publish, ~misread' PROVE DataInv'
<1>1. FlowInv /\ FlowInv'
    BY NextFlowInv DEF DataInv, Next, ProducerStep
<1>2. Base' = Base
    BY <1>1 DEF Publish, Base, FlowInv, MapInv, TypeOK
<1>3. ASSUME NEW i \in Unread' PROVE buffer[Cell(i - Base)] = i
    <2>1. CASE i < published
        BY <1>1, <2>1 DEF DataInv, CellsIntact, Unread, Publish, FlowInv,
            MapInv, TypeOK
    <2>2. CASE i >= published
        <3>1. i - published \in 0 .. psize - 1
            BY <1>1, <2>2, RingAssumption DEF Unread, Publish, FlowInv, MapInv,
                TypeOK
        <3>2. i - Base = tail + (i - published) /\ i = published + (i - published)
            BY <1>1, RingAssumption DEF Unread, Publish, FlowInv, MapInv,
                TypeOK, Base
        <3> QED
            BY <3>1, <3>2 DEF DataInv, FilledRange, Publish
    <2> QED
        BY <2>1, <2>2, <1>1 DEF Unread, FlowInv, MapInv, TypeOK, Publish
<1>4. CellsIntact'
    BY <1>2, <1>3 DEF CellsIntact, Publish, Cell
<1>5. FilledRange'
    BY DEF FilledRange, Publish
<1> QED
    BY <1>1, <1>4, <1>5 DEF DataInv

(* The wrap of tail finds every unread byte, and the range being filled,   *)
(* in the upper mapping, and leaves them in the same cells.                *)
LEMMA WrapKeepsDataInv ==
    ASSUME DataInv, WrapTail, ~misread' PROVE DataInv'
<1>1. FlowInv /\ FlowInv'
    BY NextFlowInv DEF DataInv, Next, ConsumerStep
<1>2. ASSUME NEW i \in Unread PROVE Cell(i - Base) = Cell(i - Base - BufferSize)
    <2>1. i - Base \in 0 .. MapSize - 1 /\ i - Base >= BufferSize
        BY <1>1, UnreadAddress DEF WrapTail
    <2>2. i - Base \in BufferSize .. MapSize - 1
        BY <2>1, RingAssumption DEF MapSize
    <2> QED
        BY <2>2, CellFacts
<1>3. Unread' = Unread /\ Base' = Base + BufferSize
    BY <1>1, RingAssumption DEF WrapTail, Unread, Base, FlowInv, MapInv, TypeOK
<1>4. ASSUME NEW i \in Unread PROVE i - Base' = i - Base - BufferSize
    BY <1>1, <1>3, UnreadAddress, RingAssumption
<1>5. CellsIntact'
    <2> SUFFICES ASSUME NEW i \in Unread PROVE buffer'[Cell(i - Base')] = i
        BY <1>3 DEF CellsIntact, Cell
    <2> QED
        BY <1>2, <1>4 DEF DataInv, CellsIntact, WrapTail
<1>6. FilledRange'
    <2> SUFFICES ASSUME ppc \in {"copied", "write_finished", "publish"},
                        NEW j \in 0 .. psize - 1
                 PROVE  buffer[Cell(tail - BufferSize + j)] = published + j
        BY DEF FilledRange, WrapTail, producerVars, Cell
    <2>1. /\ tail \in BufferSize .. MapSize /\ psize \in Nat
          /\ pptr + psize <= MapSize
          /\ pptr = tail \/ pptr = tail + BufferSize
        <3>1. MapInv /\ Window /\ ppc \in Holding /\ ppc # "idle"
            BY <1>1 DEF FlowInv, Holding
        <3>2. tail \in Nat /\ tail <= MapSize /\ tail >= BufferSize
            BY <3>1, <1>1, RingAssumption DEF WrapTail, MapInv, TypeOK,
                StaysMapped, MapSize
        <3>3. psize \in Nat /\ pptr + psize <= MapSize
            <4>1. psize \in WriteSizes /\ pptr + psize <= MapSize
                BY <3>1 DEF MapInv, StaysMapped
            <4> QED
                BY <4>1, RingAssumption
        <3> QED
            BY <3>1, <3>2, <3>3, RingAssumption DEF Window, MapSize
    <2>2. /\ tail + j \in BufferSize .. MapSize - 1
          /\ (tail + j) - BufferSize = tail - BufferSize + j
        BY <2>1, RingAssumption DEF MapSize
    <2>3. Cell(tail - BufferSize + j) = Cell(tail + j)
        BY <2>2, CellFacts
    <2> QED
        BY <2>3 DEF DataInv, FilledRange
<1> QED
    BY <1>1, <1>5, <1>6 DEF DataInv

LEMMA NextDataInv ==
    DataInv /\ [Next]_vars /\ ~misread' => DataInv'
<1> SUFFICES ASSUME DataInv, [Next]_vars, ~misread' PROVE DataInv'
    OBVIOUS
<1>1. FlowInv /\ FlowInv'
    BY NextFlowInv DEF DataInv
<1> USE <1>1
<1>2. released \in Nat /\ (cpc = "used" => csize \in Nat)
    BY RingAssumption DEF FlowInv, MapInv, TypeOK
<1>3. CASE \/ \E size \in WriteSizes : BeginWrite(size)
           \/ WritePtrGranted \/ WritePtrRefused \/ WaitReturns
    <2>1. /\ buffer' = buffer /\ tail' = tail /\ published' = published
          /\ released' = released /\ ~(ppc' \in Filled)
        BY <1>3 DEF BeginWrite, WritePtrGranted, WritePtrRefused, WaitReturns,
            Filled
    <2> QED
        BY <1>2, <2>1, QuietKeepsDataInv
<1>4. CASE FinishLoadsHead \/ FinishChecks \/ WriteEnd
    <2>1. /\ buffer' = buffer /\ tail' = tail /\ published' = published
          /\ released' = released
          /\ ppc' \in Filled => ppc \in Filled /\ psize' = psize
        BY <1>4 DEF FinishLoadsHead, FinishChecks, WriteEnd, Filled
    <2> QED
        BY <1>2, <2>1, QuietKeepsDataInv
<1>5. CASE \/ UNCHANGED vars
           \/ \E size \in ReadSizes : ReadBegin(size)
           \/ UseBlock \/ ReadFinished \/ WrapHead
    <2>1. /\ buffer' = buffer /\ tail' = tail /\ published' = published
          /\ ppc' = ppc /\ psize' = psize
        BY <1>5 DEF vars, ReadBegin, UseBlock, ReadFinished, WrapHead,
            producerVars
    <2>2. released' >= released
        BY <1>2, <1>5 DEF vars, ReadBegin, UseBlock, ReadFinished, WrapHead
    <2> QED
        BY <2>1, <2>2, QuietKeepsDataInv
<1> QED
    BY <1>3, <1>4, <1>5, CopyKeepsDataInv,
        PublishKeepsDataInv, WrapKeepsDataInv
        DEF Next, ProducerStep, ConsumerStep

(* The history never forgets.                                              *)
LEMMA MisreadStays == misread /\ [Next]_vars => misread'
BY DEF Next, ProducerStep, ConsumerStep, vars, producerVars,
    BeginWrite, WritePtrGranted, WritePtrRefused, WaitReturns, CopyIn,
    FinishLoadsHead, FinishChecks, Publish, WriteEnd, ReadBegin, UseBlock,
    ReadFinished, WrapHead, WrapTail

(* rb_write_ptr pairs an old head with a new tail, and still never hands   *)
(* out a cell with an unread byte, for any lengths, unless the pair is     *)
(* that of a full ring across a wrap (common/ringbuffer.c:146-152).        *)
THEOREM GrantedIsFree == Spec => []WindowIsFree
<1>1. Init => misread \/ FlowInv
    BY InitFlowInv
<1>2. (misread \/ FlowInv) /\ [Next]_vars => (misread \/ FlowInv)'
    BY NextFlowInv, MisreadStays
<1>3. misread \/ FlowInv => WindowIsFree
    BY FlowWindow DEF WindowIsFree
<1> QED
    BY <1>1, <1>2, <1>3, PTL DEF Spec

(* And every published byte stays readable until it is released.           *)
THEOREM UnreadStaysIntact == Spec => []UnreadIsIntact
<1>1. Init => misread \/ DataInv
    BY InitDataInv
<1>2. (misread \/ DataInv) /\ [Next]_vars => (misread \/ DataInv)'
    BY NextDataInv, MisreadStays
<1>3. misread \/ DataInv => UnreadIsIntact
    BY DEF DataInv, UnreadIsIntact, CellsIntact
<1> QED
    BY <1>1, <1>2, <1>3, PTL DEF Spec

-----------------------------------------------------------------------------
(* The ring implements ByteFifo.                                           *)

(* The n stream positions from a on, as a sequence.                        *)
Stretch(a, n) == [j \in 1 .. n |-> a + j - 1]

LEMMA StretchSeq ==
    ASSUME NEW a \in Int, NEW n \in Nat
    PROVE  /\ Stretch(a, n) \in Seq(Int)
           /\ Len(Stretch(a, n)) = n
           /\ \A j \in 1 .. n : Stretch(a, n)[j] = a + j - 1
BY DEF Stretch

LEMMA StretchConcat ==
    ASSUME NEW a \in Int, NEW m \in Nat, NEW n \in Nat
    PROVE  Stretch(a, m) \o Stretch(a + m, n) = Stretch(a, m + n)
<1> DEFINE s == Stretch(a, m)
           t == Stretch(a + m, n)
           u == Stretch(a, m + n)
<1>1. s \in Seq(Int) /\ t \in Seq(Int) /\ u \in Seq(Int)
    BY StretchSeq
<1>2. Len(s) = m /\ Len(t) = n /\ Len(u) = m + n
    BY StretchSeq
<1> HIDE DEF s, t, u
<1>3. /\ s \o t \in Seq(Int)
      /\ Len(s \o t) = m + n
      /\ \A i \in 1 .. m + n : (s \o t)[i] = IF i <= m THEN s[i] ELSE t[i - m]
    BY <1>1, <1>2, ConcatProperties
<1>4. \A i \in 1 .. m + n : (s \o t)[i] = u[i]
    BY <1>3 DEF s, t, u, Stretch
<1> QED
    BY <1>1, <1>2, <1>3, <1>4, SeqEqual DEF s, t, u

LEMMA StretchSplit ==
    ASSUME NEW a \in Int, NEW n \in Nat, NEW k \in 0 .. n
    PROVE  /\ SubSeq(Stretch(a, n), 1, k) = Stretch(a, k)
           /\ SubSeq(Stretch(a, n), k + 1, n) = Stretch(a + k, n - k)
BY DEF Stretch

(* What has been delivered: all that was released, and the block that has  *)
(* been used and is about to be released.                                  *)
FifoInv ==
    /\ DataInv
    /\ Len(delivered) = released + (IF cpc = "used" THEN csize ELSE 0)

(* What the abstract queue holds then: the stretch not yet delivered.      *)
OutstandingIsStretch ==
    /\ Len(delivered) \in released .. published
    /\ published - Len(delivered) <= BufferSize
    /\ Outstanding = Stretch(Len(delivered), published - Len(delivered))

LEMMA OutstandingNow ==
    FifoInv => OutstandingIsStretch
<1> SUFFICES ASSUME FifoInv PROVE OutstandingIsStretch
    OBVIOUS
<1>1. FlowInv
    BY DEF FifoInv, DataInv
<1>2. /\ Len(delivered) \in released .. published
      /\ published - Len(delivered) <= BufferSize
    BY <1>1, RingAssumption DEF FifoInv, FlowInv, MapInv, TypeOK, StaysMapped, Fill
<1>3. ASSUME NEW j \in 1 .. published - Len(delivered)
      PROVE  buffer[Cell(Len(delivered) - Base + j - 1)] = Len(delivered) + j - 1
    <2>1. Len(delivered) + j - 1 \in Unread
        BY <1>1, <1>2 DEF Unread, FlowInv, MapInv, TypeOK
    <2>2. Base \in Int /\ Len(delivered) \in Int
        BY <1>1, <1>2 DEF Base, FlowInv, MapInv, TypeOK
    <2>3. Len(delivered) - Base + j - 1 = (Len(delivered) + j - 1) - Base
        BY <2>2
    <2> QED
        BY <2>1, <2>3 DEF FifoInv, DataInv, CellsIntact
<1> QED
    BY <1>2, <1>3 DEF OutstandingIsStretch, Outstanding, Stretch

LEMMA OutstandingNext ==
    FifoInv' => OutstandingIsStretch'
<1>1. FifoInv => OutstandingIsStretch
    BY OutstandingNow
<1> QED
    BY <1>1, PTL

LEMMA InitFifo ==
    ASSUME Init PROVE FifoInv /\ Fifo!Init
<1>1. FifoInv
    <2>1. DataInv
        BY InitDataInv
    <2>2. Len(delivered) = 0 /\ released = 0 /\ cpc # "used"
        BY DEF Init
    <2> QED
        BY <2>1, <2>2 DEF FifoInv
<1>2. Outstanding = <<>>
    BY DEF Init, Outstanding
<1> QED
    BY <1>1, <1>2 DEF Fifo!Init, Init

(* tail += size is a put of the next size bytes.                           *)
LEMMA PublishIsPut ==
    ASSUME FifoInv, FifoInv', Publish
    PROVE  Fifo!Next
<1>1. FlowInv /\ FlowInv'
    BY DEF FifoInv, DataInv
<1> DEFINE d == Len(delivered)
<1>2. /\ d \in Int /\ published \in Int /\ published - d \in Nat
      /\ psize \in 1 .. BufferSize /\ psize \in Nat
      /\ d' = d /\ published' = published + psize
    BY <1>1, OutstandingNow, RingAssumption DEF OutstandingIsStretch, Publish, consumerVars, FlowInv,
        MapInv, TypeOK
<1>3. /\ Outstanding = Stretch(d, published - d)
      /\ Outstanding' = Stretch(d, (published - d) + psize)
      /\ published' - d <= BufferSize
    <2>1. Outstanding' = Stretch(d', published' - d') /\ published' - d' <= BufferSize
        BY OutstandingNext DEF OutstandingIsStretch, Stretch
    <2>2. published' - d' = (published - d) + psize
        BY <1>2
    <2> QED
        BY <1>2, <2>1, <2>2, OutstandingNow DEF OutstandingIsStretch
<1>4. Fifo!NextBytes(psize) = Stretch(d + (published - d), psize)
    <2>1. Len(Outstanding) = published - d
        BY <1>2, <1>3, StretchSeq
    <2> QED
        BY <2>1 DEF Fifo!NextBytes, Stretch
<1>5. Outstanding' = Outstanding \o Fifo!NextBytes(psize)
    BY <1>2, <1>3, <1>4, StretchConcat
<1>6. Len(Outstanding) + Len(Fifo!NextBytes(psize)) <= BufferSize
    <2>1. Len(Outstanding) = published - d
        BY <1>2, <1>3, StretchSeq
    <2>2. d + (published - d) \in Int
        BY <1>2
    <2>3. Len(Fifo!NextBytes(psize)) = psize
        BY <1>2, <1>4, <2>2, StretchSeq
    <2> QED
        BY <1>2, <1>3, <2>1, <2>3
<1>7. Fifo!Put(Fifo!NextBytes(psize))
    BY <1>5, <1>6 DEF Fifo!Put, Publish, consumerVars
<1> QED
    BY <1>2, <1>7 DEF Fifo!Next

(* The use of a block is a get of its bytes.                               *)
LEMMA UseIsGet ==
    ASSUME FifoInv, FifoInv', UseBlock
    PROVE  Fifo!Next
<1>1. FlowInv /\ FlowInv'
    BY DEF FifoInv, DataInv
<1> DEFINE d == Len(delivered)
           n == published - d
<1>2. /\ d \in Int /\ n \in Nat /\ d = released
      /\ csize \in 1 .. BufferSize /\ csize \in 0 .. n
      /\ head = released - Base /\ Base \in Int
      /\ d' = d + csize /\ published' = published
    BY <1>1, RingAssumption DEF UseBlock, FifoInv, FlowInv, MapInv, TypeOK,
        StaysMapped, Fill, Base, producerVars
<1>3. /\ Outstanding = Stretch(d, n)
      /\ Outstanding' = Stretch(d + csize, n - csize)
    <2>1. Outstanding' = Stretch(d', published' - d')
        BY OutstandingNext DEF OutstandingIsStretch, Stretch
    <2>2. published' - d' = n - csize
        BY <1>1, <1>2 DEF FlowInv, MapInv, TypeOK
    <2> QED
        BY <1>2, <2>1, <2>2, OutstandingNow DEF OutstandingIsStretch
<1>4. /\ SubSeq(Outstanding, 1, csize) = Stretch(d, csize)
      /\ Outstanding' = SubSeq(Outstanding, csize + 1, Len(Outstanding))
      /\ Len(Outstanding) = n
    <2>1. d \in Int /\ n \in Nat /\ csize \in 0 .. n
        BY <1>2
    <2> HIDE DEF d, n
    <2>2. Len(Stretch(d, n)) = n
        BY <2>1, StretchSeq
    <2>3. /\ SubSeq(Stretch(d, n), 1, csize) = Stretch(d, csize)
          /\ SubSeq(Stretch(d, n), csize + 1, n) = Stretch(d + csize, n - csize)
        BY <2>1, StretchSplit
    <2> QED
        BY <1>3, <2>2, <2>3
<1>5. [j \in 1 .. csize |-> buffer[Cell(head + j - 1)]] = Stretch(d, csize)
    <2> SUFFICES ASSUME NEW j \in 1 .. csize
                 PROVE  buffer[Cell(head + j - 1)] = d + j - 1
        BY DEF Stretch
    <2>1. d + j - 1 \in Unread
        BY <1>1, <1>2 DEF Unread, FlowInv, MapInv, TypeOK
    <2>2. head + j - 1 = (d + j - 1) - Base
        BY <1>2
    <2> QED
        BY <2>1, <2>2 DEF FifoInv, DataInv, CellsIntact
<1>6. Fifo!Get(csize)
    <2>1. csize <= Len(Outstanding)
        BY <1>2, <1>4
    <2>2. delivered' = delivered \o SubSeq(Outstanding, 1, csize)
        BY <1>4, <1>5 DEF UseBlock
    <2> QED
        BY <1>4, <2>1, <2>2 DEF Fifo!Get
<1> QED
    BY <1>2, <1>6 DEF Fifo!Next

(* FifoInv is inductive: only the use of a block and its release move the  *)
(* two sides of its equation.                                              *)
LEMMA NextFifoInv ==
    FifoInv /\ [Next]_vars /\ ~misread' => FifoInv'
<1> SUFFICES ASSUME FifoInv, [Next]_vars, ~misread' PROVE FifoInv'
    OBVIOUS
<1>1. DataInv /\ DataInv'
    BY NextDataInv DEF FifoInv
<1>2. /\ released \in Nat /\ delivered \in Seq(Int)
      /\ cpc \in {"reading", "used"} => csize \in Nat
      /\ cpc \in {"reading", "used"} => head + csize <= tail
      /\ buffer \in [0 .. BufferSize - 1 -> Int]
      /\ head \in 0 .. MapSize /\ tail \in 0 .. MapSize
    <2>1. MapInv
        BY <1>1 DEF DataInv, FlowInv
    <2>2. \A r \in ReadSizes : r \in Nat
        BY RingAssumption
    <2> QED
        BY <2>1, <2>2 DEF MapInv, TypeOK, StaysMapped
<1>3. CASE UseBlock
    <2> DEFINE b == [j \in 1 .. csize |-> buffer[Cell(head + j - 1)]]
    <2>1. ASSUME NEW j \in 1 .. csize PROVE buffer[Cell(head + j - 1)] \in Int
        <3>1. cpc = "reading"
            BY <1>3 DEF UseBlock
        <3>2. /\ head \in Nat /\ tail \in Int /\ MapSize \in Int
              /\ j \in Int /\ 1 <= j /\ j <= csize /\ csize \in Nat
              /\ head + csize <= tail /\ tail <= MapSize
            BY <1>2, <3>1, RingAssumption DEF MapSize
        <3>3. head + j - 1 \in 0 .. MapSize - 1
            BY <3>2
        <3>4. Cell(head + j - 1) \in 0 .. BufferSize - 1
            BY <3>3, CellFacts
        <3> QED
            BY <1>2, <3>4
    <2>2. b \in Seq(Int) /\ Len(b) = csize
        <3>1. csize \in Nat
            BY <1>2, <1>3 DEF UseBlock
        <3> QED
            BY <2>1, <3>1, SMTT(30)
    <2>3. Len(delivered \o b) = Len(delivered) + csize
        <3>1. delivered \in Seq(Int)
            BY <1>2
        <3> HIDE DEF b
        <3> QED
            BY <2>2, <3>1, ConcatProperties
    <2> QED
        BY <1>1, <1>2, <1>3, <2>3 DEF FifoInv, UseBlock
<1>4. CASE ReadFinished
    BY <1>1, <1>2, <1>4 DEF FifoInv, ReadFinished
<1>5. CASE (\E size \in ReadSizes : ReadBegin(size)) \/ WrapHead \/ WrapTail
    BY <1>1, <1>5 DEF FifoInv, ReadBegin, WrapHead, WrapTail
<1>6. CASE \/ UNCHANGED vars
           \/ ProducerStep
           \/ \E size \in WriteSizes : BeginWrite(size)
    <2>1. delivered' = delivered /\ released' = released /\ cpc' = cpc /\ csize' = csize
        BY <1>6 DEF vars, consumerVars, ProducerStep, BeginWrite,
            WritePtrGranted, WritePtrRefused, WaitReturns, CopyIn,
            FinishLoadsHead, FinishChecks, Publish, WriteEnd
    <2> QED
        BY <1>1, <2>1 DEF FifoInv
<1> QED
    BY <1>3, <1>4, <1>5, <1>6 DEF Next, ConsumerStep

(* Every step maps to a step of ByteFifo or to a stutter.                  *)
LEMMA NextFifo ==
    FifoInv /\ [Next]_vars /\ ~misread' => Fifo!Next \/ UNCHANGED Fifo!vars
<1> SUFFICES ASSUME FifoInv, [Next]_vars, ~misread'
             PROVE  Fifo!Next \/ UNCHANGED Fifo!vars
    OBVIOUS
<1>1. FifoInv'
    BY NextFifoInv
<1>2. CASE Publish
    BY <1>1, <1>2, PublishIsPut
<1>3. CASE UseBlock
    BY <1>1, <1>3, UseIsGet
<1>4. ASSUME delivered' = delivered, published' = published
      PROVE  UNCHANGED Fifo!vars
    <2>1. /\ Outstanding = Stretch(Len(delivered), published - Len(delivered))
          /\ Outstanding' = Stretch(Len(delivered)', published' - Len(delivered)')
        BY <1>1, OutstandingNow, OutstandingNext DEF OutstandingIsStretch, Stretch
    <2>2. Outstanding' = Outstanding
        BY <1>4, <2>1
    <2> QED
        BY <1>4, <2>2 DEF Fifo!vars
<1>5. CASE \/ UNCHANGED vars
           \/ \E size \in WriteSizes : BeginWrite(size)
           \/ WritePtrGranted \/ WritePtrRefused \/ WaitReturns \/ CopyIn
           \/ FinishLoadsHead \/ FinishChecks \/ WriteEnd
    BY <1>4, <1>5 DEF vars, consumerVars, BeginWrite, WritePtrGranted,
        WritePtrRefused, WaitReturns, CopyIn, FinishLoadsHead, FinishChecks,
        WriteEnd
<1>6. CASE \/ \E size \in ReadSizes : ReadBegin(size)
           \/ ReadFinished \/ WrapHead \/ WrapTail
    BY <1>4, <1>6 DEF ReadBegin, ReadFinished, WrapHead, WrapTail
<1> QED
    BY <1>2, <1>3, <1>5, <1>6 DEF Next, ProducerStep, ConsumerStep

(* The ring is a bounded first-in first-out queue of what it publishes,    *)
(* for every interleaving of the producer, the consumer and the wrap, until*)
(* a full ring is taken for an empty one (common/ringbuffer.c:145-204).    *)
THEOREM RingIsFifo == Spec => ImplementsFifo
<1>1. Init => Fifo!Init /\ (misread \/ FifoInv)
    BY InitFifo
<1>2. (misread \/ FifoInv) /\ [Next]_vars => (misread \/ FifoInv)'
    BY NextFifoInv, MisreadStays
<1>3. (misread \/ FifoInv) /\ [Next]_vars
          => [misread' \/ Fifo!Next \/ UNCHANGED Fifo!vars]_vars
    BY NextFifo, MisreadStays
<1> QED
    BY <1>1, <1>2, <1>3, PTL DEF Spec, ImplementsFifo
=============================================================================
