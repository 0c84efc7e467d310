-------------------------- MODULE StreamMarksProofs --------------------------
(***************************************************************************)
(* Proofs about StreamMarks: whatever the queue's capacity, the write and  *)
(* block sizes and the interleaving of the recovery snapshot, a block      *)
(* reported safe was written clean under one stamp, one reported to        *)
(* continue its predecessor does, and while the queue has not overflowed   *)
(* no uniform block is refused.                                            *)
(***************************************************************************)
EXTENDS StreamMarks, SequenceTheorems, WellFoundedInduction, TLAPS

Stamps == Rates \X (Nat \ {0})
AnyStamp == Stamps \cup {<<0, 0>>}
Marks == [position : Nat, stamp : Stamps, unsafe : BOOLEAN]
AnyMark == [position : Nat, stamp : AnyStamp, unsafe : BOOLEAN]

Copying == call.pc \notin {"idle", "walk"}

(* No store of the snapshot is under way, in its order of words.           *)
Settled == wpc \in {"idle", "publish", "odd"}

Types ==
    /\ queue \in Seq(Marks)
    /\ sequence \in Nat
    /\ recovery \in AnyMark /\ producer \in AnyMark
    /\ epoch \in Nat \ {0}
    /\ wpc \in {"idle", "publish", "odd", "position", "stamp", "unsafe", "even"}
    /\ written \in Seq(AnyStamp \X BOOLEAN)
    /\ published \in Nat
    /\ consumer \in [mark : AnyMark, seen : Nat, minimum : Nat, gap : BOOLEAN]
    /\ call \in [pc : {"idle", "position", "unsafe", "stamp", "recheck", "drop", "walk"},
                 position : Nat, safe : BOOLEAN, sequence : Nat, copy : AnyMark]
    /\ result \in [position : Int, safe : BOOLEAN, stamp : AnyStamp,
                   discontinuity : BOOLEAN, before : BOOLEAN]

Word(m) == <<m.stamp, m.unsafe>>

(* A mark says what the pair at its position was written under.            *)
Truthful(m) == m.position < Len(written) /\ written[m.position + 1] = Word(m)

(* The pairs up to here are those whose marks have been dealt with.        *)
End == IF wpc = "odd" THEN producer.position ELSE Len(written)

(* The mark from which the queue is complete: the consumer's while nothing *)
(* was lost since it was set, else the snapshot.                           *)
Base == IF consumer.seen = sequence THEN consumer.mark ELSE recovery

Change(x) == written[x] # written[x + 1]

Marked(x) == \E i \in DOMAIN queue : queue[i].position = x

ProducerInv ==
    /\ published = IF wpc = "idle" THEN Len(written) ELSE producer.position
    /\ written = <<>> => wpc = "idle" /\ producer.position = 0
    /\ written # <<>> => producer.position < Len(written)
    /\ \A x \in producer.position + 1 .. Len(written) : written[x] = Word(producer)
    /\ sequence % 2 = IF Settled THEN 0 ELSE 1
    /\ wpc \in {"stamp", "unsafe", "even"} => recovery.position = producer.position
    /\ wpc \in {"unsafe", "even"} => recovery.stamp = producer.stamp
    /\ wpc = "even" => recovery.unsafe = producer.unsafe
    /\ Settled /\ sequence > 0 => Truthful(recovery) /\ recovery.position <= producer.position

QueueInv ==
    /\ Len(queue) <= Capacity
    /\ \A i, j \in DOMAIN queue : i < j => queue[i].position < queue[j].position
    /\ \A i \in DOMAIN queue :
          Truthful(queue[i]) /\ (queue[i].position > 0 => Change(queue[i].position))
    /\ consumer.seen <= sequence /\ consumer.seen % 2 = 0
    /\ consumer.mark # NoMark => Truthful(consumer.mark)
    /\ consumer.seen = sequence =>
          \A i \in DOMAIN queue : consumer.mark.position <= queue[i].position
    /\ Settled => \A x \in Base.position + 1 .. End - 1 : Change(x) => Marked(x)

CallInv ==
    /\ call.position <= published
    /\ call.pc # "idle" => BlockEnd <= published
    /\ Copying => /\ call.sequence % 2 = 0 /\ ~call.safe
                  /\ consumer.seen < call.sequence /\ call.sequence <= sequence
    /\ Copying /\ call.pc # "position" /\ call.sequence = sequence =>
          /\ call.copy.position = recovery.position
          /\ call.pc # "unsafe" => call.copy.unsafe = recovery.unsafe
          /\ call.pc \notin {"unsafe", "stamp"} => call.copy.stamp = recovery.stamp
    /\ call.pc = "drop" => /\ Truthful(call.copy)
                           /\ call.copy.position <= producer.position
                           /\ Settled => call.copy.position <= recovery.position
    /\ Settled /\ \/ call.pc = "walk" /\ consumer.seen # sequence
                  \/ Copying /\ call.sequence # sequence
          => BlockEnd <= recovery.position
    /\ \/ consumer.mark.position <= consumer.minimum
       \/ consumer.mark.position < (IF call.pc = "idle" THEN call.position ELSE BlockEnd)
    /\ call.pc = "walk" /\ call.safe => consumer.mark.position <= call.position

(* Before the first overflow nothing is refused without a change inside.   *)
NothingLostInv ==
    sequence = 0 =>
        /\ consumer.minimum = 0 /\ ~Copying
        /\ consumer.mark = NoMark /\ written # <<>> =>
              queue # <<>> /\ Head(queue).position = 0
        /\ call.pc = "walk" /\ ~call.safe =>
              \E x \in call.position + 1 .. BlockEnd - 1 : Change(x)

ResultInv ==
    /\ Answered => ResultEnd = call.position
    /\ SafeIsUniform /\ UniformIsSafe /\ UnmarkedIsContinuous
    /\ Answered /\ result.safe /\ ~result.discontinuity => result.position >= BlockSize
    /\ ~consumer.gap => Answered /\ result.safe /\ result.stamp = consumer.mark.stamp

MarksInv == Types /\ ProducerInv /\ QueueInv /\ CallInv /\ NothingLostInv /\ ResultInv

-----------------------------------------------------------------------------
(* A set of naturals has a least member.                                   *)
LEMMA LeastMember ==
    ASSUME NEW T, T \subseteq Nat, T # {}
    PROVE  \E x \in T : \A y \in T : x <= y
<1> DEFINE R == OpToRel(<, Nat)
<1>1. \E x \in T : \A y \in T : ~(<<y, x>> \in R)
    BY NatLessThanWellFounded, WFMin, Zenon
<1>2. ASSUME NEW x \in Nat, NEW y \in Nat, y < x PROVE <<y, x>> \in R
    BY <1>2, Zenon DEF OpToRel
<1> HIDE DEF R
<1>3. PICK x \in T : \A y \in T : ~(<<y, x>> \in R)
    BY <1>1, Zenon
<1>4. ASSUME NEW y \in T PROVE x <= y
    <2>1. ~(y < x)
        BY <1>2, <1>3, Zenon
    <2> QED
        BY <2>1
<1> QED
    BY <1>4, Zenon

(* A stretch without a change is constant.                                 *)
LEMMA NoChangeIsUniform ==
    ASSUME NEW a \in Nat, NEW b \in Nat, \A x \in a + 1 .. b - 1 : ~Change(x)
    PROVE  \A x \in a + 1 .. b : written[x] = written[a + 1]
<1> DEFINE T == {x \in a + 1 .. b : written[x] # written[a + 1]}
<1> SUFFICES ASSUME T # {} PROVE FALSE
    OBVIOUS
<1>1. PICK m \in T : \A x \in T : m <= x
    <2>1. T \subseteq Nat
        OBVIOUS
    <2> QED
        BY <2>1, LeastMember
<1>2. m \in a + 1 .. b /\ written[m] # written[a + 1] /\ m # a + 1
    BY <1>1
<1>3. m - 1 \in a + 1 .. b - 1 /\ m - 1 \in a + 1 .. b /\ (m - 1) + 1 = m /\ ~(m <= m - 1)
    BY <1>2
<1>4. written[m - 1] = written[a + 1]
    BY <1>1, <1>3
<1>5. written[m - 1] = written[(m - 1) + 1]
    BY <1>3 DEF Change
<1> QED
    BY <1>2, <1>3, <1>4, <1>5

LEMMA InitMarksInv == Init => MarksInv
<1> SUFFICES ASSUME Init PROVE MarksInv
    OBVIOUS
<1> USE DEF Init
<1>1. NoMark \in AnyMark
    BY DEF NoMark, Mark, AnyMark, AnyStamp
<1>2. Types
    <2>1. queue \in Seq(Marks) /\ written \in Seq(AnyStamp \X BOOLEAN)
        OBVIOUS
    <2>2. /\ consumer \in [mark : AnyMark, seen : Nat, minimum : Nat, gap : BOOLEAN]
          /\ call \in [pc : {"idle", "position", "unsafe", "stamp", "recheck", "drop", "walk"},
                        position : Nat, safe : BOOLEAN, sequence : Nat, copy : AnyMark]
        BY <1>1 DEF Idle
    <2>3. result \in [position : Int, safe : BOOLEAN, stamp : AnyStamp,
                      discontinuity : BOOLEAN, before : BOOLEAN]
        BY DEF AnyStamp
    <2> QED
        BY <1>1, <2>1, <2>2, <2>3 DEF Types
<1>3. /\ Len(written) = 0 /\ DOMAIN queue = {} /\ Len(queue) = 0
      /\ NoMark.position = 0
    BY DEF NoMark, Mark
<1>4. ProducerInv
    BY <1>3 DEF ProducerInv, Settled
<1>5. QueueInv
    BY <1>3, MarksAssumption DEF QueueInv, Base, End
<1>6. CallInv /\ NothingLostInv
    BY <1>3 DEF CallInv, NothingLostInv, Copying, Idle, Settled
<1>7. ResultInv
    BY DEF ResultInv, SafeIsUniform, UniformIsSafe, UnmarkedIsContinuous, Answered
<1> QED
    BY <1>2, <1>4, <1>5, <1>6, <1>7 DEF MarksInv

-----------------------------------------------------------------------------
(* The types of everything the steps compare.                              *)
Typed ==
    /\ BlockSize \in Nat \ {0} /\ Capacity \in Nat \ {0}
    /\ sequence \in Nat /\ published \in Nat /\ published <= Len(written)
    /\ producer.position <= Len(written) /\ published >= producer.position
    /\ written \in Seq(AnyStamp \X BOOLEAN) /\ Len(written) \in Nat
    /\ queue \in Seq(Marks) /\ Len(queue) \in Nat /\ DOMAIN queue = 1 .. Len(queue)
    /\ \A i \in DOMAIN queue : queue[i] \in Marks /\ queue[i].position \in Nat
    /\ recovery \in AnyMark /\ producer \in AnyMark
    /\ recovery.position \in Nat /\ producer.position \in Nat
    /\ consumer.mark \in AnyMark /\ consumer.mark.position \in Nat
    /\ consumer.seen \in Nat /\ consumer.minimum \in Nat /\ consumer.gap \in BOOLEAN
    /\ call.position \in Nat /\ BlockEnd \in Nat /\ BlockEnd = call.position + BlockSize
    /\ call.safe \in BOOLEAN /\ call.sequence \in Nat
    /\ call.copy \in AnyMark /\ call.copy.position \in Nat
    /\ result.position \in Int /\ result.safe \in BOOLEAN /\ result.stamp \in AnyStamp

LEMMA MarksTyped == ASSUME MarksInv PROVE Typed
<1>1. Types /\ ProducerInv
    BY DEF MarksInv
<1>2. BlockSize \in Nat \ {0} /\ Capacity \in Nat \ {0}
    BY MarksAssumption
<1>3. /\ sequence \in Nat /\ published \in Nat /\ queue \in Seq(Marks)
      /\ written \in Seq(AnyStamp \X BOOLEAN)
      /\ recovery \in AnyMark /\ producer \in AnyMark
    BY <1>1 DEF Types
<1>4. \A m \in AnyMark \cup Marks : m.position \in Nat
    BY DEF AnyMark, Marks
<1>5. /\ consumer.mark \in AnyMark /\ consumer.seen \in Nat /\ consumer.minimum \in Nat
      /\ consumer.gap \in BOOLEAN
    BY <1>1 DEF Types
<1>6. /\ call.position \in Nat /\ call.safe \in BOOLEAN /\ call.sequence \in Nat
      /\ call.copy \in AnyMark
    BY <1>1 DEF Types
<1>7. result.position \in Int /\ result.safe \in BOOLEAN /\ result.stamp \in AnyStamp
    BY <1>1 DEF Types
<1>8. /\ Len(written) \in Nat /\ Len(queue) \in Nat /\ DOMAIN queue = 1 .. Len(queue)
      /\ \A i \in DOMAIN queue : queue[i] \in Marks
    BY <1>3
<1>9. BlockEnd \in Nat /\ BlockEnd = call.position + BlockSize
    BY <1>2, <1>6 DEF BlockEnd
<1>10. /\ published <= Len(written) /\ producer.position <= Len(written)
       /\ published >= producer.position
    <2>1. Len(written) \in Nat /\ producer.position \in Nat
        BY <1>3, <1>4
    <2>2. producer.position <= Len(written)
        <3>1. CASE written = <<>>
            BY <1>1, <2>1, <3>1 DEF ProducerInv
        <3>2. CASE written # <<>>
            BY <1>1, <2>1, <3>2 DEF ProducerInv
        <3> QED
            BY <3>1, <3>2
    <2> QED
        BY <1>1, <2>1, <2>2 DEF ProducerInv
<1> QED
    BY <1>2, <1>3, <1>4, <1>5, <1>6, <1>7, <1>8, <1>9, <1>10 DEF Typed

(* A step that neither answers nor loses keeps what was answered.          *)
LEMMA ResultKept ==
    ASSUME MarksInv, UNCHANGED <<written, result>>, call'.position = call.position,
           sequence' = 0 => sequence = 0,
           consumer'.gap \/ UNCHANGED consumer
    PROVE  ResultInv'
<1>1. Answered' = Answered /\ ResultEnd' = ResultEnd
    BY DEF Answered, ResultEnd
<1>2. SafeIsUniform'
    BY <1>1 DEF MarksInv, ResultInv, SafeIsUniform, Uniform
<1>3. UniformIsSafe'
    BY <1>1 DEF MarksInv, ResultInv, UniformIsSafe, Uniform
<1>4. UnmarkedIsContinuous'
    BY <1>1 DEF MarksInv, ResultInv, UnmarkedIsContinuous, Uniform
<1> QED
    BY <1>1, <1>2, <1>3, <1>4 DEF MarksInv, ResultInv

-----------------------------------------------------------------------------
(* The capture thread's steps.                                             *)

(* observe_rf_write appends pairs of one stamp and rewrites none.          *)
LEMMA ObserveGrows ==
    ASSUME MarksInv, NEW size \in WriteSizes, NEW rate \in Rates, NEW trouble \in BOOLEAN,
           Observe(size, rate, trouble)
    PROVE  \E mark \in Marks :
             /\ mark.position = Len(written) /\ producer' = mark /\ epoch' \in Nat \ {0}
             /\ written' \in Seq(AnyStamp \X BOOLEAN) /\ Len(written') = Len(written) + size
             /\ \A x \in 1 .. Len(written) : written'[x] = written[x]
             /\ \A x \in Len(written) + 1 .. Len(written) + size : written'[x] = Word(mark)
             /\ wpc = "idle" /\ size \in Nat \ {0}
             /\ UNCHANGED <<sequence, recovery, published, consumer, call, result>>
             /\ \/ Changed(mark) /\ Room /\ queue' = Append(queue, mark) /\ wpc' = "publish"
                \/ Changed(mark) /\ ~Room /\ queue' = queue /\ wpc' = "odd"
                \/ ~Changed(mark) /\ queue' = queue /\ wpc' = "publish"
<1> DEFINE gap == trouble \/ written = <<>>
           e == IF gap THEN epoch + 1 ELSE epoch
           mark == Mark(Len(written), <<rate, e>>, gap)
           pairs == [i \in 1 .. size |-> <<mark.stamp, gap>>]
<1>1. Typed /\ epoch \in Nat \ {0} /\ size \in Nat \ {0}
    BY MarksTyped, MarksAssumption DEF MarksInv, Types
<1>2. gap \in BOOLEAN /\ e \in Nat \ {0}
    BY <1>1
<1>3. mark \in Marks /\ mark.position = Len(written) /\ Word(mark) = <<mark.stamp, gap>>
      /\ mark.stamp \in Stamps
    BY <1>1, <1>2 DEF Mark, Marks, Stamps, Typed, Word
<1>4. /\ wpc = "idle" /\ epoch' = e /\ producer' = mark /\ written' = written \o pairs
      /\ queue' = IF Changed(mark) /\ Room THEN Append(queue, mark) ELSE queue
      /\ wpc' = IF Changed(mark) /\ ~Room THEN "odd" ELSE "publish"
      /\ UNCHANGED <<sequence, recovery, published, consumer, call, result>>
    BY DEF Observe
<1> HIDE DEF mark, gap, e
<1>5. /\ pairs \in Seq(AnyStamp \X BOOLEAN) /\ Len(pairs) = size
      /\ \A i \in 1 .. size : pairs[i] = Word(mark)
    <2>1. <<mark.stamp, gap>> \in AnyStamp \X BOOLEAN
        BY <1>2, <1>3 DEF AnyStamp
    <2>2. pairs \in [1 .. size -> AnyStamp \X BOOLEAN]
        BY <2>1
    <2>3. pairs \in Seq(AnyStamp \X BOOLEAN)
        BY <1>1, <2>2, SeqDef
    <2> QED
        BY <1>1, <1>3, <2>3
<1> HIDE DEF pairs
<1>6. /\ written' \in Seq(AnyStamp \X BOOLEAN) /\ Len(written') = Len(written) + size
      /\ \A x \in 1 .. Len(written) + size :
            written'[x] = IF x <= Len(written) THEN written[x] ELSE pairs[x - Len(written)]
    <2>1. written \in Seq(AnyStamp \X BOOLEAN)
        BY <1>1 DEF Typed
    <2> QED
        BY <1>4, <1>5, <2>1, ConcatProperties
<1> DEFINE n == Len(written)
<1>7. n \in Nat
    BY <1>1 DEF Typed
<1>8. \A x \in 1 .. n + size : written'[x] = IF x <= n THEN written[x] ELSE pairs[x - n]
    BY <1>6
<1> HIDE DEF n
<1>9. \A x \in 1 .. n : written'[x] = written[x]
    BY <1>1, <1>7, <1>8
<1>10. ASSUME NEW x \in n + 1 .. n + size PROVE written'[x] = Word(mark)
    <2>1. x \in 1 .. n + size /\ ~(x <= n) /\ x - n \in 1 .. size
        BY <1>1, <1>7
    <2> QED
        BY <1>5, <1>8, <2>1
<1> QED
    BY <1>1, <1>2, <1>3, <1>4, <1>6, <1>9, <1>10 DEF n

LEMMA ObserveInv ==
    ASSUME MarksInv, NEW size \in WriteSizes, NEW rate \in Rates, NEW trouble \in BOOLEAN,
           Observe(size, rate, trouble)
    PROVE  MarksInv'
<1> DEFINE n == Len(written)
<1>1. PICK mark \in Marks :
        /\ mark.position = n /\ producer' = mark /\ epoch' \in Nat \ {0}
        /\ written' \in Seq(AnyStamp \X BOOLEAN) /\ Len(written') = n + size
        /\ \A x \in 1 .. n : written'[x] = written[x]
        /\ \A x \in n + 1 .. n + size : written'[x] = Word(mark)
        /\ wpc = "idle" /\ size \in Nat \ {0}
        /\ UNCHANGED <<sequence, recovery, published, consumer, call, result>>
        /\ \/ Changed(mark) /\ Room /\ queue' = Append(queue, mark) /\ wpc' = "publish"
           \/ Changed(mark) /\ ~Room /\ queue' = queue /\ wpc' = "odd"
           \/ ~Changed(mark) /\ queue' = queue /\ wpc' = "publish"
    BY ObserveGrows
<1>2. Typed
    BY MarksTyped
<1>3. n \in Nat /\ published = n /\ producer.position <= n
    BY <1>1, <1>2 DEF Typed, MarksInv, ProducerInv
<1>4. Settled /\ Settled' /\ End = n
    BY <1>1 DEF Settled, End
<1>5. mark \in AnyMark /\ (mark.stamp # producer.stamp \/ mark.unsafe # producer.unsafe
                             => Word(mark) # Word(producer))
      /\ (mark.stamp = producer.stamp /\ mark.unsafe = producer.unsafe
                             => Word(mark) = Word(producer))
    BY DEF Marks, AnyMark, AnyStamp, Word
<1>6. n > 0 => written # <<>> /\ producer.position < n /\ written[n] = Word(producer)
    <2>1. n > 0 => written # <<>>
        BY <1>3
    <2>2. written # <<>> => producer.position < n
        BY DEF MarksInv, ProducerInv
    <2>3. producer.position \in Nat
        BY <1>2 DEF Typed
    <2>4. \A x \in producer.position + 1 .. n : written[x] = Word(producer)
        BY DEF MarksInv, ProducerInv
    <2> HIDE DEF n
    <2> QED
        BY <1>3, <2>1, <2>2, <2>3, <2>4
<1>7. n = 0 => written = <<>>
    BY <1>2 DEF Typed
(* What was said of a pair stays true.                                     *)
<1>8. \A p \in Nat : p < n => p < n + size /\ written'[p + 1] = written[p + 1]
    <2> HIDE DEF n
    <2> QED
        BY <1>1, <1>3
<1>9. \A p \in Nat : p > 0 /\ p < n => written'[p] = written[p]
    <2> HIDE DEF n
    <2> QED
        BY <1>1, <1>3
<1>10. \A i \in DOMAIN queue :
         /\ queue[i].position \in Nat /\ queue[i].position < n
         /\ written[queue[i].position + 1] = Word(queue[i])
         /\ queue[i].position > 0 => written[queue[i].position] # written[queue[i].position + 1]
    BY <1>2 DEF MarksInv, QueueInv, Truthful, Change, Typed
<1> HIDE DEF n
<1>11. queue \in Seq(Marks) /\ Len(queue) \in Nat /\ DOMAIN queue = 1 .. Len(queue)
    BY <1>2 DEF Typed
<1>12. Append(queue, mark) \in Seq(Marks)
    BY <1>11
<1>13. queue' \in Seq(Marks)
    BY <1>1, <1>11, <1>12
<1>14. \/ queue' = queue
       \/ /\ Len(queue') = Len(queue) + 1 /\ queue'[Len(queue) + 1] = mark
          /\ DOMAIN queue' = 1 .. Len(queue) + 1
          /\ \A i \in DOMAIN queue : queue'[i] = queue[i]
          /\ Changed(mark) /\ Room /\ wpc' = "publish"
    <2>1. CASE queue' = queue
        BY <2>1
    <2>2. CASE Changed(mark) /\ Room /\ queue' = Append(queue, mark) /\ wpc' = "publish"
        <3>1. /\ Len(queue') = Len(queue) + 1 /\ queue'[Len(queue) + 1] = mark
              /\ \A i \in 1 .. Len(queue) : queue'[i] = queue[i]
            BY <1>11, <2>2
        <3>2. DOMAIN queue' = 1 .. Len(queue) + 1
            BY <1>13, <3>1
        <3> QED
            BY <1>11, <2>2, <3>1, <3>2
    <2> QED
        BY <1>1, <2>1, <2>2
(* Each mark of the queue is an old one or the new one.                    *)
<1>15. ASSUME NEW i \in DOMAIN queue'
       PROVE  \/ i \in DOMAIN queue /\ queue'[i] = queue[i]
              \/ i = Len(queue) + 1 /\ queue'[i] = mark /\ Changed(mark)
    <2>1. CASE queue' = queue
        BY <2>1
    <2>2. CASE queue' # queue
        <3>1. i \in 1 .. Len(queue) + 1
            BY <1>14, <2>2
        <3>2. i \in 1 .. Len(queue) \/ i = Len(queue) + 1
            BY <1>11, <3>1
        <3> QED
            BY <1>14, <1>11, <2>2, <3>2
    <2> QED
        BY <2>1, <2>2
<1>16. \A i \in DOMAIN queue : i \in DOMAIN queue' /\ queue'[i] = queue[i]
    BY <1>2, <1>14 DEF Typed
<1>17. Types'
    <2>1. sequence \in Nat /\ recovery \in AnyMark
        BY <1>2 DEF Typed
    <2>2. /\ consumer' = consumer /\ call' = call /\ result' = result /\ published' \in Nat
          /\ sequence' \in Nat /\ recovery' \in AnyMark /\ producer' \in AnyMark
          /\ wpc' \in {"idle", "publish", "odd", "position", "stamp", "unsafe", "even"}
        BY <1>1, <1>3, <1>5, <2>1
    <2> QED
        BY <1>1, <1>13, <2>2 DEF MarksInv, Types
<1>18. ProducerInv'
    <2>1. written' # <<>>
        BY <1>1, <1>3
    <2>2. wpc' # "idle" /\ published' = producer'.position
        BY <1>1, <1>3
    <2>3. wpc' \notin {"stamp", "unsafe", "even"}
        BY <1>1
    <2>4. sequence' % 2 = 0
        BY <1>1, <1>4 DEF MarksInv, ProducerInv
    <2>5. sequence > 0 => Truthful(recovery)' /\ recovery'.position <= producer'.position
        <3>1. sequence > 0 => /\ recovery.position < n /\ recovery.position <= producer.position
                              /\ written[recovery.position + 1] = Word(recovery)
            BY <1>4 DEF MarksInv, ProducerInv, Truthful, n
        <3>2. recovery.position \in Nat /\ producer.position \in Nat
            BY <1>2 DEF Typed
        <3> QED
            BY <1>1, <1>3, <1>8, <3>1, <3>2 DEF Truthful
    <2>6. producer'.position < Len(written')
        BY <1>1, <1>3
    <2>7. \A x \in producer'.position + 1 .. Len(written') : written'[x] = Word(producer')
        BY <1>1
    <2> QED
        BY <1>1, <1>4, <2>1, <2>2, <2>3, <2>4, <2>5, <2>6, <2>7 DEF ProducerInv
<1>19. QueueInv'
    <2>1. Len(queue') <= Capacity
        <3>1. Len(queue) <= Capacity /\ Len(queue) \in Nat /\ Capacity \in Nat
            BY <1>2 DEF MarksInv, QueueInv, Typed
        <3> QED
            BY <1>14, <3>1 DEF Room
    <2>2. ASSUME NEW i \in DOMAIN queue', NEW j \in DOMAIN queue', i < j
          PROVE  queue'[i].position < queue'[j].position
        <3>1. i \in DOMAIN queue
            <4>1. DOMAIN queue' \subseteq 1 .. Len(queue) + 1 /\ DOMAIN queue = 1 .. Len(queue)
                  /\ Len(queue) \in Nat
                <5>1. 1 .. Len(queue) \subseteq 1 .. Len(queue) + 1
                    BY <1>11
                <5> QED
                    BY <1>14, <1>11, <5>1
            <4> QED
                BY <2>2, <4>1
        <3>2. CASE j \in DOMAIN queue
            BY <1>16, <2>2, <3>1, <3>2 DEF MarksInv, QueueInv
        <3>3. CASE queue'[j] = mark
            BY <1>1, <1>10, <1>16, <3>1, <3>3
        <3> QED
            BY <1>15, <3>2, <3>3
    <2>3. ASSUME NEW i \in DOMAIN queue'
          PROVE  /\ Truthful(queue[i])'
                 /\ queue'[i].position > 0 => Change(queue[i].position)'
        <3>1. CASE i \in DOMAIN queue /\ queue'[i] = queue[i]
            <4>1. /\ queue'[i].position < Len(written')
                  /\ written'[queue'[i].position + 1] = Word(queue'[i])
                BY <1>1, <1>8, <1>10, <3>1
            <4>2. queue'[i].position > 0 =>
                    written'[queue'[i].position] # written'[queue'[i].position + 1]
                BY <1>8, <1>9, <1>10, <3>1
            <4> QED
                BY <4>1, <4>2 DEF Truthful, Change
        <3>2. CASE queue'[i] = mark /\ Changed(mark)
            <4>1. n < n + size /\ written'[n + 1] = Word(mark) /\ (n > 0 => written'[n] = written[n])
                BY <1>1, <1>3
            <4>2. n > 0 => Word(mark) # Word(producer)
                BY <1>5, <1>6, <3>2 DEF Changed
            <4> QED
                BY <1>1, <1>6, <3>2, <4>1, <4>2 DEF Truthful, Change
        <3> QED
            BY <1>15, <3>1, <3>2
    <2>4. /\ consumer'.seen <= sequence' /\ consumer'.seen % 2 = 0
          /\ consumer'.mark # NoMark => Truthful(consumer.mark)'
        <3>1. consumer.mark # NoMark => /\ consumer.mark.position < n
                                        /\ written[consumer.mark.position + 1] = Word(consumer.mark)
            BY DEF MarksInv, QueueInv, Truthful, n
        <3>2. consumer.mark.position \in Nat
            BY <1>2 DEF Typed
        <3>3. consumer'.mark # NoMark => Truthful(consumer.mark)'
            BY <1>1, <1>8, <3>1, <3>2 DEF Truthful
        <3> QED
            BY <1>1, <3>3 DEF MarksInv, QueueInv
    <2>5. consumer.mark.position <= n
        <3>1. consumer.mark = NoMark => consumer.mark.position = 0
            BY DEF NoMark, Mark
        <3>2. consumer.mark # NoMark => consumer.mark.position < n
            BY DEF MarksInv, QueueInv, Truthful, n
        <3> QED
            BY SMTT(30), <1>2, <1>3, <3>1, <3>2 DEF Typed
    <2>6. ASSUME consumer'.seen = sequence', NEW i \in DOMAIN queue'
          PROVE  consumer'.mark.position <= queue'[i].position
        BY <1>1, <1>15, <2>5, <2>6 DEF MarksInv, QueueInv
    <2>7. ASSUME NEW x \in Base'.position + 1 .. End' - 1, Change(x)'
          PROVE  Marked(x)'
        <3>1. Base' = Base /\ Base.position \in Nat
            BY <1>1, <1>2 DEF Base, Typed
        <3>2. \/ End' = n /\ wpc' = "odd"
              \/ End' = n + size /\ wpc' = "publish"
            BY <1>1 DEF End
        <3>3. x \in Int /\ x >= 1 /\ x >= Base.position + 1 /\ x <= n + size - 1
            BY <1>1, <1>3, <2>7, <3>1, <3>2
        <3>4. written'[x] # written'[x + 1]
            BY <2>7 DEF Change
        <3>5. CASE x < n
            <4>1. x \in Nat /\ written'[x] = written[x] /\ written'[x + 1] = written[x + 1]
                BY <1>8, <1>9, <3>3, <3>5
            <4>2. Change(x) /\ x \in Base.position + 1 .. End - 1
                BY <1>3, <1>4, <3>3, <3>4, <3>5, <4>1 DEF Change
            <4>3. PICK i \in DOMAIN queue : queue[i].position = x
                BY <1>4, <4>2 DEF MarksInv, QueueInv, Marked
            <4> QED
                BY <1>16, <4>3 DEF Marked
        <3>6. CASE x = n
            <4>1. n > 0 /\ written'[n] = Word(producer) /\ written'[n + 1] = Word(mark)
                BY <1>1, <1>3, <1>6, <3>3, <3>6
            <4>2. Changed(mark)
                BY <1>5, <3>4, <3>6, <4>1 DEF Changed
            <4>3. wpc' # "odd"
                BY <1>1, <1>3, <2>7, <3>1, <3>2, <3>6
            <4>4. queue' = Append(queue, mark)
                BY <1>1, <4>2, <4>3
            <4>5. Len(queue) + 1 \in DOMAIN queue' /\ queue'[Len(queue) + 1] = mark
                BY <1>2, <4>4 DEF Typed
            <4> QED
                BY <1>1, <3>6, <4>5 DEF Marked
        <3>7. CASE x > n
            <4>1. x \in n + 1 .. n + size /\ x + 1 \in n + 1 .. n + size
                BY SMTT(30), <1>1, <1>3, <3>3, <3>7
            <4> QED
                BY <1>1, <3>4, <4>1
        <3> QED
            BY <1>3, <3>3, <3>5, <3>6, <3>7
    <2> QED
        BY <2>1, <2>2, <2>3, <2>4, <2>6, <2>7 DEF QueueInv
<1>20. CallInv'
    <2>1. BlockEnd' = BlockEnd /\ Copying' = Copying
        BY <1>1 DEF BlockEnd, Copying
    <2>2. call.pc = "drop" => /\ Truthful(call.copy)'
                              /\ call.copy.position <= producer'.position
        <3>1. call.pc = "drop" => /\ call.copy.position < n
                                  /\ written[call.copy.position + 1] = Word(call.copy)
                                  /\ call.copy.position <= producer.position
            BY DEF MarksInv, CallInv, Truthful, n
        <3>2. call.copy.position \in Nat /\ producer.position \in Nat
            BY <1>2 DEF Typed
        <3>3. call.pc = "drop" => Truthful(call.copy)'
            BY <1>1, <1>8, <3>1, <3>2 DEF Truthful
        <3> QED
            BY <1>1, <1>3, <3>1, <3>2, <3>3
    <2> QED
        BY <1>1, <1>4, <2>1, <2>2 DEF MarksInv, CallInv
<1>21. NothingLostInv'
    <2> SUFFICES ASSUME sequence = 0
                 PROVE  /\ consumer.minimum = 0 /\ ~Copying'
                        /\ consumer.mark = NoMark => queue' # <<>> /\ Head(queue').position = 0
                        /\ call.pc = "walk" /\ ~call.safe =>
                              \E x \in call.position + 1 .. BlockEnd - 1 : Change(x)'
        BY <1>1 DEF NothingLostInv, BlockEnd
    <2>1. consumer.minimum = 0 /\ ~Copying'
        BY <1>1 DEF MarksInv, NothingLostInv, Copying
    <2>2. ASSUME consumer.mark = NoMark
          PROVE  queue' # <<>> /\ Head(queue').position = 0
        <3>1. CASE n > 0
            <4>1. queue # <<>> /\ Head(queue).position = 0
                BY <1>6, <2>2, <3>1 DEF MarksInv, NothingLostInv
            <4>2. 1 \in DOMAIN queue
                BY <1>2, <4>1 DEF Typed
            <4> QED
                BY <1>13, <1>16, <4>1, <4>2
        <3>2. CASE n = 0
            <4>1. Len(queue) = 0
                <5>1. ASSUME NEW i \in DOMAIN queue PROVE FALSE
                    BY <1>10, <3>2
                <5> QED
                    BY <1>11, <5>1
            <4>2. Changed(mark) /\ Room
                BY <1>2, <1>7, <3>2, <4>1 DEF Changed, Room, Typed
            <4>3. queue' = Append(queue, mark)
                BY <1>1, <4>2
            <4>4. queue' # <<>> /\ Head(queue') = mark
                BY SMTT(30), <1>2, <4>1, <4>3 DEF Typed
            <4> QED
                BY <1>1, <3>2, <4>4
        <3> QED
            BY <1>3, <3>1, <3>2
    <2>3. ASSUME call.pc = "walk" /\ ~call.safe
          PROVE  \E x \in call.position + 1 .. BlockEnd - 1 : Change(x)'
        <3>1. PICK x \in call.position + 1 .. BlockEnd - 1 : Change(x)
            BY <2>3 DEF MarksInv, NothingLostInv
        <3>2. BlockEnd <= n
            BY <1>3, <2>3 DEF MarksInv, CallInv
        <3>3. call.position \in Nat /\ BlockEnd \in Nat
            BY <1>2 DEF Typed
        <3>4. x \in Nat /\ x > 0 /\ x < n
            BY <1>3, <3>2, <3>3
        <3> QED
            BY <1>8, <1>9, <3>1, <3>4 DEF Change
    <2> QED
        BY <2>1, <2>2, <2>3
<1>22. ResultInv'
    <2>1. Answered' = Answered /\ ResultEnd' = ResultEnd
        BY <1>1 DEF Answered, ResultEnd
    <2>2. Answered => ResultEnd <= n /\ result.position \in Nat /\ ResultEnd \in Nat
                      /\ ResultEnd = result.position + BlockSize
        <3>1. Answered => ResultEnd = call.position
            BY DEF MarksInv, ResultInv
        <3>2. call.position <= published /\ call.position \in Nat
            BY <1>2 DEF MarksInv, CallInv, Typed
        <3> QED
            BY <1>2, <1>3, <3>1, <3>2 DEF Typed, Answered, ResultEnd
    <2>3. ASSUME NEW first \in Int, first >= 0, Answered, NEW stamp
          PROVE  Uniform(first, ResultEnd, stamp)' <=> Uniform(first, ResultEnd, stamp)
        <3>1. \A i \in first + 1 .. ResultEnd : written'[i] = written[i]
            <4>1. \A i \in 1 .. n : written'[i] = written[i]
                BY <1>1
            <4>2. n \in Nat /\ \A i \in first + 1 .. ResultEnd : i \in 1 .. n
                BY <1>3, <2>2, <2>3
            <4> QED
                BY <4>1, <4>2
        <3> QED
            BY <2>1, <3>1 DEF Uniform
    <2>4. SafeIsUniform'
        <3> SUFFICES ASSUME Answered, result.safe
                     PROVE  Uniform(result.position, ResultEnd, result.stamp)'
            BY <1>1, <2>1 DEF SafeIsUniform
        <3>1. Uniform(result.position, ResultEnd, result.stamp)
            BY DEF MarksInv, ResultInv, SafeIsUniform
        <3> QED
            BY <1>1, <2>2, <2>3, <3>1
    <2>5. UniformIsSafe'
        <3> SUFFICES ASSUME Answered, sequence = 0,
                            Uniform(result.position, ResultEnd, written[result.position + 1][1])'
                     PROVE  result.safe
            BY <1>1, <2>1 DEF UniformIsSafe
        <3>1. result.position < n
            BY <1>2, <1>3, <2>2 DEF Typed
        <3>2. written'[result.position + 1] = written[result.position + 1]
            BY <1>8, <2>2, <3>1
        <3>3. Uniform(result.position, ResultEnd, written[result.position + 1][1])
            BY <1>1, <2>2, <2>3, <3>2
        <3> QED
            BY <3>3 DEF MarksInv, ResultInv, UniformIsSafe
    <2>6. UnmarkedIsContinuous'
        <3> SUFFICES ASSUME Answered, result.safe, ~result.discontinuity
                     PROVE  /\ result.before
                            /\ Uniform(result.position - BlockSize, ResultEnd, result.stamp)'
            BY <1>1, <2>1 DEF UnmarkedIsContinuous
        <3>1. /\ result.before /\ result.position >= BlockSize
              /\ Uniform(result.position - BlockSize, ResultEnd, result.stamp)
            BY DEF MarksInv, ResultInv, UnmarkedIsContinuous
        <3>2. result.position - BlockSize \in Int /\ result.position - BlockSize >= 0
            BY SMTT(30), <1>2, <2>2, <3>1 DEF Typed
        <3> QED
            BY <1>1, <2>3, <3>1, <3>2
    <2> QED
        BY <1>1, <2>1, <2>4, <2>5, <2>6 DEF MarksInv, ResultInv
<1> QED
    BY <1>17, <1>18, <1>19, <1>20, <1>21, <1>22 DEF MarksInv

(* rf_publish_recovery makes the sequence odd: from here on the snapshot   *)
(* vouches for nothing.                                                    *)
LEMMA TurnOddInv == ASSUME MarksInv, Turn("odd", "position") PROVE MarksInv'
<1>1. Typed
    BY MarksTyped
<1>2. /\ wpc = "odd" /\ wpc' = "position" /\ sequence' = sequence + 1
      /\ UNCHANGED <<queue, recovery, producer, epoch, written, published, consumer, call, result>>
    BY DEF Turn, producerVars
<1>3. Settled /\ ~Settled' /\ sequence % 2 = 0
    BY <1>2 DEF Settled, MarksInv, ProducerInv
<1>4. /\ sequence' \in Nat /\ sequence' % 2 = 1 /\ sequence' # 0 /\ sequence < sequence'
      /\ consumer.seen <= sequence' /\ consumer.seen # sequence'
    <2>1. consumer.seen <= sequence /\ consumer.seen \in Nat /\ sequence \in Nat
        BY <1>1 DEF Typed, MarksInv, QueueInv
    <2> QED
        BY <1>2, <1>3, <2>1
<1>5. Types'
    BY <1>2, <1>4 DEF MarksInv, Types
<1>6. ProducerInv'
    BY <1>2, <1>3, <1>4 DEF MarksInv, ProducerInv
<1>7. QueueInv'
    BY <1>2, <1>3, <1>4 DEF MarksInv, QueueInv, Truthful, Change
<1>8. CallInv'
    <2>1. Copying' = Copying /\ BlockEnd' = BlockEnd
        BY <1>2 DEF Copying, BlockEnd
    <2>2. Copying => call.sequence <= sequence' /\ call.sequence # sequence'
        <3>1. Copying => call.sequence <= sequence
            BY DEF MarksInv, CallInv
        <3> QED
            BY SMTT(30), <1>1, <1>2, <3>1 DEF Typed
    <2> QED
        BY <1>2, <1>3, <2>1, <2>2 DEF MarksInv, CallInv, Truthful
<1>9. NothingLostInv'
    BY <1>4 DEF NothingLostInv
<1>10. ResultInv'
    BY <1>2, <1>4, ResultKept
<1> QED
    BY <1>5, <1>6, <1>7, <1>8, <1>9, <1>10 DEF MarksInv

(* One word of the snapshot, while the sequence is odd.                    *)
LEMMA StoreWordInv ==
    ASSUME MarksInv, NEW i \in DOMAIN Words, StoreWord(i) PROVE MarksInv'
<1>1. Typed
    BY MarksTyped
<1>2. UNCHANGED <<queue, sequence, producer, epoch, written, published, consumer, call, result>>
    BY DEF StoreWord
<1>3. \/ wpc = "position" /\ wpc' = "stamp"
         /\ recovery' = [recovery EXCEPT !["position"] = producer["position"]]
      \/ wpc = "stamp" /\ wpc' = "unsafe"
         /\ recovery' = [recovery EXCEPT !["stamp"] = producer["stamp"]]
      \/ wpc = "unsafe" /\ wpc' = "even"
         /\ recovery' = [recovery EXCEPT !["unsafe"] = producer["unsafe"]]
    <2>1. /\ wpc = Words[i] /\ wpc' = IF i < Len(Words) THEN Words[i + 1] ELSE "even"
          /\ recovery' = [recovery EXCEPT ![Words[i]] = producer[Words[i]]]
        BY DEF StoreWord
    <2>2. /\ i \in {1, 2, 3} /\ Len(Words) = 3
          /\ Words[1] = "position" /\ Words[2] = "stamp" /\ Words[3] = "unsafe"
        BY DEF Words
    <2>3. CASE i = 1
        <3>1. Words[i] = "position" /\ (IF i < Len(Words) THEN Words[i + 1] ELSE "even") = "stamp"
            BY <2>2, <2>3
        <3> QED
            BY <2>1, <3>1
    <2>4. CASE i = 2
        <3>1. Words[i] = "stamp" /\ (IF i < Len(Words) THEN Words[i + 1] ELSE "even") = "unsafe"
            BY <2>2, <2>4
        <3> QED
            BY <2>1, <3>1
    <2>5. CASE i = 3
        <3>1. Words[i] = "unsafe" /\ (IF i < Len(Words) THEN Words[i + 1] ELSE "even") = "even"
            BY <2>2, <2>5
        <3> QED
            BY <2>1, <3>1
    <2> QED
        BY <2>2, <2>3, <2>4, <2>5
<1>4. ~Settled /\ ~Settled' /\ sequence % 2 = 1 /\ sequence # 0
    <2>1. ~Settled /\ ~Settled'
        BY <1>3 DEF Settled
    <2>2. sequence % 2 = 1
        BY <2>1 DEF MarksInv, ProducerInv
    <2> QED
        BY <2>1, <2>2
<1>5. /\ recovery' \in AnyMark
      /\ wpc' \in {"stamp", "unsafe", "even"} => recovery'.position = producer.position
      /\ wpc' \in {"unsafe", "even"} => recovery'.stamp = producer.stamp
      /\ wpc' = "even" => recovery'.unsafe = producer.unsafe
    <2>1. recovery \in AnyMark /\ producer \in AnyMark
        BY <1>1 DEF Typed
    <2>2. /\ wpc \in {"stamp", "unsafe"} => recovery.position = producer.position
          /\ wpc = "unsafe" => recovery.stamp = producer.stamp
        BY DEF MarksInv, ProducerInv
    <2> QED
        BY <1>3, <2>1, <2>2 DEF AnyMark
<1>6. Types'
    BY <1>2, <1>3, <1>5 DEF MarksInv, Types
<1>7. ProducerInv'
    <2>1. wpc # "idle" /\ wpc' # "idle"
        BY <1>3
    <2> QED
        BY <1>2, <1>4, <1>5, <2>1 DEF MarksInv, ProducerInv
<1>8. QueueInv'
    BY <1>2, <1>4 DEF MarksInv, QueueInv, Truthful, Change
<1>9. CallInv'
    <2>1. Copying' = Copying /\ BlockEnd' = BlockEnd
        BY <1>2 DEF Copying, BlockEnd
    <2>2. Copying => call.sequence # sequence
        <3>1. Copying => call.sequence % 2 = 0
            BY DEF MarksInv, CallInv
        <3> QED
            BY <1>4, <3>1
    <2> QED
        BY <1>2, <1>4, <2>1, <2>2 DEF MarksInv, CallInv, Truthful
<1>10. NothingLostInv'
    BY <1>2, <1>4 DEF NothingLostInv
<1>11. ResultInv'
    BY <1>2, ResultKept
<1> QED
    BY <1>6, <1>7, <1>8, <1>9, <1>10, <1>11 DEF MarksInv

(* The sequence is even again: the snapshot is the write just observed,    *)
(* which nothing published has reached.                                    *)
LEMMA TurnEvenInv == ASSUME MarksInv, Turn("even", "publish") PROVE MarksInv'
<1>1. Typed
    BY MarksTyped
<1>2. /\ wpc = "even" /\ wpc' = "publish" /\ sequence' = sequence + 1
      /\ UNCHANGED <<queue, recovery, producer, epoch, written, published, consumer, call, result>>
    BY DEF Turn, producerVars
<1>3. ~Settled /\ Settled' /\ sequence % 2 = 1
    BY <1>2 DEF Settled, MarksInv, ProducerInv
<1>4. /\ sequence' \in Nat /\ sequence' % 2 = 0 /\ sequence' # 0 /\ sequence < sequence'
      /\ consumer.seen <= sequence' /\ consumer.seen # sequence'
    <2>1. consumer.seen <= sequence /\ consumer.seen \in Nat /\ sequence \in Nat
        BY <1>1 DEF Typed, MarksInv, QueueInv
    <2> QED
        BY <1>2, <1>3, <2>1
<1>5. /\ recovery.position = producer.position /\ published = producer.position
      /\ Word(recovery) = Word(producer)
      /\ written # <<>> /\ producer.position < Len(written)
      /\ \A x \in producer.position + 1 .. Len(written) : written[x] = Word(producer)
    BY <1>2 DEF MarksInv, ProducerInv, Word
<1>6. Truthful(recovery)
    <2>1. producer.position + 1 \in producer.position + 1 .. Len(written)
        BY SMTT(30), <1>1, <1>5 DEF Typed
    <2> QED
        BY <1>5, <2>1 DEF Truthful
<1>7. Types'
    BY <1>2, <1>4 DEF MarksInv, Types
<1>8. ProducerInv'
    <2>1. recovery.position <= producer.position
        BY <1>1, <1>5 DEF Typed
    <2>2. Truthful(recovery)'
        BY <1>2, <1>6 DEF Truthful
    <2> QED
        BY <1>2, <1>3, <1>4, <1>5, <2>1, <2>2 DEF ProducerInv
<1>9. QueueInv'
    <2>1. ASSUME NEW x \in Base'.position + 1 .. End' - 1 PROVE ~Change(x)
        <3>1. Base' = recovery /\ End' = Len(written)
            BY <1>2, <1>4 DEF Base, End
        <3>2. /\ x \in producer.position + 1 .. Len(written)
              /\ x + 1 \in producer.position + 1 .. Len(written)
            BY SMTT(30), <1>1, <1>5, <3>1 DEF Typed
        <3> QED
            BY <1>5, <3>2 DEF Change
    <2>2. \A x \in Base'.position + 1 .. End' - 1 : ~Change(x)'
        BY <1>2, <2>1 DEF Change
    <2> QED
        BY <1>2, <1>4, <2>2 DEF MarksInv, QueueInv, Truthful, Change
<1>10. CallInv'
    <2>1. Copying' = Copying /\ BlockEnd' = BlockEnd
        BY <1>2 DEF Copying, BlockEnd
    <2>2. Copying => call.sequence <= sequence' /\ call.sequence # sequence'
        <3>1. Copying => call.sequence <= sequence
            BY DEF MarksInv, CallInv
        <3> QED
            BY SMTT(30), <1>1, <1>2, <3>1 DEF Typed
    <2>3. call.pc # "idle" => BlockEnd <= recovery.position
        BY <1>5 DEF MarksInv, CallInv
    <2>4. call.pc = "drop" => call.copy.position <= recovery.position
        BY <1>5 DEF MarksInv, CallInv
    <2>5. Copying => call.pc # "idle"
        BY DEF Copying
    <2> QED
        BY <1>2, <1>3, <2>1, <2>2, <2>3, <2>4, <2>5 DEF MarksInv, CallInv, Truthful
<1>11. NothingLostInv'
    BY <1>4 DEF NothingLostInv
<1>12. ResultInv'
    BY <1>2, <1>4, ResultKept
<1> QED
    BY <1>7, <1>8, <1>9, <1>10, <1>11, <1>12 DEF MarksInv

LEMMA PublishInv == ASSUME MarksInv, Publish PROVE MarksInv'
<1>1. Typed
    BY MarksTyped
<1>2. /\ wpc = "publish" /\ wpc' = "idle" /\ published' = Len(written)
      /\ UNCHANGED <<queue, sequence, recovery, producer, epoch, written, consumer, call, result>>
    BY DEF Publish, producerVars
<1>3. Settled /\ Settled' /\ End' = End /\ Base' = Base
    BY <1>2 DEF Settled, End, Base
<1>4. Types'
    BY <1>1, <1>2 DEF MarksInv, Types, Typed
<1>5. ProducerInv'
    BY <1>2, <1>3 DEF MarksInv, ProducerInv, Truthful
<1>6. QueueInv'
    BY <1>2, <1>3 DEF MarksInv, QueueInv, Truthful, Change, Marked
<1>7. CallInv'
    <2>1. Copying' = Copying /\ BlockEnd' = BlockEnd
        BY <1>2 DEF Copying, BlockEnd
    <2>2. /\ call.position <= published'
          /\ call.pc # "idle" => BlockEnd <= published'
        <3>1. /\ call.position <= published
              /\ call.pc # "idle" => BlockEnd <= published
            BY DEF MarksInv, CallInv
        <3> QED
            BY <1>1, <1>2, <3>1 DEF Typed
    <2> QED
        BY <1>2, <1>3, <2>1, <2>2 DEF MarksInv, CallInv, Truthful
<1>8. NothingLostInv'
    BY <1>2 DEF MarksInv, NothingLostInv, Copying, BlockEnd, Change
<1>9. ResultInv'
    BY <1>2, ResultKept
<1> QED
    BY <1>4, <1>5, <1>6, <1>7, <1>8, <1>9 DEF MarksInv

-----------------------------------------------------------------------------
(* The extraction thread's steps.                                          *)

LEMMA ConsumerFrame ==
    ASSUME MarksInv, NEW place, At(place)
    PROVE  /\ UNCHANGED <<sequence, recovery, producer, epoch, written, wpc, published>>
           /\ ProducerInv' /\ call.pc = place
           /\ Settled' = Settled /\ End' = End /\ \A x : Change(x)' <=> Change(x)
<1>1. UNCHANGED <<sequence, recovery, producer, epoch, written, wpc, published>>
    BY DEF At, producerVars
<1>2. ProducerInv'
    BY <1>1 DEF MarksInv, ProducerInv, Settled, Truthful
<1> QED
    BY <1>1, <1>2 DEF At, Settled, End, Change

(* rf_recover without a snapshot to copy, or the start of a copy.          *)
LEMMA LoadSequenceInv == ASSUME MarksInv, LoadSequence PROVE MarksInv'
<1>1. Typed
    BY MarksTyped
<1>2. /\ UNCHANGED <<sequence, recovery, producer, epoch, written, wpc, published>>
      /\ ProducerInv' /\ call.pc = "idle"
      /\ Settled' = Settled /\ End' = End /\ \A x : Change(x)' <=> Change(x)
    BY ConsumerFrame DEF LoadSequence
<1>3. UNCHANGED <<queue, consumer, result>> /\ BlockEnd <= published
    BY DEF LoadSequence
<1>4. Types /\ call' = [call EXCEPT
                  !.pc = IF sequence = consumer.seen \/ sequence % 2 = 1 THEN "walk" ELSE "position",
                  !.safe = sequence = consumer.seen /\ call.position >= consumer.minimum,
                  !.sequence = sequence]
    BY DEF LoadSequence, MarksInv
<1>5. /\ call' \in [pc : {"idle", "position", "unsafe", "stamp", "recheck", "drop", "walk"},
                    position : Nat, safe : BOOLEAN, sequence : Nat, copy : AnyMark]
      /\ call'.position = call.position /\ call'.sequence = sequence
      /\ call'.safe <=> sequence = consumer.seen /\ call.position >= consumer.minimum
      /\ \/ call'.pc = "walk" /\ (sequence = consumer.seen \/ sequence % 2 = 1)
         \/ call'.pc = "position" /\ sequence # consumer.seen /\ sequence % 2 # 1
    BY <1>1, <1>4 DEF Types, Typed
<1>6. Types'
    BY <1>2, <1>3, <1>4, <1>5 DEF Types
<1>7. BlockEnd' = BlockEnd /\ Base' = Base
    BY <1>2, <1>3, <1>5 DEF BlockEnd, Base
<1>8. QueueInv'
    BY <1>2, <1>3, <1>7 DEF MarksInv, QueueInv, Truthful, Marked
<1>9. Settled <=> sequence % 2 = 0
    BY DEF MarksInv, ProducerInv
<1>10. consumer.seen <= sequence /\ sequence % 2 \in {0, 1}
    BY <1>1 DEF MarksInv, QueueInv, Typed
<1>11. \/ consumer.mark.position <= consumer.minimum
       \/ consumer.mark.position < call.position
    BY <1>2 DEF MarksInv, CallInv
<1>12. call.position < BlockEnd /\ call.position <= published
    BY SMTT(30), <1>1, <1>3 DEF Typed
<1>13. CallInv'
    <2>1. Copying' => /\ call'.sequence % 2 = 0 /\ ~call'.safe
                      /\ consumer.seen < call'.sequence /\ call'.sequence <= sequence
                      /\ call'.pc = "position"
        BY SMTT(30), <1>1, <1>5, <1>10 DEF Copying, Typed
    <2>2. ~(/\ Settled
            /\ \/ call'.pc = "walk" /\ consumer.seen # sequence
               \/ Copying' /\ call'.sequence # sequence)
        BY <1>5, <1>9, <2>1
    <2>3. consumer.mark.position <= consumer.minimum \/ consumer.mark.position < BlockEnd
        BY SMTT(30), <1>1, <1>11, <1>12 DEF Typed
    <2>4. ASSUME call'.safe PROVE consumer.mark.position <= call.position
        <3>1. call.position >= consumer.minimum
            BY <1>5, <2>4
        <3>2. /\ call.position \in Nat /\ consumer.minimum \in Nat
              /\ consumer.mark.position \in Nat
            BY <1>1 DEF Typed
        <3> QED
            BY <1>11, <3>1, <3>2
    <2>5. call'.pc # "idle" /\ call'.pc # "drop"
        BY <1>5
    <2> QED
        BY <1>2, <1>3, <1>5, <1>7, <1>12, <2>1, <2>2, <2>3, <2>4, <2>5 DEF CallInv
<1>14. NothingLostInv'
    <2> SUFFICES ASSUME sequence = 0
                 PROVE  /\ consumer.minimum = 0 /\ ~Copying'
                        /\ consumer.mark = NoMark /\ written # <<>> =>
                              queue # <<>> /\ Head(queue).position = 0
                        /\ call'.safe
        BY <1>2, <1>3 DEF NothingLostInv
    <2>1. /\ consumer.minimum = 0
          /\ consumer.mark = NoMark /\ written # <<>> =>
                queue # <<>> /\ Head(queue).position = 0
        BY DEF MarksInv, NothingLostInv
    <2>2. consumer.seen = sequence
        BY <1>1, <1>10 DEF Typed
    <2>3. call'.pc = "walk" /\ call'.safe
        BY <1>1, <1>5, <2>1, <2>2 DEF Typed
    <2> QED
        BY <2>1, <2>3 DEF Copying
<1>15. ResultInv'
    BY <1>2, <1>3, <1>5, ResultKept
<1> QED
    BY <1>2, <1>6, <1>8, <1>13, <1>14, <1>15 DEF MarksInv

(* While a copy is under way the sequence is new to the consumer.          *)
LEMMA CopyIsNew ==
    ASSUME MarksInv, Copying
    PROVE  /\ sequence # 0 /\ consumer.seen # sequence /\ Base = recovery
           /\ call.sequence \in Nat /\ consumer.seen < call.sequence /\ call.sequence <= sequence
           /\ call.sequence % 2 = 0 /\ ~call.safe
           /\ call.sequence = sequence => Settled
           /\ Settled => Truthful(recovery) /\ recovery.position <= producer.position
<1>1. Typed
    BY MarksTyped
<1>2. /\ call.sequence % 2 = 0 /\ ~call.safe
      /\ consumer.seen < call.sequence /\ call.sequence <= sequence
    BY DEF MarksInv, CallInv
<1>3. consumer.seen \in Nat /\ call.sequence \in Nat /\ sequence \in Nat
    BY <1>1 DEF Typed
<1>4. sequence > 0 /\ consumer.seen # sequence
    BY <1>2, <1>3
<1>5. call.sequence = sequence => Settled
    BY <1>2 DEF MarksInv, ProducerInv
<1>6. Settled => Truthful(recovery) /\ recovery.position <= producer.position
    BY <1>4 DEF MarksInv, ProducerInv
<1> QED
    BY <1>2, <1>3, <1>4, <1>5, <1>6 DEF Base

(* One word copied while the producer may be storing others.               *)
LEMMA CopyWordInv ==
    ASSUME MarksInv, NEW word, NEW next,
           \/ word = "position" /\ next = "unsafe"
           \/ word = "unsafe" /\ next = "stamp"
           \/ word = "stamp" /\ next = "recheck",
           CopyWord(word, next)
    PROVE  MarksInv'
<1>1. Typed
    BY MarksTyped
<1>2. /\ UNCHANGED <<sequence, recovery, producer, epoch, written, wpc, published>>
      /\ ProducerInv' /\ call.pc = word
      /\ Settled' = Settled /\ End' = End /\ \A x : Change(x)' <=> Change(x)
    BY ConsumerFrame DEF CopyWord
<1>3. UNCHANGED <<queue, consumer, result>> /\ Copying
    BY <1>2 DEF CopyWord, Copying
<1>4. Types /\ call' = [call EXCEPT !.pc = next, !.copy[word] = recovery[word]]
    BY DEF CopyWord, MarksInv
<1>5. recovery \in AnyMark /\ call.copy \in AnyMark
    BY <1>1 DEF Typed
<1>6. /\ call'.pc = next /\ UNCHANGED <<call.position, call.safe, call.sequence>>
      /\ call'.copy = [call.copy EXCEPT ![word] = recovery[word]]
    BY <1>4 DEF Types
<1>7. /\ call'.copy \in AnyMark
      /\ word = "position" => call'.copy.position = recovery.position
      /\ word = "unsafe" => /\ call'.copy.position = call.copy.position
                            /\ call'.copy.unsafe = recovery.unsafe
      /\ word = "stamp" => /\ call'.copy.position = call.copy.position
                           /\ call'.copy.unsafe = call.copy.unsafe
                           /\ call'.copy.stamp = recovery.stamp
    <2>1. CASE word = "position"
        BY <1>5, <1>6, <2>1 DEF AnyMark
    <2>2. CASE word = "unsafe"
        BY <1>5, <1>6, <2>2 DEF AnyMark
    <2>3. CASE word = "stamp"
        BY <1>5, <1>6, <2>3 DEF AnyMark
    <2> QED
        BY <2>1, <2>2, <2>3
<1>8. Types'
    BY <1>2, <1>3, <1>4, <1>7 DEF Types
<1>9. BlockEnd' = BlockEnd /\ Base' = Base /\ Copying'
    BY <1>2, <1>3, <1>6 DEF BlockEnd, Base, Copying
<1>10. QueueInv'
    BY <1>2, <1>3, <1>9 DEF MarksInv, QueueInv, Truthful, Marked
<1>11. CallInv'
    <2>1. call'.pc \notin {"idle", "walk", "drop", "position"} /\ call.pc \notin {"idle", "walk", "drop"}
        BY <1>2, <1>6
    <2>2. ASSUME call.sequence = sequence
          PROVE  /\ call'.copy.position = recovery.position
                 /\ call'.pc # "unsafe" => call'.copy.unsafe = recovery.unsafe
                 /\ call'.pc \notin {"unsafe", "stamp"} => call'.copy.stamp = recovery.stamp
        <3>1. call.pc # "position" =>
                 /\ call.copy.position = recovery.position
                 /\ call.pc # "unsafe" => call.copy.unsafe = recovery.unsafe
            BY <1>3, <2>2 DEF MarksInv, CallInv
        <3> QED
            BY <1>2, <1>6, <1>7, <3>1
    <2>3. Settled /\ call.sequence # sequence => BlockEnd <= recovery.position
        BY <1>3 DEF MarksInv, CallInv
    <2>4. /\ call.position <= published /\ BlockEnd <= published
          /\ \/ consumer.mark.position <= consumer.minimum
             \/ consumer.mark.position < BlockEnd
        BY <2>1 DEF MarksInv, CallInv
    <2>5. call.sequence % 2 = 0 /\ ~call.safe
          /\ consumer.seen < call.sequence /\ call.sequence <= sequence
        BY <1>3, CopyIsNew
    <2> QED
        BY <1>2, <1>3, <1>6, <1>9, <2>1, <2>2, <2>3, <2>4, <2>5 DEF CallInv
<1>12. NothingLostInv'
    BY <1>2, <1>3, CopyIsNew DEF NothingLostInv
<1>13. ResultInv'
    BY <1>2, <1>3, <1>6, ResultKept
<1> QED
    BY <1>2, <1>8, <1>10, <1>11, <1>12, <1>13 DEF MarksInv

(* A copy whose sequence stood still is the snapshot.                      *)
LEMMA RecheckInv == ASSUME MarksInv, Recheck PROVE MarksInv'
<1>1. Typed
    BY MarksTyped
<1>2. /\ UNCHANGED <<sequence, recovery, producer, epoch, written, wpc, published>>
      /\ ProducerInv' /\ call.pc = "recheck"
      /\ Settled' = Settled /\ End' = End /\ \A x : Change(x)' <=> Change(x)
    BY ConsumerFrame DEF Recheck
<1>3. UNCHANGED <<queue, consumer, result>> /\ Copying
    BY <1>2 DEF Recheck, Copying
<1>4. Types /\ call' = [call EXCEPT !.pc = IF call.sequence = sequence THEN "drop" ELSE "walk"]
    BY DEF Recheck, MarksInv
<1>5. /\ UNCHANGED <<call.position, call.safe, call.sequence, call.copy>>
      /\ \/ call'.pc = "drop" /\ call.sequence = sequence
         \/ call'.pc = "walk" /\ call.sequence # sequence
    BY <1>4 DEF Types
<1>6. Types'
    BY <1>2, <1>3, <1>4 DEF Types
<1>7. BlockEnd' = BlockEnd /\ Base' = Base
    BY <1>2, <1>3, <1>5 DEF BlockEnd, Base
<1>8. QueueInv'
    BY <1>2, <1>3, <1>7 DEF MarksInv, QueueInv, Truthful, Marked
<1>9. CallInv'
    <2>1. ASSUME call.sequence = sequence
          PROVE  /\ call.copy.position = recovery.position
                 /\ call.copy.unsafe = recovery.unsafe /\ call.copy.stamp = recovery.stamp
        BY <1>2, <1>3, <2>1 DEF MarksInv, CallInv
    <2>2. ASSUME call.sequence = sequence
          PROVE  /\ Truthful(call.copy)' /\ call.copy.position <= producer.position
                 /\ call.copy.position <= recovery.position
        <3>1. Truthful(recovery) /\ recovery.position <= producer.position
            BY <1>3, <2>2, CopyIsNew
        <3>2. recovery.position <= recovery.position
            BY <1>1 DEF Typed
        <3> QED
            BY <1>2, <1>5, <2>1, <2>2, <3>1, <3>2 DEF Truthful, Word
    <2>3. Settled /\ call.sequence # sequence => BlockEnd <= recovery.position
        BY <1>3 DEF MarksInv, CallInv
    <2>4. /\ call.position <= published /\ BlockEnd <= published
          /\ \/ consumer.mark.position <= consumer.minimum
             \/ consumer.mark.position < BlockEnd
        BY <1>2 DEF MarksInv, CallInv
    <2>5. call.sequence % 2 = 0 /\ ~call.safe
          /\ consumer.seen < call.sequence /\ call.sequence <= sequence
        BY <1>3, CopyIsNew
    <2> QED
        BY <1>2, <1>3, <1>5, <1>7, <2>1, <2>2, <2>3, <2>4, <2>5 DEF CallInv, Copying
<1>10. NothingLostInv'
    BY <1>2, <1>3, CopyIsNew DEF NothingLostInv
<1>11. ResultInv'
    BY <1>2, <1>3, <1>5, ResultKept
<1> QED
    BY <1>2, <1>6, <1>8, <1>9, <1>10, <1>11 DEF MarksInv

(* Dropping the oldest mark keeps the others and their order.              *)
LEMMA QueueTail ==
    ASSUME MarksInv, queue # <<>>, queue' = Tail(queue), UNCHANGED written
    PROVE  /\ queue' \in Seq(Marks) /\ Len(queue') <= Capacity
           /\ Head(queue) \in Marks /\ Head(queue).position \in Nat /\ Truthful(Head(queue))
           /\ Head(queue).position > 0 => Change(Head(queue).position)
           /\ \A i, j \in DOMAIN queue' : i < j => queue'[i].position < queue'[j].position
           /\ \A i \in DOMAIN queue' :
                 /\ Truthful(queue[i])' /\ (queue'[i].position > 0 => Change(queue[i].position)')
                 /\ queue'[i].position \in Nat /\ Head(queue).position < queue'[i].position
           /\ \A x : Marked(x) /\ x # Head(queue).position => Marked(x)'
<1> DEFINE n == Len(queue)
<1>1. Typed
    BY MarksTyped
<1>2. /\ queue \in Seq(Marks) /\ n \in Nat /\ n # 0 /\ DOMAIN queue = 1 .. n
      /\ Capacity \in Nat
      /\ \A i \in 1 .. n : queue[i] \in Marks /\ queue[i].position \in Nat
    <2>1. /\ queue \in Seq(Marks) /\ n \in Nat /\ DOMAIN queue = 1 .. n /\ Capacity \in Nat
          /\ \A i \in 1 .. n : queue[i] \in Marks /\ queue[i].position \in Nat
        BY <1>1 DEF Typed
    <2>2. n # 0
        BY <2>1
    <2> QED
        BY <2>1, <2>2
<1>3. /\ n <= Capacity
      /\ \A i, j \in 1 .. n : i < j => queue[i].position < queue[j].position
      /\ \A i \in 1 .. n :
            Truthful(queue[i]) /\ (queue[i].position > 0 => Change(queue[i].position))
    BY <1>2 DEF MarksInv, QueueInv
<1>4. /\ queue' \in Seq(Marks) /\ Len(queue') = n - 1
      /\ \A i \in 1 .. n - 1 : queue'[i] = queue[i + 1]
      /\ Head(queue) = queue[1]
    BY <1>2, HeadTailProperties
<1> HIDE DEF n
<1>5. DOMAIN queue' = 1 .. n - 1 /\ Len(queue') <= Capacity
    BY <1>2, <1>3, <1>4
<1>6. \A i \in 1 .. n - 1 : i + 1 \in 1 .. n /\ 1 < i + 1
    BY <1>2
<1>7. 1 \in 1 .. n
    BY <1>2
<1>8. /\ Head(queue) \in Marks /\ Head(queue).position \in Nat /\ Truthful(Head(queue))
      /\ Head(queue).position > 0 => Change(Head(queue).position)
    BY <1>2, <1>3, <1>4, <1>7
<1>9. \A i, j \in DOMAIN queue' : i < j => queue'[i].position < queue'[j].position
    <2> SUFFICES ASSUME NEW i \in 1 .. n - 1, NEW j \in 1 .. n - 1, i < j
                 PROVE  queue'[i].position < queue'[j].position
        BY <1>5
    <2>1. i + 1 < j + 1
        OBVIOUS
    <2> QED
        BY <1>3, <1>4, <1>6, <2>1
<1>10. \A i \in DOMAIN queue' :
          /\ Truthful(queue[i])' /\ (queue'[i].position > 0 => Change(queue[i].position)')
          /\ queue'[i].position \in Nat /\ Head(queue).position < queue'[i].position
    <2> SUFFICES ASSUME NEW i \in 1 .. n - 1
                 PROVE  /\ Truthful(queue[i])'
                        /\ queue'[i].position > 0 => Change(queue[i].position)'
                        /\ queue'[i].position \in Nat
                        /\ Head(queue).position < queue'[i].position
        BY <1>5
    <2>1. queue'[i] = queue[i + 1] /\ i + 1 \in 1 .. n /\ 1 < i + 1
        BY <1>4, <1>6
    <2>2. Head(queue).position < queue'[i].position
        BY <1>3, <1>4, <1>7, <2>1
    <2>3. Truthful(queue[i + 1]) /\ (queue[i + 1].position > 0 => Change(queue[i + 1].position))
        BY <1>3, <2>1
    <2> QED
        BY <1>2, <2>1, <2>2, <2>3 DEF Truthful, Change
<1>11. ASSUME NEW x, Marked(x), x # Head(queue).position PROVE Marked(x)'
    <2>1. PICK i \in 1 .. n : queue[i].position = x
        BY <1>2, <1>11 DEF Marked
    <2>2. i # 1
        BY <1>4, <1>11, <2>1
    <2>3. i - 1 \in 1 .. n - 1 /\ (i - 1) + 1 = i
        BY <1>2, <2>1, <2>2
    <2>4. queue'[i - 1] = queue[i]
        BY <1>4, <2>3
    <2> QED
        BY <1>5, <2>1, <2>3, <2>4 DEF Marked
<1> QED
    BY <1>4, <1>5, <1>8, <1>9, <1>10, <1>11

(* The snapshot stands for every mark up to its position.                  *)
LEMMA DropMarkInv == ASSUME MarksInv, DropMark PROVE MarksInv'
<1>1. Typed
    BY MarksTyped
<1>2. /\ UNCHANGED <<sequence, recovery, producer, epoch, written, wpc, published>>
      /\ ProducerInv' /\ call.pc = "drop"
      /\ Settled' = Settled /\ End' = End /\ \A x : Change(x)' <=> Change(x)
    BY ConsumerFrame DEF DropMark
<1>3. /\ UNCHANGED <<consumer, call, result>> /\ Copying
      /\ queue # <<>> /\ queue' = Tail(queue)
      /\ Head(queue).position < call.copy.position + 1
    BY <1>2 DEF DropMark, Copying, Superseded, Due
<1>4. /\ sequence # 0 /\ consumer.seen # sequence /\ Base = recovery /\ Base' = recovery
    BY <1>2, <1>3, CopyIsNew DEF Base
<1>5. Types'
    BY <1>2, <1>3, QueueTail DEF MarksInv, Types
<1>6. QueueInv'
    <2>1. ASSUME Settled, NEW x \in recovery.position + 1 .. End - 1, Change(x) PROVE Marked(x)'
        <3>1. call.copy.position <= recovery.position
            BY <1>2, <2>1 DEF MarksInv, CallInv
        <3>2. Marked(x)
            BY <1>4, <2>1 DEF MarksInv, QueueInv
        <3>3. Head(queue).position \in Nat
            BY <1>2, <1>3, QueueTail
        <3>4. call.copy.position \in Nat /\ recovery.position \in Nat
            BY <1>1 DEF Typed
        <3>5. End \in Int
            BY <1>1 DEF Typed, End
        <3>6. x # Head(queue).position
            BY <1>3, <3>1, <3>3, <3>4, <3>5
        <3> QED
            BY <1>2, <1>3, <3>2, <3>6, QueueTail
    <2>2. /\ consumer.seen <= sequence /\ consumer.seen % 2 = 0
          /\ consumer.mark # NoMark => Truthful(consumer.mark)
        BY DEF MarksInv, QueueInv
    <2>3. consumer.mark # NoMark => Truthful(consumer.mark)'
        BY <1>2, <1>3, <2>2 DEF Truthful
    <2>4. /\ Len(queue') <= Capacity
          /\ \A i, j \in DOMAIN queue' : i < j => queue'[i].position < queue'[j].position
          /\ \A i \in DOMAIN queue' :
                Truthful(queue[i])' /\ (queue'[i].position > 0 => Change(queue[i].position)')
        BY <1>2, <1>3, QueueTail
    <2> QED
        BY <1>2, <1>3, <1>4, <2>1, <2>2, <2>3, <2>4 DEF QueueInv
<1>7. CallInv'
    BY <1>2, <1>3 DEF MarksInv, CallInv, BlockEnd, Copying, Truthful
<1>8. NothingLostInv'
    BY <1>2, <1>4 DEF NothingLostInv
<1>9. ResultInv'
    BY <1>2, <1>3, ResultKept
<1> QED
    BY <1>2, <1>5, <1>6, <1>7, <1>8, <1>9 DEF MarksInv

(* The snapshot takes force.                                               *)
LEMMA AdoptInv == ASSUME MarksInv, Adopt PROVE MarksInv'
<1>1. Typed
    BY MarksTyped
<1>2. /\ UNCHANGED <<sequence, recovery, producer, epoch, written, wpc, published>>
      /\ ProducerInv' /\ call.pc = "drop"
      /\ Settled' = Settled /\ End' = End /\ \A x : Change(x)' <=> Change(x)
    BY ConsumerFrame DEF Adopt
<1>3. /\ UNCHANGED <<queue, result>> /\ Copying
      /\ consumer' = [mark |-> call.copy, seen |-> call.sequence,
                      minimum |-> call.copy.position, gap |-> TRUE]
      /\ ~(queue # <<>> /\ Head(queue).position < call.copy.position + 1)
    BY <1>2 DEF Adopt, Copying, Superseded, Due
<1>4. Types /\ call' = [call EXCEPT !.pc = "walk",
                   !.safe = call.sequence = sequence /\ call.position >= call.copy.position]
    BY DEF Adopt, MarksInv
<1>5. /\ call'.pc = "walk" /\ UNCHANGED <<call.position, call.sequence, call.copy>>
      /\ call'.safe => call.position >= call.copy.position
      /\ call' \in [pc : {"idle", "position", "unsafe", "stamp", "recheck", "drop", "walk"},
                    position : Nat, safe : BOOLEAN, sequence : Nat, copy : AnyMark]
    BY <1>1, <1>4 DEF Types, Typed
<1>6. /\ consumer'.mark = call.copy /\ consumer'.seen = call.sequence
      /\ consumer'.minimum = call.copy.position /\ consumer'.gap
      /\ consumer' \in [mark : AnyMark, seen : Nat, minimum : Nat, gap : BOOLEAN]
    BY <1>1, <1>3 DEF Typed
<1>7. Types'
    BY <1>2, <1>3, <1>4, <1>5, <1>6 DEF Types
<1>8. /\ sequence # 0 /\ Base = recovery
      /\ call.sequence <= sequence /\ call.sequence % 2 = 0
    BY <1>3, CopyIsNew
<1>9. /\ Truthful(call.copy) /\ Truthful(call.copy)'
      /\ call.sequence = sequence => call.copy.position = recovery.position
    BY <1>2, <1>3, <1>5 DEF MarksInv, CallInv, Truthful
<1>10. BlockEnd' = BlockEnd /\ Base'.position = recovery.position
    BY <1>2, <1>5, <1>6, <1>9 DEF BlockEnd, Base
<1>11. QueueInv'
    <2>1. ASSUME NEW i \in DOMAIN queue PROVE call.copy.position <= queue[i].position
        <3>1. /\ queue \in Seq(Marks) /\ DOMAIN queue = 1 .. Len(queue) /\ Len(queue) \in Nat
              /\ queue[i].position \in Nat /\ call.copy.position \in Nat
            BY <1>1 DEF Typed
        <3>2. queue # <<>> /\ Head(queue) = queue[1] /\ 1 \in DOMAIN queue
            BY <3>1
        <3>3. queue[1].position \in Nat
            BY <1>1, <3>2 DEF Typed
        <3>4. call.copy.position <= queue[1].position
            BY <1>3, <3>1, <3>2, <3>3
        <3>5. i = 1 \/ queue[1].position < queue[i].position
            BY <3>1, <3>2 DEF MarksInv, QueueInv
        <3> QED
            BY <3>1, <3>3, <3>4, <3>5
    <2>2. Settled => \A x \in recovery.position + 1 .. End - 1 : Change(x) => Marked(x)
        BY <1>8 DEF MarksInv, QueueInv
    <2>3. /\ Len(queue) <= Capacity
          /\ \A i, j \in DOMAIN queue : i < j => queue[i].position < queue[j].position
          /\ \A i \in DOMAIN queue :
                Truthful(queue[i]) /\ (queue[i].position > 0 => Change(queue[i].position))
        BY DEF MarksInv, QueueInv
    <2>4. \A i \in DOMAIN queue' :
             Truthful(queue[i])' /\ (queue'[i].position > 0 => Change(queue[i].position)')
        BY <1>2, <1>3, <2>3 DEF Truthful
    <2>5. \A x : Marked(x)' <=> Marked(x)
        BY <1>3 DEF Marked
    <2>6. Truthful(consumer.mark)'
        BY <1>6, <1>9, <1>2 DEF Truthful
    <2> QED
        BY <1>2, <1>3, <1>6, <1>8, <1>10, <2>1, <2>2, <2>3, <2>4, <2>5, <2>6 DEF QueueInv
<1>12. CallInv'
    <2>1. Settled /\ call.sequence # sequence => BlockEnd <= recovery.position
        BY <1>3 DEF MarksInv, CallInv
    <2>2. call.position <= published /\ BlockEnd <= published
        BY <1>2 DEF MarksInv, CallInv
    <2>3. call.copy.position <= call.copy.position
        BY SMTT(30), <1>1 DEF Typed
    <2>4. call'.safe => call.copy.position <= call.position
        BY <1>1, <1>5 DEF Typed
    <2> QED
        BY <1>2, <1>5, <1>6, <1>10, <2>1, <2>2, <2>3, <2>4 DEF CallInv, Copying
<1>13. NothingLostInv'
    BY <1>2, <1>8 DEF NothingLostInv
<1>14. ResultInv'
    BY <1>2, <1>3, <1>5, <1>6, ResultKept
<1> QED
    BY <1>2, <1>7, <1>11, <1>12, <1>13, <1>14 DEF MarksInv

(* A mark in front of the block's end takes force.                         *)
LEMMA WalkInv == ASSUME MarksInv, Walk PROVE MarksInv'
<1> DEFINE m == Head(queue)
<1>1. Typed
    BY MarksTyped
<1>2. /\ UNCHANGED <<sequence, recovery, producer, epoch, written, wpc, published>>
      /\ ProducerInv' /\ call.pc = "walk"
      /\ Settled' = Settled /\ End' = End /\ \A x : Change(x)' <=> Change(x)
    BY ConsumerFrame DEF Walk
<1>3. /\ UNCHANGED result /\ queue # <<>> /\ queue' = Tail(queue) /\ m.position < BlockEnd
      /\ consumer' = [consumer EXCEPT !.mark = m, !.gap = TRUE]
      /\ call' = [call EXCEPT !.safe = @ /\ m.position <= call.position]
    BY DEF Walk, Due
<1>4. /\ m \in Marks /\ m.position \in Nat /\ Truthful(m)
      /\ m.position > 0 => Change(m.position)
    BY <1>2, <1>3, QueueTail
<1>5. Types /\ End \in Int
    BY <1>1 DEF MarksInv, End, Typed
<1> HIDE DEF m
<1>6. m \in AnyMark /\ m # NoMark
    BY <1>4 DEF Marks, AnyMark, AnyStamp, Stamps, NoMark, Mark
<1>7. /\ call'.pc = "walk" /\ UNCHANGED <<call.position, call.sequence, call.copy>>
      /\ call'.safe <=> call.safe /\ m.position <= call.position
      /\ call' \in [pc : {"idle", "position", "unsafe", "stamp", "recheck", "drop", "walk"},
                    position : Nat, safe : BOOLEAN, sequence : Nat, copy : AnyMark]
    BY <1>1, <1>2, <1>3, <1>4, <1>5 DEF Types, Typed
<1>8. /\ consumer'.mark = m /\ UNCHANGED <<consumer.seen, consumer.minimum>> /\ consumer'.gap
      /\ consumer' \in [mark : AnyMark, seen : Nat, minimum : Nat, gap : BOOLEAN]
    BY <1>3, <1>5, <1>6 DEF Types
<1>9. Types'
    BY <1>2, <1>3, <1>5, <1>7, <1>8, QueueTail DEF Types
<1>10. BlockEnd' = BlockEnd /\ ~Copying'
    BY <1>2, <1>7 DEF BlockEnd, Copying
<1>11. \A x : Marked(x) /\ x # m.position => Marked(x)'
    BY <1>2, <1>3, QueueTail DEF m
<1>12. /\ consumer.seen <= sequence /\ consumer.seen % 2 = 0
       /\ consumer.seen = sequence =>
             consumer.mark.position <= m.position
       /\ Settled => \A x \in Base.position + 1 .. End - 1 : Change(x) => Marked(x)
    <2>1. /\ consumer.seen <= sequence /\ consumer.seen % 2 = 0
          /\ consumer.seen = sequence =>
                \A i \in DOMAIN queue : consumer.mark.position <= queue[i].position
          /\ Settled => \A x \in Base.position + 1 .. End - 1 : Change(x) => Marked(x)
        BY DEF MarksInv, QueueInv
    <2>2. m = queue[1] /\ 1 \in DOMAIN queue
        BY <1>1, <1>3 DEF Typed, m
    <2> QED
        BY <2>1, <2>2
<1>13. QueueInv'
    <2>1. ASSUME Settled, NEW x \in Base'.position + 1 .. End - 1, Change(x) PROVE Marked(x)'
        <3>1. CASE consumer.seen = sequence
            <4>1. Base = consumer.mark /\ Base' = m
                BY <1>2, <1>8, <3>1 DEF Base
            <4>2. consumer.mark.position \in Nat
                BY <1>1 DEF Typed
            <4>3. x \in consumer.mark.position + 1 .. End - 1 /\ x # m.position
                BY <1>4, <1>5, <1>12, <2>1, <3>1, <4>1, <4>2
            <4> QED
                BY <1>11, <1>12, <2>1, <4>1, <4>3
        <3>2. CASE consumer.seen # sequence
            <4>1. Base = recovery /\ Base' = recovery
                BY <1>2, <1>8, <3>2 DEF Base
            <4>2. BlockEnd <= recovery.position
                BY <1>2, <2>1, <3>2 DEF MarksInv, CallInv
            <4>3. recovery.position \in Nat /\ BlockEnd \in Nat
                BY <1>1 DEF Typed
            <4>4. x # m.position
                BY <1>3, <1>4, <1>5, <2>1, <4>1, <4>2, <4>3
            <4> QED
                BY <1>11, <1>12, <2>1, <4>1, <4>4
        <3> QED
            BY <3>1, <3>2
    <2>2. Truthful(consumer.mark)'
        BY <1>2, <1>4, <1>8 DEF Truthful
    <2>3. /\ Len(queue') <= Capacity
          /\ \A i, j \in DOMAIN queue' : i < j => queue'[i].position < queue'[j].position
          /\ \A i \in DOMAIN queue' :
                /\ Truthful(queue[i])' /\ (queue'[i].position > 0 => Change(queue[i].position)')
                /\ queue'[i].position \in Nat /\ m.position < queue'[i].position
        BY <1>2, <1>3, QueueTail DEF m
    <2>4. \A i \in DOMAIN queue' : m.position <= queue'[i].position
        BY <1>4, <2>3
    <2> QED
        BY <1>2, <1>8, <1>12, <2>1, <2>2, <2>3, <2>4 DEF QueueInv
<1>14. CallInv'
    <2>1. call.position <= published /\ BlockEnd <= published
        BY <1>2 DEF MarksInv, CallInv
    <2>2. Settled /\ consumer.seen # sequence => BlockEnd <= recovery.position
        BY <1>2 DEF MarksInv, CallInv
    <2> QED
        BY <1>2, <1>3, <1>7, <1>8, <1>10, <2>1, <2>2 DEF CallInv
<1>15. NothingLostInv'
    <2> SUFFICES ASSUME sequence = 0
                 PROVE  /\ consumer.minimum = 0
                        /\ ~call'.safe =>
                              \E x \in call.position + 1 .. BlockEnd - 1 : Change(x)
        BY <1>2, <1>6, <1>7, <1>8, <1>10 DEF NothingLostInv
    <2>1. /\ consumer.minimum = 0
          /\ ~call.safe => \E x \in call.position + 1 .. BlockEnd - 1 : Change(x)
        BY <1>2 DEF MarksInv, NothingLostInv
    <2>2. ASSUME ~(m.position <= call.position)
          PROVE  \E x \in call.position + 1 .. BlockEnd - 1 : Change(x)
        <3>1. call.position \in Nat /\ BlockEnd \in Nat
            BY <1>1 DEF Typed
        <3>2. m.position \in call.position + 1 .. BlockEnd - 1 /\ m.position > 0
            BY <1>3, <1>4, <2>2, <3>1
        <3> QED
            BY <1>4, <3>2
    <2> QED
        BY <1>7, <2>1, <2>2
<1>16. ResultInv'
    BY <1>2, <1>3, <1>7, <1>8, ResultKept
<1> QED
    BY <1>2, <1>9, <1>13, <1>14, <1>15, <1>16 DEF MarksInv

-----------------------------------------------------------------------------
(* When no mark before the block's end is left and none was lost, the mark *)
(* in force describes every pair from its own position to that end.        *)
LEMMA MarkInForce ==
    ASSUME MarksInv, call.pc = "walk", ~Due(BlockEnd),
           consumer.seen = sequence, consumer.mark # NoMark
    PROVE  \A x \in consumer.mark.position + 1 .. BlockEnd :
              written[x] = Word(consumer.mark)
<1> DEFINE p == consumer.mark.position
<1>1. /\ p \in Nat /\ BlockEnd \in Nat /\ published \in Nat /\ Len(written) \in Nat
      /\ producer.position \in Nat /\ producer.position <= Len(written)
      /\ published <= Len(written)
    BY MarksTyped DEF Typed
<1>2. Settled /\ Base = consumer.mark
    <2>1. sequence % 2 = 0
        BY DEF MarksInv, QueueInv
    <2> QED
        BY <2>1 DEF MarksInv, ProducerInv, Base
<1>3. BlockEnd <= End /\ End \in Int
    <2>1. BlockEnd <= published
        BY DEF MarksInv, CallInv
    <2>2. published = Len(written) \/ published = producer.position
        BY DEF MarksInv, ProducerInv
    <2>3. wpc = "odd" => published = producer.position
        BY DEF MarksInv, ProducerInv
    <2>4. CASE wpc = "odd"
        BY <1>1, <2>1, <2>3, <2>4 DEF End
    <2>5. CASE wpc # "odd"
        BY <1>1, <2>1, <2>5 DEF End
    <2> QED
        BY <2>4, <2>5
<1>4. ASSUME NEW x \in p + 1 .. BlockEnd - 1 PROVE ~Marked(x)
    <2> SUFFICES ASSUME NEW i \in DOMAIN queue, queue[i].position = x PROVE FALSE
        BY DEF Marked
    <2>1. /\ queue \in Seq(Marks) /\ DOMAIN queue = 1 .. Len(queue) /\ Len(queue) \in Nat
          /\ \A j \in DOMAIN queue : queue[j].position \in Nat
        BY MarksTyped DEF Typed
    <2>2. queue # <<>> /\ Head(queue) = queue[1] /\ 1 \in DOMAIN queue
        BY <2>1
    <2>3. ~(queue[1].position < BlockEnd)
        BY <2>2 DEF Due
    <2>4. i = 1 \/ queue[1].position < queue[i].position
        BY <2>1, <2>2 DEF MarksInv, QueueInv
    <2> QED
        BY <1>1, <2>1, <2>2, <2>3, <2>4
<1>5. \A x \in p + 1 .. End - 1 : Change(x) => Marked(x)
    BY <1>2 DEF MarksInv, QueueInv
<1>6. \A x \in p + 1 .. BlockEnd - 1 : ~Change(x)
    BY <1>1, <1>3, <1>4, <1>5
<1>7. \A x \in p + 1 .. BlockEnd : written[x] = written[p + 1]
    BY <1>1, <1>6, NoChangeIsUniform
<1>8. written[p + 1] = Word(consumer.mark)
    BY DEF MarksInv, QueueInv, Truthful
<1> QED
    BY <1>7, <1>8

(* The answer.                                                             *)
LEMMA FinishInv == ASSUME MarksInv, Finish PROVE MarksInv'
<1> DEFINE mark == consumer.mark
           ok == call.safe /\ mark # NoMark /\ ~mark.unsafe /\ consumer.seen = sequence
<1>1. Typed
    BY MarksTyped
<1>2. /\ UNCHANGED <<sequence, recovery, producer, epoch, written, wpc, published>>
      /\ ProducerInv' /\ call.pc = "walk"
      /\ Settled' = Settled /\ End' = End /\ \A x : Change(x)' <=> Change(x)
    BY ConsumerFrame DEF Finish
<1>3. /\ UNCHANGED queue /\ ~Due(BlockEnd)
      /\ result' = [position |-> call.position, safe |-> ok, stamp |-> mark.stamp,
                    discontinuity |-> consumer.gap \/ ~ok, before |-> result.safe]
      /\ consumer' = [consumer EXCEPT !.gap = ~ok]
      /\ call' = Idle(BlockEnd)
    BY DEF Finish, Pending
<1>4. /\ mark \in AnyMark /\ mark.position \in Nat /\ mark.stamp \in AnyStamp
      /\ call.safe \in BOOLEAN
    BY <1>1 DEF Typed, AnyMark
<1>5. ok \in BOOLEAN /\ Types
    BY <1>4 DEF MarksInv, AnyMark
<1>6. /\ ok => call.safe /\ mark # NoMark /\ ~mark.unsafe /\ consumer.seen = sequence
      /\ call.safe /\ mark # NoMark /\ ~mark.unsafe /\ consumer.seen = sequence => ok
    OBVIOUS
<1> HIDE DEF ok
<1>7. /\ result'.position = call.position /\ (result'.safe <=> ok)
      /\ result'.stamp = mark.stamp /\ (result'.before <=> result.safe)
      /\ result'.discontinuity <=> consumer.gap \/ ~ok
      /\ result' \in [position : Int, safe : BOOLEAN, stamp : AnyStamp,
                      discontinuity : BOOLEAN, before : BOOLEAN]
    <2> DEFINE gap == consumer.gap \/ ~ok
    <2>1. result' = [position |-> call.position, safe |-> ok, stamp |-> mark.stamp,
                     discontinuity |-> gap, before |-> result.safe]
        BY <1>3
    <2>2. gap \in BOOLEAN /\ (gap <=> consumer.gap \/ ~ok)
        OBVIOUS
    <2>3. call.position \in Int /\ result.safe \in BOOLEAN
        BY <1>1 DEF Typed
    <2> HIDE DEF gap, mark
    <2>4. /\ result'.position = call.position /\ result'.safe = ok
          /\ result'.stamp = mark.stamp /\ result'.before = result.safe
          /\ result'.discontinuity = gap
          /\ result' \in [position : Int, safe : BOOLEAN, stamp : AnyStamp,
                          discontinuity : BOOLEAN, before : BOOLEAN]
        BY <1>4, <1>5, <2>1, <2>2, <2>3
    <2> QED
        BY <2>2, <2>4
<1>8. /\ UNCHANGED <<consumer.mark, consumer.seen, consumer.minimum>> /\ (consumer'.gap <=> ~ok)
      /\ consumer' \in [mark : AnyMark, seen : Nat, minimum : Nat, gap : BOOLEAN]
    BY <1>3, <1>5 DEF Types
<1>9. /\ call'.pc = "idle" /\ call'.position = BlockEnd
      /\ call' \in [pc : {"idle", "position", "unsafe", "stamp", "recheck", "drop", "walk"},
                    position : Nat, safe : BOOLEAN, sequence : Nat, copy : AnyMark]
    <2>1. NoMark \in AnyMark
        BY DEF NoMark, Mark, AnyMark, AnyStamp
    <2>2. BlockEnd \in Nat
        BY <1>1 DEF Typed
    <2> QED
        BY <1>3, <2>1, <2>2 DEF Idle
<1>10. Types'
    BY <1>2, <1>3, <1>5, <1>7, <1>8, <1>9 DEF Types
<1>11. Base' = Base /\ ~Copying'
    BY <1>2, <1>8, <1>9 DEF Base, Copying
<1>12. QueueInv'
    BY <1>2, <1>3, <1>8, <1>11 DEF MarksInv, QueueInv, Truthful, Marked
<1>13. CallInv'
    <2>1. /\ BlockEnd <= published
          /\ mark.position <= consumer.minimum \/ mark.position < BlockEnd
        BY <1>2 DEF MarksInv, CallInv
    <2> QED
        BY <1>2, <1>8, <1>9, <1>11, <2>1 DEF CallInv
<1>14. NothingLostInv'
    BY <1>2, <1>3, <1>8, <1>9, <1>11 DEF MarksInv, NothingLostInv
<1>15. Answered' /\ ResultEnd' = BlockEnd
    BY <1>1, <1>7 DEF Answered, ResultEnd, BlockEnd, Typed
<1>16. /\ call.position \in Nat /\ BlockEnd \in Nat /\ BlockSize \in Nat \ {0}
       /\ BlockEnd = call.position + BlockSize
    BY <1>1 DEF Typed
<1>17. ASSUME ok
       PROVE  /\ mark.position <= call.position /\ Word(mark) = <<mark.stamp, FALSE>>
              /\ \A x \in mark.position + 1 .. BlockEnd : written[x] = Word(mark)
              /\ Uniform(call.position, BlockEnd, mark.stamp)
    <2>1. mark.position <= call.position
        BY <1>2, <1>6, <1>17 DEF MarksInv, CallInv
    <2>2. \A x \in mark.position + 1 .. BlockEnd : written[x] = Word(mark)
        BY <1>2, <1>3, <1>6, <1>17, MarkInForce
    <2>3. Word(mark) = <<mark.stamp, FALSE>>
        <3>1. mark.unsafe \in BOOLEAN /\ ~mark.unsafe
            BY <1>4, <1>6, <1>17 DEF AnyMark
        <3> QED
            BY <3>1 DEF Word
    <2>4. \A x \in call.position + 1 .. BlockEnd : x \in mark.position + 1 .. BlockEnd
        BY <1>4, <1>16, <2>1
    <2> QED
        BY <2>1, <2>2, <2>3, <2>4 DEF Uniform
<1>18. SafeIsUniform'
    BY <1>2, <1>7, <1>15, <1>17 DEF SafeIsUniform, Uniform
<1>19. UniformIsSafe'
    <2> SUFFICES ASSUME sequence = 0, ~ok,
                        \A x \in call.position + 1 .. BlockEnd :
                           written[x] = <<written[call.position + 1][1], FALSE>>
                 PROVE  FALSE
        BY <1>2, <1>7, <1>15 DEF UniformIsSafe, Uniform
    <2>1. consumer.seen = sequence
        BY <1>1 DEF MarksInv, QueueInv, Typed
    <2>2. mark # NoMark
        <3> SUFFICES ASSUME mark = NoMark PROVE FALSE
            OBVIOUS
        <3>1. BlockEnd <= published /\ published <= Len(written) /\ published \in Nat
              /\ Len(written) \in Nat
            BY <1>1, <1>2 DEF MarksInv, CallInv, Typed
        <3>2. written # <<>>
            BY <1>16, <3>1
        <3>3. queue # <<>> /\ Head(queue).position = 0
            BY <3>2 DEF MarksInv, NothingLostInv
        <3> QED
            BY <1>3, <1>16, <3>3 DEF Due
    <2>3. call.safe
        <3> SUFFICES ASSUME ~call.safe PROVE FALSE
            OBVIOUS
        <3>1. PICK x \in call.position + 1 .. BlockEnd - 1 : Change(x)
            BY <1>2 DEF MarksInv, NothingLostInv
        <3>2. x \in call.position + 1 .. BlockEnd /\ x + 1 \in call.position + 1 .. BlockEnd
            BY <1>16
        <3>3. written[x] = written[x + 1]
            BY <3>2
        <3> QED
            BY <3>1, <3>3 DEF Change
    <2>4. ~mark.unsafe
        <3>1. mark.position <= call.position
            BY <1>2, <2>3 DEF MarksInv, CallInv
        <3>2. /\ call.position + 1 \in mark.position + 1 .. BlockEnd
              /\ call.position + 1 \in call.position + 1 .. BlockEnd
            BY <1>4, <1>16, <3>1
        <3>3. written[call.position + 1] = Word(mark)
            BY <1>2, <1>3, <2>1, <2>2, <3>2, MarkInForce
        <3>4. written[call.position + 1] = <<written[call.position + 1][1], FALSE>>
            BY <3>2
        <3> DEFINE s == written[call.position + 1][1]
        <3>5. <<mark.stamp, mark.unsafe>> = <<s, FALSE>>
            BY <3>3, <3>4 DEF Word
        <3> HIDE DEF s
        <3>6. mark.unsafe = FALSE
            BY <3>5
        <3> QED
            BY <3>6
    <2> QED
        BY <1>6, <2>1, <2>2, <2>3, <2>4
<1>20. ASSUME ok, ~consumer.gap
       PROVE  /\ result.safe /\ call.position >= BlockSize
              /\ Uniform(call.position - BlockSize, BlockEnd, mark.stamp)
    <2>1. Answered /\ result.safe /\ result.stamp = mark.stamp /\ ResultEnd = call.position
        BY <1>20 DEF MarksInv, ResultInv
    <2>2. Uniform(result.position, call.position, mark.stamp)
        BY <2>1 DEF MarksInv, ResultInv, SafeIsUniform
    <2>3. result.position \in Nat /\ call.position - BlockSize = result.position
        BY <1>1, <1>16, <2>1 DEF Typed, Answered, ResultEnd
    <2>4. Uniform(call.position, BlockEnd, mark.stamp)
        BY <1>17, <1>20
    <2>5. ASSUME NEW x \in result.position + 1 .. BlockEnd
          PROVE  x \in result.position + 1 .. call.position \/ x \in call.position + 1 .. BlockEnd
        BY <1>16, <2>3
    <2>6. Uniform(result.position, BlockEnd, mark.stamp)
        BY <2>2, <2>4, <2>5 DEF Uniform
    <2> QED
        BY <1>16, <2>1, <2>3, <2>6
<1>21. UnmarkedIsContinuous'
    BY <1>2, <1>7, <1>15, <1>20 DEF UnmarkedIsContinuous, Uniform
<1>22. ResultInv'
    BY <1>7, <1>8, <1>9, <1>15, <1>18, <1>19, <1>20, <1>21 DEF ResultInv
<1> QED
    BY <1>2, <1>10, <1>12, <1>13, <1>14, <1>22 DEF MarksInv

-----------------------------------------------------------------------------
LEMMA NextMarksInv == MarksInv /\ [Next]_vars => MarksInv'
<1> SUFFICES ASSUME MarksInv, [Next]_vars PROVE MarksInv'
    OBVIOUS
<1>1. CASE UNCHANGED vars
    <2>1. UNCHANGED <<queue, sequence, recovery, producer, epoch, written, wpc, published,
                      consumer, call, result>>
        BY <1>1 DEF vars, producerVars
    <2>2. /\ Settled' = Settled /\ Base' = Base /\ End' = End /\ Copying' = Copying
          /\ BlockEnd' = BlockEnd
        BY <2>1 DEF Settled, Base, End, Copying, BlockEnd
    <2>3. Types' /\ ProducerInv'
        BY <2>1, <2>2 DEF MarksInv, Types, ProducerInv, Truthful
    <2>4. QueueInv'
        BY <2>1, <2>2 DEF MarksInv, QueueInv, Truthful, Change, Marked
    <2>5. CallInv'
        BY <2>1, <2>2 DEF MarksInv, CallInv, Truthful
    <2>6. NothingLostInv'
        BY <2>1, <2>2 DEF MarksInv, NothingLostInv, Change
    <2>7. ResultInv'
        BY <2>1, ResultKept
    <2> QED
        BY <2>3, <2>4, <2>5, <2>6, <2>7 DEF MarksInv
<1>2. ASSUME NEW size \in WriteSizes, NEW rate \in Rates, NEW trouble \in BOOLEAN,
             Observe(size, rate, trouble)
      PROVE  MarksInv'
    BY <1>2, ObserveInv
<1>3. CASE Turn("odd", "position")
    BY <1>3, TurnOddInv
<1>4. CASE Turn("even", "publish")
    BY <1>4, TurnEvenInv
<1>5. ASSUME NEW i \in DOMAIN Words, StoreWord(i) PROVE MarksInv'
    BY <1>5, StoreWordInv
<1>6. CASE Publish
    BY <1>6, PublishInv
<1>7. CASE LoadSequence
    BY <1>7, LoadSequenceInv
<1>8. CASE CopyWord("position", "unsafe") \/ CopyWord("unsafe", "stamp")
              \/ CopyWord("stamp", "recheck")
    BY <1>8, CopyWordInv
<1>9. CASE Recheck
    BY <1>9, RecheckInv
<1>10. CASE DropMark
    BY <1>10, DropMarkInv
<1>11. CASE Adopt
    BY <1>11, AdoptInv
<1>12. CASE Walk
    BY <1>12, WalkInv
<1>13. CASE Finish
    BY <1>13, FinishInv
<1> QED
    BY <1>1, <1>2, <1>3, <1>4, <1>5, <1>6, <1>7, <1>8, <1>9, <1>10, <1>11, <1>12, <1>13
    DEF Next

LEMMA MarksInvariant == Spec => []MarksInv
<1>1. Init => MarksInv
    BY InitMarksInv
<1>2. MarksInv /\ [Next]_vars => MarksInv'
    BY NextMarksInv
<1> QED
    BY <1>1, <1>2, PTL DEF Spec

(* observe_rf_write stays inside the modelled stream.                      *)
LEMMA StreamIsBounded == Spec => [](Len(written) <= MaxPairs)
<1> DEFINE Bounded == Len(written) <= MaxPairs
<1>1. Init => Bounded
    BY MarksAssumption DEF Init
<1>2. ASSUME MarksInv, Bounded, [Next]_vars PROVE Bounded'
    <2>1. ASSUME NEW size \in WriteSizes, NEW rate \in Rates, NEW trouble \in BOOLEAN,
                 Observe(size, rate, trouble)
          PROVE  Bounded'
        <3>1. Len(written') = Len(written) + size
            BY <1>2, <2>1, ObserveGrows
        <3> QED
            BY <2>1, <3>1 DEF Observe
    <2>2. CASE UNCHANGED written
        BY <1>2, <2>2
    <2> QED
        BY <1>2, <2>1, <2>2 DEF Next, vars, producerVars, Turn, StoreWord, Publish, At,
            LoadSequence, CopyWord, Recheck, DropMark, Adopt, Walk, Finish
<1> HIDE DEF Bounded
<1>3. MarksInv /\ Bounded /\ [Next]_vars => Bounded'
    BY <1>2
<1>4. Spec => []Bounded
    BY <1>1, <1>3, MarksInvariant, PTL DEF Spec
<1> QED
    BY <1>4 DEF Bounded

(* The types of StreamMarks, and the order of the queue which              *)
(* gui_rf_stream_marks.c:114-123 keeps: positions grow and lie inside what *)
(* was written, whatever the queue's capacity.                             *)
THEOREM MarksTypeCorrect == Spec => []TypeOK
<1>1. ASSUME MarksInv, Len(written) <= MaxPairs PROVE TypeOK
    <2>1. Typed /\ Types
        BY <1>1, MarksTyped DEF MarksInv
    <2>2. /\ Len(queue) <= Capacity
          /\ \A i, j \in DOMAIN queue : i < j => queue[i].position < queue[j].position
          /\ \A i \in DOMAIN queue : queue[i].position < Len(written)
          /\ consumer.seen <= sequence /\ call.position <= published
        BY <1>1 DEF MarksInv, QueueInv, CallInv, Truthful
    <2>3. ASSUME NEW i \in DOMAIN queue PROVE queue[i].position \in 0 .. MaxPairs
        <3>1. queue[i].position \in Nat /\ Len(written) \in Nat
            BY <2>1 DEF Typed
        <3>2. MaxPairs \in Nat
            BY MarksAssumption
        <3> QED
            BY <1>1, <2>2, <3>1, <3>2
    <2>4. /\ consumer.seen \in 0 .. sequence /\ published \in 0 .. Len(written)
          /\ call.position \in 0 .. published
        BY <2>1, <2>2 DEF Typed
    <2>5. {consumer.gap, call.safe, result.safe, result.discontinuity} \subseteq BOOLEAN
        BY <2>1 DEF Types
    <2> QED
        BY <2>1, <2>2, <2>3, <2>4, <2>5 DEF TypeOK, Typed
<1> QED
    BY <1>1, MarksInvariant, StreamIsBounded, PTL

(* A block gui_rf_stream_marks_read reports safe was written clean, all of *)
(* it under the rate and epoch reported, however full the queue is, in     *)
(* whatever order the capture thread stores the words of its snapshot and  *)
(* the extraction thread copies them (gui_rf_stream_marks.c:126-192).      *)
THEOREM SafeBlocksAreUniform == Spec => []SafeIsUniform
<1>1. MarksInv => SafeIsUniform
    BY DEF MarksInv, ResultInv
<1> QED
    BY <1>1, MarksInvariant, PTL

(* While the queue has never overflowed no clean block under one stamp is  *)
(* refused (gui_rf_stream_marks.c:76-124, 155-192).                        *)
THEOREM UniformBlocksAreSafe == Spec => []UniformIsSafe
<1>1. MarksInv => UniformIsSafe
    BY DEF MarksInv, ResultInv
<1> QED
    BY <1>1, MarksInvariant, PTL

(* A safe block answered without the discontinuity flag follows a safe     *)
(* block of the same stamp, across walks, recoveries and overflows: the    *)
(* flag that gap_pending carries from block to block is never lost         *)
(* (gui_rf_stream_marks.c:163-190).                                        *)
THEOREM UnmarkedBlocksContinue == Spec => []UnmarkedIsContinuous
<1>1. MarksInv => UnmarkedIsContinuous
    BY DEF MarksInv, ResultInv
<1> QED
    BY <1>1, MarksInvariant, PTL
=============================================================================
