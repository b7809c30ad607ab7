--------------------------- MODULE SchedulerProofs ---------------------------
(* The scheduler's drain, for any number of documents, faults and signals, and *)
(* any capacity of the FIFO.                                                 *)
EXTENDS Scheduler, SequenceTheorems, TLAPS

\* The documents at each stage between the crawler and the API server.
Made   == Range(created)
InHand == {m \in {target} : creator = "create"}
Sent   == {m \in {doc} : decoder = "send"}
Read   == Range(buf)
Queued == Range(pipe)

Sorted(s) == \A i, j \in DOMAIN s : i < j => s[i] < s[j]
Before(S, T) == \A x \in S, y \in T : x < y

\* Only documents travel.
Carried ==
  /\ decoder = "send" => doc \in Accepted
  /\ creator = "create" => target \in Accepted

\* The stages hold the documents in the order of writing, the oldest first.
Staged ==
  /\ Sorted(created) /\ Sorted(buf) /\ Sorted(pipe)
  /\ Before(Made, InHand) /\ Before(Made, Sent) /\ Before(Made, Read) /\ Before(Made, Queued)
  /\ Before(InHand, Sent) /\ Before(InHand, Read) /\ Before(InHand, Queued)
  /\ Before(Sent, Read) /\ Before(Sent, Queued)
  /\ Before(Read, Queued)

\* Every document is at a stage, or its loss is explained.
Located ==
  Accepted \subseteq
    (Made \cup InHand \cup Sent \cup Read \cup Queued) \cup (failed \cup raced \cup dropped)

\* What may be thrown away with the FIFO is explained already, and nothing is
\* left once both ends are closed.
Emptied ==
  /\ decoder \notin {"decode", "send"} => buf = <<>> /\ Queued \subseteq raced \cup dropped
  /\ conn = "closed" /\ ~Reading => pipe = <<>>

\* The order in which the process shuts down.
ShutDown ==
  /\ crawler = "exited" => conn = "closed"
  /\ wrapper # "running" => crawler = "exited"
  /\ creator = "done" => decoder = "done"
  /\ wrapper = "exited" => creator = "done"

Drain == Carried /\ Staged /\ Located /\ Emptied /\ ShutDown

-----------------------------------------------------------------------------
(* Sequences of documents. *)

\* The empty sequence.
LEMMA EmptyFacts == Range(<<>>) = {} /\ Sorted(<<>>) /\ \A S : <<>> \in Seq(S)
  BY EmptySeq DEF Range, Sorted

\* The elements of a sequence of documents are numbers.
LEMMA ElementFacts ==
  ASSUME NEW S \in SUBSET Nat, NEW s \in Seq(S)
  PROVE  Len(s) \in Nat /\ DOMAIN s = 1..Len(s) /\ \A i \in 1..Len(s) : s[i] \in Nat
<1>1. \A i \in 1..Len(s) : s[i] \in S
  BY ElementOfSeq
<1>2. Len(s) \in Nat /\ DOMAIN s = 1..Len(s)
  BY LenProperties
<1> QED BY <1>1, <1>2

\* A sequence cut in two.
LEMMA CutFacts ==
  ASSUME NEW S \in SUBSET Nat, NEW s \in Seq(S), NEW k \in 1..Len(s)
  PROVE  /\ SubSeq(s, 1, k) \in Seq(S) /\ SubSeq(s, k + 1, Len(s)) \in Seq(S)
         /\ Range(SubSeq(s, 1, k)) \cup Range(SubSeq(s, k + 1, Len(s))) = Range(s)
         /\ Sorted(s) =>
              /\ Sorted(SubSeq(s, 1, k)) /\ Sorted(SubSeq(s, k + 1, Len(s)))
              /\ Before(Range(SubSeq(s, 1, k)), Range(SubSeq(s, k + 1, Len(s))))
<1> DEFINE a == SubSeq(s, 1, k)
           b == SubSeq(s, k + 1, Len(s))
<1>0. Len(s) \in Nat /\ DOMAIN s = 1..Len(s) /\ \A i \in 1..Len(s) : s[i] \in Nat
  BY ElementFacts
<1>1. a \in Seq(S) /\ Len(a) = k /\ \A i \in 1..k : a[i] = s[i]
  OBVIOUS
<1>2. b \in Seq(S) /\ Len(b) = Len(s) - k /\ \A i \in 1..(Len(s) - k) : b[i] = s[k + i]
  OBVIOUS
<1>3. DOMAIN a = 1..k /\ DOMAIN b = 1..(Len(s) - k)
  BY <1>1, <1>2
<1> HIDE DEF a, b
<1>4. Range(a) \cup Range(b) = Range(s)
  <2>1. ASSUME NEW x \in Range(a) \cup Range(b) PROVE x \in Range(s)
    <3>1. CASE x \in Range(a)
      BY <1>0, <1>1, <1>3, <3>1 DEF Range
    <3>2. CASE x \in Range(b)
      <4>1. PICK i \in 1..(Len(s) - k) : x = b[i]
        BY <1>3, <3>2 DEF Range
      <4>2. k + i \in 1..Len(s) /\ x = s[k + i]
        BY <1>0, <1>2, <4>1
      <4> QED BY <1>0, <4>2 DEF Range
    <3> QED BY <3>1, <3>2
  <2>2. ASSUME NEW x \in Range(s) PROVE x \in Range(a) \cup Range(b)
    <3>1. PICK i \in 1..Len(s) : x = s[i]
      BY <1>0 DEF Range
    <3>2. CASE i <= k
      BY <1>1, <1>3, <3>1, <3>2 DEF Range
    <3>3. CASE i > k
      <4>1. i - k \in 1..(Len(s) - k) /\ b[i - k] = s[i]
        BY <1>0, <1>2, <3>3
      <4> QED BY <1>3, <3>1, <4>1 DEF Range
    <3> QED BY <1>0, <3>2, <3>3
  <2> QED BY <2>1, <2>2
<1>5. ASSUME Sorted(s) PROVE Sorted(a) /\ Sorted(b) /\ Before(Range(a), Range(b))
  <2>1. Sorted(a)
    BY <1>0, <1>1, <1>3, <1>5 DEF Sorted
  <2>2. Sorted(b)
    <3> SUFFICES ASSUME NEW i \in 1..(Len(s) - k), NEW j \in 1..(Len(s) - k), i < j
                 PROVE  b[i] < b[j]
      BY <1>3 DEF Sorted
    <3>1. k + i \in 1..Len(s) /\ k + j \in 1..Len(s) /\ k + i < k + j
      BY <1>0
    <3> QED BY <1>0, <1>2, <1>5, <3>1 DEF Sorted
  <2>3. Before(Range(a), Range(b))
    <3> SUFFICES ASSUME NEW i \in 1..k, NEW j \in 1..(Len(s) - k) PROVE a[i] < b[j]
      BY <1>3 DEF Before, Range
    <3>1. i \in 1..Len(s) /\ k + j \in 1..Len(s) /\ i < k + j
      BY <1>0
    <3> QED BY <1>0, <1>1, <1>2, <1>5, <3>1 DEF Sorted
  <2> QED BY <2>1, <2>2, <2>3
<1> QED BY <1>1, <1>2, <1>4, <1>5 DEF a, b

\* A sequence taken from its head.
LEMMA HeadFacts ==
  ASSUME NEW S \in SUBSET Nat, NEW s \in Seq(S), s # <<>>
  PROVE  /\ Head(s) \in S /\ Tail(s) \in Seq(S)
         /\ Range(s) = {Head(s)} \cup Range(Tail(s))
         /\ Sorted(s) => Sorted(Tail(s)) /\ Before({Head(s)}, Range(Tail(s)))
<1> DEFINE t == Tail(s)
<1>0. Len(s) \in Nat \ {0} /\ DOMAIN s = 1..Len(s) /\ \A i \in 1..Len(s) : s[i] \in Nat
  BY ElementFacts, EmptySeq
<1>1. Head(s) \in S /\ Head(s) = s[1]
  BY <1>0
<1>2. t \in Seq(S) /\ Len(t) = Len(s) - 1 /\ \A i \in 1..(Len(s) - 1) : t[i] = s[i + 1]
  BY HeadTailProperties
<1>3. DOMAIN t = 1..(Len(s) - 1)
  BY <1>2
<1> HIDE DEF t
<1>4. Range(s) = {Head(s)} \cup Range(t)
  <2>1. ASSUME NEW x \in {Head(s)} \cup Range(t) PROVE x \in Range(s)
    <3>1. CASE x = Head(s)
      BY <1>0, <1>1, <3>1 DEF Range
    <3>2. CASE x \in Range(t)
      <4>1. PICK i \in 1..(Len(s) - 1) : x = t[i]
        BY <1>3, <3>2 DEF Range
      <4>2. i + 1 \in 1..Len(s) /\ x = s[i + 1]
        BY <1>0, <1>2, <4>1
      <4> QED BY <1>0, <4>2 DEF Range
    <3> QED BY <3>1, <3>2
  <2>2. ASSUME NEW x \in Range(s) PROVE x \in {Head(s)} \cup Range(t)
    <3>1. PICK i \in 1..Len(s) : x = s[i]
      BY <1>0 DEF Range
    <3>2. CASE i = 1
      BY <1>1, <3>1, <3>2
    <3>3. CASE i > 1
      <4>1. i - 1 \in 1..(Len(s) - 1) /\ t[i - 1] = s[i]
        BY <1>0, <1>2, <3>3
      <4> QED BY <1>3, <3>1, <4>1 DEF Range
    <3> QED BY <1>0, <3>2, <3>3
  <2> QED BY <2>1, <2>2
<1>5. ASSUME Sorted(s) PROVE Sorted(t) /\ Before({Head(s)}, Range(t))
  <2>1. Sorted(t)
    <3> SUFFICES ASSUME NEW i \in 1..(Len(s) - 1), NEW j \in 1..(Len(s) - 1), i < j
                 PROVE  t[i] < t[j]
      BY <1>3 DEF Sorted
    <3>1. i + 1 \in 1..Len(s) /\ j + 1 \in 1..Len(s) /\ i + 1 < j + 1
      BY <1>0
    <3> QED BY <1>0, <1>2, <1>5, <3>1 DEF Sorted
  <2>2. Before({Head(s)}, Range(t))
    <3> SUFFICES ASSUME NEW j \in 1..(Len(s) - 1) PROVE s[1] < t[j]
      BY <1>1, <1>3 DEF Before, Range
    <3>1. 1 \in 1..Len(s) /\ j + 1 \in 1..Len(s) /\ 1 < j + 1
      BY <1>0
    <3> QED BY <1>0, <1>2, <1>5, <3>1 DEF Sorted
  <2> QED BY <2>1, <2>2
<1> QED BY <1>1, <1>2, <1>4, <1>5 DEF t

\* A sequence with one element more.
LEMMA AppendFacts ==
  ASSUME NEW S \in SUBSET Nat, NEW s \in Seq(S), NEW x \in S
  PROVE  /\ Append(s, x) \in Seq(S)
         /\ Range(Append(s, x)) = Range(s) \cup {x}
         /\ Sorted(s) /\ Before(Range(s), {x}) => Sorted(Append(s, x))
<1> DEFINE t == Append(s, x)
<1>0. Len(s) \in Nat /\ DOMAIN s = 1..Len(s) /\ \A i \in 1..Len(s) : s[i] \in Nat
  BY ElementFacts
<1>1. /\ t \in Seq(S) /\ Len(t) = Len(s) + 1 /\ t[Len(s) + 1] = x
      /\ \A i \in 1..Len(s) : t[i] = s[i]
  BY AppendProperties
<1>2. DOMAIN t = 1..(Len(s) + 1)
  BY <1>1
<1> HIDE DEF t
<1>3. Range(t) = Range(s) \cup {x}
  BY <1>0, <1>1, <1>2 DEF Range
<1>4. ASSUME Sorted(s), Before(Range(s), {x}) PROVE Sorted(t)
  BY <1>0, <1>1, <1>2, <1>4 DEF Sorted, Before, Range
<1> QED BY <1>1, <1>3, <1>4 DEF t

\* More documents: what was a sequence of documents still is one.
LEMMA MoreFacts ==
  ASSUME NEW m \in Nat, NEW s \in Seq(1..m)
  PROVE  s \in Seq(1..(m + 1))
  BY 1..m \subseteq 1..(m + 1), SeqMonotonic

\* The elements of a sequence.
LEMMA RangeFacts ==
  ASSUME NEW S, NEW s \in Seq(S)
  PROVE  Range(s) \subseteq S
  BY DEF Range

-----------------------------------------------------------------------------
(* The steps. *)

USE DEF writerVars, decoderVars, creatorVars

\* Documents are numbers.
LEMMA AcceptedFacts == TypeOK => Accepted \in SUBSET Nat /\ written \in Nat
  BY DocumentsAssumption DEF TypeOK, Accepted

\* Every step keeps the types.
LEMMA TypeStep == TypeOK /\ Carried /\ [Next]_vars => TypeOK' /\ Carried'
<1> SUFFICES ASSUME TypeOK, Carried, [Next]_vars PROVE TypeOK' /\ Carried'
  OBVIOUS
<1>0. Accepted \in SUBSET Nat /\ written \in Nat
  BY AcceptedFacts
<1>1. CASE OpenFIFOReader
  BY <1>1, BoundsAssumption DEF OpenFIFOReader, Fault, TypeOK, Carried, Accepted
<1>2. CASE Fill
  <2>1. PICK k \in 1..Len(pipe) :
          buf' = SubSeq(pipe, 1, k) /\ pipe' = SubSeq(pipe, k + 1, Len(pipe))
    BY <1>2 DEF Fill
  <2>2. pipe \in Seq(Accepted)
    BY DEF TypeOK
  <2>3. buf' \in Seq(Accepted) /\ pipe' \in Seq(Accepted)
    BY <1>0, <2>1, <2>2, CutFacts
  <2> QED BY <1>2, <2>3 DEF Fill, TypeOK, Carried, Accepted
<1>3. CASE DecodeDocument
  <2>1. Head(buf) \in Accepted /\ Tail(buf) \in Seq(Accepted)
    BY <1>0, <1>3, HeadFacts DEF DecodeDocument, TypeOK
  <2> QED BY <1>3, <2>1 DEF DecodeDocument, TypeOK, Carried, Accepted
<1>4. CASE DecodeError
  <2>1. Range(buf) \cup Range(pipe) \subseteq Accepted /\ <<>> \in Seq(Accepted)
    BY RangeFacts, EmptyFacts DEF TypeOK
  <2>2. dropped' \subseteq Accepted
    BY <1>4, <2>1 DEF DecodeError, TypeOK
  <2> QED BY <1>4, <2>1, <2>2 DEF DecodeError, TypeOK, Carried, Accepted
<1>5. CASE CloseReader
  <2>1. pipe' \in Seq(Accepted)
    BY <1>5, EmptyFacts DEF CloseReader, TypeOK
  <2> QED BY <1>5, <2>1 DEF CloseReader, TypeOK, Carried, Accepted
<1>6. CASE CheckContext
  BY <1>6 DEF CheckContext, TypeOK, Carried, Accepted
<1>7. CASE Receive
  BY <1>7 DEF Receive, TypeOK, Carried, Accepted
<1>8. CASE Create
  <2>1. target \in Accepted
    BY <1>8 DEF Create, Carried
  <2>2. created' \in Seq(Accepted)
    <3>1. created \in Seq(Accepted)
      BY DEF TypeOK
    <3>2. Append(created, target) \in Seq(Accepted)
      BY <1>0, <2>1, <3>1, AppendFacts
    <3> QED BY <1>8, <3>1, <3>2 DEF Create
  <2>3. failed' \subseteq Accepted
    BY <1>8, <2>1 DEF Create, TypeOK
  <2>4. faults' \in 0..MaxFaults
    <3>1. faults' = faults \/ Fault
      BY <1>8 DEF Create
    <3> QED BY <3>1, BoundsAssumption DEF TypeOK, Fault
  <2> QED BY <1>8, <2>2, <2>3, <2>4 DEF Create, TypeOK, Carried, Accepted
<1>9. CASE SleepInterval \/ ChannelClosed \/ PostStop \/ Exit
  BY <1>9 DEF SleepInterval, ChannelClosed, PostStop, Exit, TypeOK, Carried, Accepted
<1>10. CASE SigTerm
  BY <1>10, BoundsAssumption DEF SigTerm, TypeOK, Carried, Accepted
<1>11. CASE OpenWriter
  BY <1>11 DEF OpenWriter, TypeOK, Carried, Accepted
<1>12. CASE Write
  <2>1. written' = written + 1 /\ written' \in 0..N
    BY <1>0, <1>12, DocumentsAssumption DEF Write
  <2>2. Accepted' = 1..(written + 1) /\ Accepted \subseteq Accepted' /\ written + 1 \in Accepted'
    BY <1>0, <2>1 DEF Accepted
  <2>3. {pipe, buf, created} \subseteq Seq(Accepted')
    BY <1>0, <2>2, MoreFacts DEF TypeOK, Accepted
  <2>4. pipe' \in Seq(Accepted')
    <3>1. Accepted' \in SUBSET Nat
      BY <1>0, <2>2
    <3>2. pipe \in Seq(Accepted')
      BY <2>3
    <3>3. Append(pipe, written + 1) \in Seq(Accepted')
      BY <2>2, <3>1, <3>2, AppendFacts
    <3> QED BY <1>12, <3>3 DEF Write
  <2>5. malformed' \subseteq Accepted' /\ raced' \subseteq Accepted'
    BY <1>12, <2>2 DEF Write, TypeOK
  <2> QED BY <1>12, <2>1, <2>2, <2>3, <2>4, <2>5 DEF Write, TypeOK, Carried
<1>13. CASE CloseWriter
  <2>1. pipe' \in Seq(Accepted)
    BY <1>13, EmptyFacts DEF CloseWriter, Kept, TypeOK
  <2> QED BY <1>13, <2>1 DEF CloseWriter, TypeOK, Carried, Accepted
<1>14. CASE UNCHANGED vars
  BY <1>14 DEF vars, TypeOK, Carried, Accepted
<1> QED
  BY <1>1, <1>2, <1>3, <1>4, <1>5, <1>6, <1>7, <1>8, <1>9, <1>10, <1>11, <1>12, <1>13, <1>14
     DEF Next, Decoder, Creator, Crawler, Finished

\* Every step keeps the order of the stages: a document only ever moves to the
\* next stage, and from the front of its own.
LEMMA StagedStep == TypeOK /\ Carried /\ Staged /\ [Next]_vars => Staged'
<1> SUFFICES ASSUME TypeOK, Carried, Staged, [Next]_vars PROVE Staged'
  OBVIOUS
<1>0. Accepted \in SUBSET Nat /\ written \in Nat
  BY AcceptedFacts
<1>a. /\ pipe \in Seq(Accepted) /\ buf \in Seq(Accepted) /\ created \in Seq(Accepted)
      /\ Queued \subseteq Accepted /\ Read \subseteq Accepted /\ Made \subseteq Accepted
      /\ InHand \subseteq Accepted /\ Sent \subseteq Accepted
  BY RangeFacts DEF TypeOK, Carried, Queued, Read, Made, InHand, Sent
<1>1. CASE OpenFIFOReader \/ CheckContext \/ SleepInterval \/ ChannelClosed \/ PostStop \/ Exit
           \/ SigTerm \/ OpenWriter
  <2>1. UNCHANGED <<created, buf, pipe, Made, Read, Queued>> /\ InHand' = InHand /\ Sent' = Sent
    BY <1>1 DEF OpenFIFOReader, CheckContext, SleepInterval, ChannelClosed, PostStop, Exit,
                SigTerm, OpenWriter, Made, Read, Queued, InHand, Sent
  <2> QED BY <2>1 DEF Staged
<1>2. CASE Fill
  <2>1. PICK k \in 1..Len(pipe) :
          buf' = SubSeq(pipe, 1, k) /\ pipe' = SubSeq(pipe, k + 1, Len(pipe))
    BY <1>2 DEF Fill
  <2>2. /\ Read' \cup Queued' = Queued
        /\ Sorted(buf') /\ Sorted(pipe') /\ Before(Read', Queued')
    BY <1>0, <1>a, <2>1, CutFacts DEF Read, Queued, Staged
  <2>3. Made' = Made /\ InHand' = InHand /\ Sent' = Sent /\ created' = created
    BY <1>2 DEF Fill, Made, InHand, Sent
  <2> QED BY <2>2, <2>3 DEF Staged, Before
<1>3. CASE DecodeDocument
  <2>1. /\ Read = {Head(buf)} \cup Range(Tail(buf))
        /\ Sorted(Tail(buf)) /\ Before({Head(buf)}, Range(Tail(buf)))
    BY <1>0, <1>a, <1>3, HeadFacts DEF DecodeDocument, Read, Staged
  <2>2. Sent' = {Head(buf)} /\ Read' = Range(Tail(buf)) /\ buf' = Tail(buf)
    BY <1>3 DEF DecodeDocument, Sent, Read
  <2>3. UNCHANGED <<created, pipe, Made, InHand, Queued>>
    BY <1>3 DEF DecodeDocument, Made, InHand, Queued
  <2> QED BY <2>1, <2>2, <2>3 DEF Staged, Before
<1>4. CASE DecodeError
  <2>1. Read' = {} /\ Sorted(buf')
    BY <1>4, EmptyFacts DEF DecodeError, Read
  <2>2. UNCHANGED <<created, pipe, Made, InHand, Queued>> /\ Sent' = {}
    BY <1>4 DEF DecodeError, Made, InHand, Queued, Sent
  <2> QED BY <2>1, <2>2 DEF Staged, Before
<1>5. CASE CloseReader \/ CloseWriter
  <2>1. UNCHANGED <<created, buf, Made, InHand, Read>> /\ Sent' = Sent
    BY <1>5 DEF CloseReader, CloseWriter, Made, InHand, Read, Sent
  <2>2. Queued' \subseteq Queued /\ Sorted(pipe')
    BY <1>5, EmptyFacts DEF CloseReader, CloseWriter, Kept, Queued, Staged
  <2> QED BY <2>1, <2>2 DEF Staged, Before
<1>6. CASE Receive
  <2>1. InHand' = Sent /\ Sent' = {}
    BY <1>6 DEF Receive, InHand, Sent
  <2>2. UNCHANGED <<created, buf, pipe, Made, Read, Queued>>
    BY <1>6 DEF Receive, Made, Read, Queued
  <2> QED BY <2>1, <2>2 DEF Staged, Before
<1>7. CASE Create
  <2>1. UNCHANGED <<buf, pipe, Read, Queued, Sent>> /\ InHand' = {} /\ InHand = {target}
    BY <1>7 DEF Create, Read, Queued, Sent, InHand
  <2>2. CASE created' = created
    <3>1. Made' = Made
      BY <2>2 DEF Made
    <3> QED BY <2>1, <2>2, <3>1 DEF Staged, Before
  <2>3. CASE created' = Append(created, target)
    <3>1. target \in Accepted
      BY <1>7 DEF Create, Carried
    <3>2. Made' = Made \cup InHand /\ Sorted(created')
      BY <1>0, <1>a, <2>1, <2>3, <3>1, AppendFacts DEF Made, Staged
    <3> QED BY <2>1, <3>2 DEF Staged, Before
  <2> QED BY <1>7, <2>2, <2>3 DEF Create
<1>8. CASE Write
  <2>1. UNCHANGED <<created, buf, Made, InHand, Read, Sent>> /\ pipe' = Append(pipe, written + 1)
    BY <1>8 DEF Write, Made, InHand, Read, Sent
  <2>2. Before(Accepted, {written + 1})
    BY <1>0 DEF Before, Accepted
  <2>3. Queued' = Queued \cup {written + 1} /\ Sorted(pipe')
    <3>1. pipe \in Seq(1..(written + 1)) /\ 1..(written + 1) \in SUBSET Nat
      BY <1>0, <1>a, MoreFacts DEF Accepted
    <3>2. written + 1 \in 1..(written + 1)
      BY <1>0
    <3>3. Before(Range(pipe), {written + 1})
      BY <1>a, <2>2 DEF Before, Queued
    <3> QED BY <2>1, <3>1, <3>2, <3>3, AppendFacts DEF Queued, Staged
  <2> QED BY <1>a, <2>1, <2>2, <2>3 DEF Staged, Before
<1>9. CASE UNCHANGED vars
  <2>1. UNCHANGED <<created, buf, pipe, Made, Read, Queued, InHand, Sent>>
    BY <1>9 DEF vars, Made, Read, Queued, InHand, Sent
  <2> QED BY <2>1 DEF Staged
<1> QED
  BY <1>1, <1>2, <1>3, <1>4, <1>5, <1>6, <1>7, <1>8, <1>9
     DEF Next, Decoder, Creator, Crawler, Finished

\* Every step keeps track of every document.
LEMMA LocatedStep == TypeOK /\ Located /\ Emptied /\ [Next]_vars => Located'
<1> SUFFICES ASSUME TypeOK, Located, Emptied, [Next]_vars PROVE Located'
  OBVIOUS
<1>0. Accepted \in SUBSET Nat /\ written \in Nat /\ pipe \in Seq(Accepted)
      /\ buf \in Seq(Accepted) /\ created \in Seq(Accepted)
  BY AcceptedFacts DEF TypeOK
<1>1. CASE OpenFIFOReader \/ CheckContext \/ SleepInterval \/ ChannelClosed \/ PostStop \/ Exit
           \/ SigTerm \/ OpenWriter
  BY <1>1 DEF OpenFIFOReader, CheckContext, SleepInterval, ChannelClosed, PostStop, Exit, SigTerm,
              OpenWriter, Located, Accepted, Made, Read, Queued, InHand, Sent
<1>2. CASE Fill
  <2>1. PICK k \in 1..Len(pipe) :
          buf' = SubSeq(pipe, 1, k) /\ pipe' = SubSeq(pipe, k + 1, Len(pipe))
    BY <1>2 DEF Fill
  <2>2. Read' \cup Queued' = Queued
    BY <1>0, <2>1, CutFacts DEF Read, Queued
  <2>3. Read = {}
    BY <1>2, EmptyFacts DEF Fill, Read
  <2>4. UNCHANGED <<Accepted, Made, InHand, Sent, failed, raced, dropped>>
    BY <1>2 DEF Fill, Accepted, Made, InHand, Sent
  <2> QED BY <2>2, <2>3, <2>4 DEF Located
<1>3. CASE DecodeDocument
  <2>1. Read = {Head(buf)} \cup Range(Tail(buf))
    BY <1>0, <1>3, HeadFacts DEF DecodeDocument, Read
  <2>2. Sent' = {Head(buf)} /\ Read' = Range(Tail(buf)) /\ Sent = {}
    BY <1>3 DEF DecodeDocument, Sent, Read
  <2>3. UNCHANGED <<Accepted, Made, InHand, Queued, failed, raced, dropped>>
    BY <1>3 DEF DecodeDocument, Accepted, Made, InHand, Queued
  <2> QED BY <2>1, <2>2, <2>3 DEF Located
<1>4. CASE DecodeError
  <2>1. Read \subseteq dropped' /\ dropped \subseteq dropped'
    BY <1>4, EmptyFacts DEF DecodeError, Read
  <2>2. UNCHANGED <<Accepted, Made, InHand, Queued, failed, raced>> /\ Sent = {}
    BY <1>4 DEF DecodeError, Accepted, Made, InHand, Queued, Sent
  <2> QED BY <2>1, <2>2 DEF Located
<1>5. CASE CloseReader \/ CloseWriter
  <2>1. UNCHANGED <<Accepted, Made, InHand, Read, failed, raced, dropped>> /\ Sent' = Sent
    BY <1>5 DEF CloseReader, CloseWriter, Accepted, Made, InHand, Read, Sent
  <2>2. Queued' = Queued \/ Queued \subseteq raced \cup dropped
    BY <1>5 DEF CloseReader, CloseWriter, Kept, Reading, Queued, Emptied
  <2> QED BY <2>1, <2>2 DEF Located
<1>6. CASE Receive
  <2>1. InHand' = Sent /\ InHand = {}
    BY <1>6 DEF Receive, InHand, Sent
  <2>2. UNCHANGED <<Accepted, Made, Read, Queued, failed, raced, dropped>>
    BY <1>6 DEF Receive, Accepted, Made, Read, Queued
  <2> QED BY <2>1, <2>2 DEF Located
<1>7. CASE Create
  <2>1. UNCHANGED <<Accepted, Read, Queued, Sent, raced, dropped>> /\ InHand = {target}
    BY <1>7 DEF Create, Accepted, Read, Queued, Sent, InHand
  <2>2. CASE created' = created /\ failed' = failed \cup {target}
    <3>1. Made' = Made
      BY <2>2 DEF Made
    <3> QED BY <2>1, <2>2, <3>1 DEF Located
  <2>3. CASE created' = Append(created, target) /\ failed' = failed
    <3>1. Made' = Made \cup {target}
      <4>1. DOMAIN created = 1..Len(created) /\ Len(created) \in Nat
        BY <1>0
      <4>2. /\ DOMAIN created' = 1..(Len(created) + 1) /\ created'[Len(created) + 1] = target
            /\ \A i \in 1..Len(created) : created'[i] = created[i]
        BY <1>0, <2>3
      <4> QED BY <4>1, <4>2 DEF Made, Range
    <3> QED BY <2>1, <2>3, <3>1 DEF Located
  <2> QED BY <1>7, <2>2, <2>3 DEF Create
<1>8. CASE Write
  <2>1. /\ UNCHANGED <<Made, InHand, Read, Sent, failed, dropped>>
        /\ raced \subseteq raced' /\ pipe' = Append(pipe, written + 1)
    BY <1>8 DEF Write, Made, InHand, Read, Sent
  <2>2. Accepted' = Accepted \cup {written + 1}
    BY <1>0, <1>8 DEF Write, Accepted
  <2>3. Queued' = Queued \cup {written + 1}
    <3>1. pipe \in Seq(1..(written + 1)) /\ 1..(written + 1) \in SUBSET Nat
      BY <1>0, MoreFacts DEF Accepted
    <3>2. written + 1 \in 1..(written + 1)
      BY <1>0
    <3> QED BY <2>1, <3>1, <3>2, AppendFacts DEF Queued
  <2> QED BY <2>1, <2>2, <2>3 DEF Located
<1>9. CASE UNCHANGED vars
  BY <1>9 DEF vars, Located, Accepted, Made, Read, Queued, InHand, Sent
<1> QED
  BY <1>1, <1>2, <1>3, <1>4, <1>5, <1>6, <1>7, <1>8, <1>9
     DEF Next, Decoder, Creator, Crawler, Finished

\* Every step keeps what the FIFO may lose explained.
LEMMA EmptiedStep == TypeOK /\ Emptied /\ ShutDown /\ [Next]_vars => Emptied'
<1> SUFFICES ASSUME TypeOK, Emptied, ShutDown, [Next]_vars PROVE Emptied'
  OBVIOUS
<1>0. Accepted \in SUBSET Nat /\ written \in Nat /\ pipe \in Seq(Accepted)
  BY AcceptedFacts DEF TypeOK
<1>1. CASE OpenFIFOReader \/ CheckContext \/ SleepInterval \/ ChannelClosed \/ PostStop \/ Exit
           \/ SigTerm \/ OpenWriter
  BY <1>1 DEF OpenFIFOReader, CheckContext, SleepInterval, ChannelClosed, PostStop, Exit, SigTerm,
              OpenWriter, Emptied, Queued, Reading
<1>2. CASE Fill \/ DecodeDocument \/ Receive
  BY <1>2 DEF Fill, DecodeDocument, Receive, Emptied, Reading
<1>3. CASE DecodeError
  <2>1. Queued' \subseteq raced' \cup dropped'
    BY <1>3, EmptyFacts DEF DecodeError, Queued
  <2> QED BY <1>3, <2>1 DEF DecodeError, Emptied, Reading
<1>4. CASE CloseReader
  <2>1. Queued' \subseteq Queued
    BY <1>4, EmptyFacts DEF CloseReader, Queued
  <2> QED BY <1>4, <2>1 DEF CloseReader, Emptied, Reading
<1>5. CASE CloseWriter
  <2>1. Queued' \subseteq Queued
    BY <1>5, EmptyFacts DEF CloseWriter, Kept, Queued
  <2> QED BY <1>5, <2>1 DEF CloseWriter, Kept, Emptied, Reading
<1>6. CASE Create
  BY <1>6 DEF Create, Emptied, Reading, Queued
<1>7. CASE Write
  <2>1. Reading' /\ buf' = buf /\ decoder' = decoder
    BY <1>7 DEF Write, Reading
  <2>2. ASSUME decoder = "close" PROVE Queued' \subseteq raced' \cup dropped'
    <3>1. Queued' = Queued \cup {written + 1}
      <4>1. pipe \in Seq(1..(written + 1)) /\ 1..(written + 1) \in SUBSET Nat
        BY <1>0, MoreFacts DEF Accepted
      <4>2. written + 1 \in 1..(written + 1) /\ pipe' = Append(pipe, written + 1)
        BY <1>0, <1>7 DEF Write
      <4> QED BY <4>1, <4>2, AppendFacts DEF Queued
    <3>2. Queued \subseteq raced \cup dropped
      BY <2>2 DEF Emptied
    <3> QED BY <1>7, <2>2, <3>1, <3>2 DEF Write
  <2> QED BY <1>7, <2>1, <2>2 DEF Write, Emptied, Reading
<1>8. CASE UNCHANGED vars
  BY <1>8 DEF vars, Emptied, Reading, Queued
<1> QED
  BY <1>1, <1>2, <1>3, <1>4, <1>5, <1>6, <1>7, <1>8
     DEF Next, Decoder, Creator, Crawler, Finished

\* Every step keeps the order of the shutdown.
LEMMA ShutDownStep == TypeOK /\ ShutDown /\ [Next]_vars => ShutDown'
<1> SUFFICES ASSUME TypeOK, ShutDown, [Next]_vars PROVE ShutDown'
  OBVIOUS
<1> USE DEF ShutDown
<1>1. CASE Decoder
  BY <1>1 DEF Decoder, OpenFIFOReader, Fill, DecodeDocument, DecodeError, CloseReader, CheckContext
<1>2. CASE Creator
  BY <1>2 DEF Creator, Receive, Create, SleepInterval, ChannelClosed
<1>3. CASE PostStop \/ Exit \/ SigTerm
  BY <1>3 DEF PostStop, Exit, SigTerm
<1>4. CASE Crawler
  BY <1>4 DEF Crawler, OpenWriter, Write, CloseWriter
<1>5. CASE UNCHANGED vars
  BY <1>5 DEF vars
<1> QED BY <1>1, <1>2, <1>3, <1>4, <1>5 DEF Next, Finished

-----------------------------------------------------------------------------
(* The results. *)

\* The inductive invariant holds throughout.
LEMMA DrainInvariant == Spec => [](TypeOK /\ Drain)
<1>1. Init => TypeOK /\ Drain
  <2>1. ASSUME Init PROVE /\ Accepted = {} /\ Made = {} /\ InHand = {} /\ Sent = {} /\ Read = {}
                          /\ Queued = {} /\ Sorted(created) /\ Sorted(buf) /\ Sorted(pipe)
    BY <2>1, EmptyFacts DEF Init, Accepted, Made, InHand, Sent, Read, Queued
  <2>2. ASSUME Init PROVE Staged /\ Located
    BY <2>1, <2>2 DEF Staged, Located, Before
  <2>3. ASSUME Init PROVE TypeOK
    BY <2>3, EmptyFacts, DocumentsAssumption, BoundsAssumption DEF Init, TypeOK
  <2>4. ASSUME Init PROVE Carried /\ Emptied /\ ShutDown
    BY <2>1, <2>4 DEF Init, Carried, Emptied, ShutDown
  <2> QED BY <2>2, <2>3, <2>4 DEF Drain
<1>2. TypeOK /\ Drain /\ [Next]_vars => TypeOK' /\ Drain'
  BY TypeStep, StagedStep, LocatedStep, EmptiedStep, ShutDownStep DEF Drain
<1> QED BY <1>1, <1>2, PTL DEF Spec

\* Every variable keeps its type: the channel and the creator only ever carry
\* documents the crawler has written.
THEOREM TypeCorrect == Spec => []TypeOK
  BY DrainInvariant, PTL

\* Objects are created in the order in which the crawler wrote their documents,
\* and none twice, for any number of documents and any interleaving of the
\* crawler, the decoder and the creator.
THEOREM OrderCorrect == Spec => []InOrder
<1>1. Drain => InOrder
  BY DEF Drain, Staged, Sorted, InOrder
<1> QED BY <1>1, DrainInvariant, PTL

\* When the wrapper has exited, every document has its object or a reason.
THEOREM LossCorrect == Spec => []LossIsExplained
<1>1. TypeOK /\ Drain => LossIsExplained
  <2> SUFFICES ASSUME TypeOK, Drain, wrapper = "exited"
               PROVE  Accepted \subseteq Range(created) \cup failed \cup raced \cup dropped
    BY DEF LossIsExplained
  <2>1. creator = "done" /\ decoder = "done"
    BY DEF Drain, ShutDown
  <2>2. InHand = {} /\ Sent = {}
    BY <2>1 DEF InHand, Sent
  <2>3. Read = {} /\ Queued \subseteq raced \cup dropped
    BY <2>1, EmptyFacts DEF Drain, Emptied, Read
  <2> QED BY <2>2, <2>3 DEF Drain, Located, Made
<1> QED BY <1>1, DrainInvariant, PTL

=============================================================================
