------------------------------ MODULE Scheduler ------------------------------
(***************************************************************************)
(* The scheduler binary around a crawler (cmd/scheduler/main.go): the      *)
(* crawler writes JSON documents to a FIFO, fifoDecoder reads them and     *)
(* hands each over an unbuffered channel to the goroutine that creates a   *)
(* Pipeline (or a Search: the second FIFO has its own pair of goroutines   *)
(* that run the same code) for it.  When the crawler has exited, the post- *)
(* stop hook cancels the decoders and waits for all goroutines.            *)
(*                                                                         *)
(* Document m is the m-th one the crawler writes.                          *)
(***************************************************************************)
EXTENDS Naturals, Sequences, FiniteSets, SequencesExt

CONSTANTS
  N,             \* documents the crawler has to write
  Capacity,      \* documents the FIFO holds
  MaxMalformed,  \* bound: documents that do not decode
  Signals,       \* bound: SIGTERMs sent to the wrapper, 0 or 1
  MaxFaults      \* bound: failed creations and failed opens of the FIFO

ASSUME DocumentsAssumption == N \in Nat /\ MaxMalformed \in Nat
ASSUME BoundsAssumption == Capacity \in Nat \ {0} /\ Signals \in {0, 1} /\ MaxFaults \in Nat

VARIABLES
  crawler,  \* the user command
  conn,     \* the crawler's end of the FIFO
  written,  \* documents written so far
  malformed,  \* those of them that do not decode
  pipe,     \* documents in the FIFO
  decoder,  \* where fifoDecoder is
  buf,      \* documents in the json.Decoder's buffer
  doc,      \* the document fifoDecoder sends over the channel
  creator,  \* where the goroutine that creates objects is
  target,   \* the document it works on
  created,  \* documents an object was created for, in order
  failed,   \* documents whose creation returned an error
  wrapper,  \* HookCommand: before, in, and after the post-stop hook
  term,     \* SIGTERMs received: the root context is cancelled
  faults,
  raced,    \* documents written between the reader's EOF and its close
  dropped   \* documents in the buffers when a malformed one came up

writerVars  == <<crawler, conn, written, malformed, raced>>
decoderVars == <<decoder, buf, doc, dropped>>
creatorVars == <<creator, target, created, failed>>
vars == <<crawler, conn, written, malformed, pipe, decoder, buf, doc, creator, target, created,
          failed, wrapper, term, faults, raced, dropped>>

\* The decoder holds the FIFO open from its open to its close.
Reading == decoder \in {"decode", "send", "close"}

\* A FIFO that nobody has open keeps nothing.
Kept(c, s) == IF c = "closed" /\ ~Reading THEN <<>> ELSE s

\* crawlerCtx is cancelled by the post-stop hook, and with its parent.
CrawlerCtxDone == wrapper # "running" \/ term > 0

Fault == faults < MaxFaults /\ faults' = faults + 1

Init ==
  /\ crawler = "running" /\ conn = "closed" /\ written = 0 /\ malformed = {} /\ pipe = <<>>
  /\ decoder = "open" /\ buf = <<>> /\ doc = 0
  /\ creator = "receive" /\ target = 0 /\ created = <<>> /\ failed = {}
  /\ wrapper = "running" /\ term = 0 /\ faults = 0 /\ raced = {} /\ dropped = {}

-----------------------------------------------------------------------------
(* fifoDecoder. *)

\* If the open fails it sleeps and tries again, whatever the context says.
OpenFIFOReader ==
  /\ decoder = "open"
  /\ (decoder' = "decode" /\ UNCHANGED faults) \/ (UNCHANGED decoder /\ Fault)
  /\ UNCHANGED <<writerVars, pipe, buf, doc, dropped, creatorVars, wrapper, term>>

\* Decode reads what is there into its buffer.
Fill ==
  /\ decoder = "decode" /\ buf = <<>>
  /\ \E k \in 1..Len(pipe) :
       buf' = SubSeq(pipe, 1, k) /\ pipe' = SubSeq(pipe, k + 1, Len(pipe))
  /\ UNCHANGED <<writerVars, decoder, doc, dropped, creatorVars, wrapper, term, faults>>

\* Mutant: the decoded document stays in the buffer.
DecodeDocument_Again ==
  /\ decoder = "decode" /\ buf # <<>> /\ Head(buf) \notin malformed
  /\ doc' = Head(buf) /\ decoder' = "send"
  /\ \E b \in {buf, Tail(buf)} : buf' = b
  /\ UNCHANGED <<writerVars, pipe, dropped, creatorVars, wrapper, term, faults>>

DecodeDocument ==
  /\ decoder = "decode" /\ buf # <<>> /\ Head(buf) \notin malformed
  /\ doc' = Head(buf) /\ buf' = Tail(buf) /\ decoder' = "send"
  /\ UNCHANGED <<writerVars, pipe, dropped, creatorVars, wrapper, term, faults>>

\* Decode returns an error: at the end of the file, when no writer is left, or
\* for a malformed document.  The decoder is dropped, and its buffer with it.
DecodeError ==
  /\ decoder = "decode"
  /\ \/ buf = <<>> /\ pipe = <<>> /\ conn = "closed" /\ UNCHANGED dropped
     \/ /\ buf # <<>> /\ Head(buf) \in malformed
        /\ dropped' = dropped \cup Range(buf) \cup Range(pipe)
  /\ buf' = <<>> /\ decoder' = "close"
  /\ UNCHANGED <<writerVars, pipe, doc, creatorVars, wrapper, term, faults>>

CloseReader ==
  /\ decoder = "close" /\ decoder' = "sleep"
  /\ pipe' = IF conn = "closed" THEN <<>> ELSE pipe
  /\ UNCHANGED <<writerVars, buf, doc, dropped, creatorVars, wrapper, term, faults>>

\* Mutant: the context is checked before every Decode.
CheckContext_Early ==
  /\ decoder \in {"sleep", "decode"}
  /\ decoder' = IF CrawlerCtxDone THEN "done" ELSE IF decoder = "sleep" THEN "open" ELSE decoder
  /\ UNCHANGED <<writerVars, pipe, buf, doc, dropped, creatorVars, wrapper, term, faults>>

\* Mutant: the context is never checked.
CheckContext_Never ==
  /\ decoder = "sleep" /\ decoder' = "open"
  /\ UNCHANGED <<writerVars, pipe, buf, doc, dropped, creatorVars, wrapper, term, faults>>

\* The context is checked after an error only, and after a sleep.
CheckContext ==
  /\ decoder = "sleep"
  /\ decoder' = IF CrawlerCtxDone THEN "done" ELSE "open"
  /\ UNCHANGED <<writerVars, pipe, buf, doc, dropped, creatorVars, wrapper, term, faults>>

-----------------------------------------------------------------------------
(* The goroutine that creates objects. *)

\* The channel is unbuffered: sender and receiver meet.
Receive ==
  /\ decoder = "send" /\ creator = "receive"
  /\ decoder' = "decode" /\ creator' = "create" /\ target' = doc
  /\ UNCHANGED <<writerVars, pipe, buf, doc, dropped, created, failed, wrapper, term, faults>>

\* A failed creation is logged and not tried again; once the root context is
\* cancelled every creation fails.
Create ==
  /\ creator = "create"
  /\ \/ /\ term = 0 /\ created' = Append(created, target) /\ creator' = "sleep"
        /\ UNCHANGED <<failed, faults>>
     \/ /\ (term > 0 /\ UNCHANGED faults) \/ (term = 0 /\ Fault)
        /\ failed' = failed \cup {target} /\ creator' = "receive" /\ UNCHANGED created
  /\ UNCHANGED <<writerVars, pipe, decoderVars, target, wrapper, term>>

SleepInterval ==
  /\ creator = "sleep" /\ creator' = "receive"
  /\ UNCHANGED <<writerVars, pipe, decoderVars, target, created, failed, wrapper, term, faults>>

\* Mutant: the zero value a closed channel yields is taken for a document.
ChannelClosed_Zero ==
  /\ creator = "receive" /\ decoder = "done" /\ creator' = "create" /\ target' = 0
  /\ UNCHANGED <<writerVars, pipe, decoderVars, created, failed, wrapper, term, faults>>

ChannelClosed ==
  /\ creator = "receive" /\ decoder = "done" /\ creator' = "done"
  /\ UNCHANGED <<writerVars, pipe, decoderVars, target, created, failed, wrapper, term, faults>>

-----------------------------------------------------------------------------
(* The wrapper. *)

\* The post-stop hook: crawlerCancel, then wg.Wait.
PostStop ==
  /\ wrapper = "running" /\ crawler = "exited" /\ wrapper' = "poststop"
  /\ UNCHANGED <<writerVars, pipe, decoderVars, creatorVars, term, faults>>

Exit ==
  /\ wrapper = "poststop" /\ decoder = "done" /\ creator = "done"
  /\ wrapper' = "exited"
  /\ UNCHANGED <<writerVars, pipe, decoderVars, creatorVars, term, faults>>

SigTerm ==
  /\ wrapper # "exited" /\ term < Signals /\ term' = term + 1
  /\ UNCHANGED <<writerVars, pipe, decoderVars, creatorVars, wrapper, faults>>

-----------------------------------------------------------------------------
(* The crawler, and the kernel's FIFO under it. *)

\* Opening blocks until there is a reader.
OpenWriter ==
  /\ crawler = "running" /\ conn = "closed" /\ written < N /\ Reading
  /\ conn' = "open"
  /\ UNCHANGED <<crawler, written, malformed, raced, pipe, decoderVars, creatorVars, wrapper, term, faults>>

\* Writing blocks while the FIFO is full.
Write ==
  /\ crawler = "running" /\ conn = "open" /\ Reading
  /\ written < N /\ Len(pipe) < Capacity
  /\ written' = written + 1 /\ pipe' = Append(pipe, written + 1)
  /\ \/ UNCHANGED malformed
     \/ Cardinality(malformed) < MaxMalformed /\ malformed' = malformed \cup {written + 1}
  /\ raced' = IF decoder = "close" THEN raced \cup {written + 1} ELSE raced
  /\ UNCHANGED <<crawler, conn, decoderVars, creatorVars, wrapper, term, faults>>

\* The crawler closes its end, as it must when a write fails for want of a
\* reader, or exits.
CloseWriter ==
  /\ crawler = "running"
  /\ \/ conn = "open" /\ UNCHANGED crawler
     \/ crawler' = "exited"
  /\ conn' = "closed" /\ pipe' = Kept("closed", pipe)
  /\ UNCHANGED <<written, malformed, raced, decoderVars, creatorVars, wrapper, term, faults>>

Decoder == OpenFIFOReader \/ Fill \/ DecodeDocument \/ DecodeError \/ CloseReader \/ CheckContext
Creator == Receive \/ Create \/ SleepInterval \/ ChannelClosed
Crawler == OpenWriter \/ Write \/ CloseWriter

Finished == wrapper = "exited" /\ UNCHANGED vars

Next == Decoder \/ Creator \/ PostStop \/ Exit \/ SigTerm \/ Crawler \/ Finished

Spec == Init /\ [][Next]_vars

\* The goroutines run; nothing is assumed of the crawler.
FairSpec ==
  Spec /\ WF_vars(Decoder) /\ WF_vars(Creator) /\ WF_vars(PostStop) /\ WF_vars(Exit)

-----------------------------------------------------------------------------
(* Properties. *)

Accepted  == 1..written

\* Every variable keeps its type; in particular the channel and the creator
\* only ever carry documents the crawler has written.
TypeOK ==
  /\ crawler \in {"running", "exited"} /\ conn \in {"closed", "open"} /\ written \in 0..N
  /\ malformed \subseteq Accepted /\ dropped \subseteq Accepted
  /\ pipe \in Seq(Accepted) /\ buf \in Seq(Accepted) /\ created \in Seq(Accepted)
  /\ decoder \in {"open", "decode", "send", "close", "sleep", "done"}
  /\ creator \in {"receive", "create", "sleep", "done"}
  /\ doc \in {0} \cup Accepted /\ target \in {0} \cup Accepted
  /\ failed \subseteq Accepted /\ raced \subseteq Accepted
  /\ wrapper \in {"running", "poststop", "exited"} /\ term \in 0..Signals
  /\ faults \in 0..MaxFaults

\* Objects are created in the order of the documents, none twice.
InOrder == \A i, j \in DOMAIN created : i < j => created[i] < created[j]

\* Once the wrapper has exited, every document the crawler wrote has its
\* object, or its creation returned an error, or it was written after the
\* reader had met the end of the file and before it closed the FIFO, or it was
\* in the buffers behind a malformed one.
LossIsExplained ==
  wrapper = "exited" => Accepted \subseteq Range(created) \cup failed \cup raced \cup dropped

\* After the crawler has exited the wrapper does: the decoder finds the end of
\* the file, and the channel is closed and drained.
CrawlerExitEnds == crawler = "exited" ~> wrapper = "exited"

=============================================================================
