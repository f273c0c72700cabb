-------------------------- MODULE CharmTracingBuffer --------------------------
(***************************************************************************)
(* The span buffer of the charm_tracing library                            *)
(* (coordinator/lib/charms/tempo_coordinator_k8s/v0/charm_tracing.py).     *)
(*                                                                         *)
(* Every hook of an instrumented charm is one process. Its spans are       *)
(* exported in batches: some while it runs, the last when it closes. Each  *)
(* batch is appended to a file that outlives the hook, and sent to Tempo   *)
(* as well when the charm knows where Tempo is and how to speak to it.     *)
(* When the hook closes it decides whether the file may be emptied.        *)
(***************************************************************************)
EXTENDS Integers, SequencesExt

CONSTANTS MaxHistory,      \* buffer_max_events: the batches the file may hold
          MaxSize,         \* buffer_max_size_mib
          Sizes,           \* sizes a batch can have, in the unit of MaxSize
          BatchesPerHook,  \* batches one hook may export: bounds the checking
          MaxBatches       \* batches ever exported: bounds the checking

ASSUME BufferAssumption ==
  /\ MaxHistory \in Nat /\ MaxSize \in Nat /\ Sizes \subseteq Nat \ {0}
  /\ BatchesPerHook \in Nat \ {0} /\ MaxBatches \in Nat

VARIABLES
  endpoint,  \* what tracing_endpoint resolves to: "none", "http" or "https"
  cert,      \* does server_cert resolve to a certificate
  backend,   \* Tempo: "up", "slow" to answer, "down", or up and refusing
  file,      \* the entries of the buffer file, oldest first
  hook,      \* the hook that runs, if any
  made,      \* the sizes of all batches exported so far, in order
  accepted,  \* the batches Tempo has taken
  exposed,   \* the batches that wrap_close may drop without their being taken
  torn,      \* the batches a process killed in mid-write took with it
  calm       \* has nothing happened to the last hook from its start on

bufferVars == <<endpoint, cert, backend, file, hook, made, accepted, exposed, torn, calm>>
environment == <<endpoint, cert, backend>>

\* A batch is its number in made. An empty file reads back as one entry without
\* spans, b"".split(sep) being [b""]; no file reads back as no entries.
Ghost == 0
NoFile == <<>>
Batches == 1..Len(made)

Backends == {"up", "slow", "refuses", "down"}

NoHook == [phase |-> "none", bufferOnly |-> FALSE, previous |-> FALSE,
           exported |-> 0, next |-> 0, errors |-> FALSE]

BufferInit ==
  /\ endpoint = "none" /\ cert = FALSE /\ backend = "up"
  /\ file = NoFile
  /\ hook = NoHook
  /\ made = <<>> /\ accepted = {} /\ exposed = {} /\ torn = {}
  /\ calm = FALSE

-------------------------------------------------------------------------------
(* The file *)

Written(entries) == IF entries = <<>> THEN <<Ghost>> ELSE entries
IsEmpty == file \in {NoFile, <<Ghost>>}

\* The batches among some entries; an empty file reads as one that is none.
Spans(entries) == ToSet(entries) \ {Ghost}

SizeOf(sizes, b) == IF b = Ghost THEN 0 ELSE sizes[b]
\* Of each number n, what the first n entries take.
Sums(sizes, entries) ==
  LET sum[n \in 0..Len(entries)] ==
        IF n = 0 THEN 0 ELSE SizeOf(sizes, entries[n]) + sum[n - 1]
  IN sum
TotalSize(sizes, entries) == Sums(sizes, entries)[Len(entries)]
LastOf(n, s) == SubSeq(s, Len(s) - n + 1, Len(s))

\* A slip: the length of the history not bounded.
Prune_SizeOnly(sizes, queue) ==
  LET fits == {n \in 0..Len(queue) : TotalSize(sizes, LastOf(n, queue)) <= MaxSize}
  IN LastOf(CHOOSE n \in fits : \A k \in fits : k <= n, queue)

\* The most recent entries, as many as both limits allow.
Prune(sizes, queue) ==
  LET fits == {n \in 0..Len(queue) :
                 /\ n <= MaxHistory
                 /\ TotalSize(sizes, LastOf(n, queue)) <= MaxSize}
  IN LastOf(CHOOSE n \in fits : \A k \in fits : k <= n, queue)

\* save: with a queue pruned to nothing the file is left as it was.
Save(sizes, b) ==
  LET kept == Prune(sizes, Append(file, b))
  IN IF MaxHistory < 1 \/ kept = <<>> THEN file ELSE Written(kept)

\* drop
Drop == Written(<<>>)

-------------------------------------------------------------------------------
(* The environment: configuration and backend change at any time *)

Reconfigure(e, c) ==
  /\ <<endpoint, cert>> # <<e, c>>
  /\ endpoint' = e /\ cert' = c
  /\ calm' = FALSE
  /\ UNCHANGED <<backend, file, hook, made, accepted, exposed, torn>>

BackendBecomes(b) ==
  /\ backend # b
  /\ backend' = b
  /\ calm' = FALSE
  /\ UNCHANGED <<endpoint, cert, file, hook, made, accepted, exposed, torn>>

-------------------------------------------------------------------------------
(* A hook *)

\* wrap_init: buffer only without an endpoint, or with https and no certificate.
BufferOnly == endpoint = "none" \/ (endpoint = "https" /\ ~cert)
BeginHook ==
  /\ hook.phase = "none"
  /\ hook' = [NoHook EXCEPT
                !.phase = "running",
                !.bufferOnly = BufferOnly,
                !.previous = ~IsEmpty]
  /\ calm' = TRUE
  /\ UNCHANGED <<environment, file, made, accepted, exposed, torn>>

\* Does Tempo take what it is sent, in time or not? A backend that "refuses" answers
\* at once with an error that is not retried; one that is "down" is retried beyond
\* the timeout of force_flush.
Takes == backend \in {"up", "slow"}

\* A hook that sends to Tempo and found the buffer empty.
FoundEmpty == ~hook.bufferOnly /\ ~hook.previous

\* The span processors export a batch: the sender's, if there is one, to Tempo,
\* and the buffer's to the file.
ExportBatch(size) ==
  /\ Len(made) < MaxBatches
  /\ made' = Append(made, size)
  /\ file' = Save(made', Len(made'))
  /\ accepted' = IF Takes /\ ~hook.bufferOnly THEN accepted \cup {Len(made')} ELSE accepted
  /\ UNCHANGED <<environment, torn, calm>>

\* A batch is full, or old enough, while the hook runs.
ExportEarly(size) ==
  /\ hook.phase = "running" /\ hook.exported < BatchesPerHook - 1
  /\ ExportBatch(size)
  /\ hook' = [hook EXCEPT !.exported = @ + 1]
  /\ exposed' = IF FoundEmpty THEN exposed \cup {Len(made')} ELSE exposed

\* wrap_close: the root span ends and force_flush exports the last batch. It says
\* whether that was done before the timeout, not whether Tempo has taken the batch.
FlushSuccessful == backend \in {"up", "refuses"}
\* What is decided on it: nothing more to do, empty the file or flush it.
AfterForceFlush_Drop == \* without looking for previous_spans_buffered
  IF hook.bufferOnly \/ ~FlushSuccessful THEN "done" ELSE "drop"
AfterForceFlush ==
  CASE hook.bufferOnly \/ ~FlushSuccessful -> "done"
    [] ~hook.bufferOnly /\ FlushSuccessful /\ ~hook.previous -> "drop"
    [] OTHER -> "flush"

Close(size) ==
  /\ hook.phase = "running"
  /\ ExportBatch(size)
  /\ exposed' = IF FoundEmpty /\ backend = "refuses" THEN exposed \cup {Len(made')}
                ELSE exposed
  /\ hook' = CASE AfterForceFlush = "done" -> NoHook
               [] AfterForceFlush = "drop" -> [hook EXCEPT !.phase = "dropping"]
               [] OTHER -> [hook EXCEPT !.phase = "flushing", !.next = 1]

\* The buffer was empty to begin with: what it holds now is taken to have been sent.
DropBuffer ==
  /\ hook.phase = "dropping"
  /\ file' = Drop
  /\ hook' = NoHook
  /\ UNCHANGED <<environment, made, accepted, exposed, torn, calm>>

\* flush: every entry is sent, whatever became of the one before.
FlushEntry ==
  /\ hook.phase = "flushing" /\ hook.next <= Len(file)
  /\ accepted' = IF Takes THEN accepted \cup Spans(<<file[hook.next]>>) ELSE accepted
  /\ hook' = [hook EXCEPT !.next = @ + 1, !.errors = @ \/ backend # "up"]
  /\ UNCHANGED <<environment, file, made, exposed, torn, calm>>

\* Only a flush without any error empties the file.
Flushed_Anyway == Drop
Flushed == IF hook.errors THEN file ELSE Drop
FlushEnd ==
  /\ hook.phase = "flushing" /\ hook.next > Len(file)
  /\ file' = Flushed
  /\ hook' = NoHook
  /\ UNCHANGED <<environment, made, accepted, exposed, torn, calm>>

\* The process dies. In the middle of a write it leaves an empty file.
Crash ==
  /\ hook.phase # "none"
  /\ hook' = NoHook
  /\ calm' = FALSE
  /\ \/ UNCHANGED <<file, torn>>
     \/ file' = Written(<<>>) /\ torn' = torn \cup Spans(file)
  /\ UNCHANGED <<environment, made, accepted, exposed>>

BufferNext ==
  \/ \E e \in {"none", "http", "https"}, c \in BOOLEAN : Reconfigure(e, c)
  \/ \E b \in Backends : BackendBecomes(b)
  \/ BeginHook
  \/ \E size \in Sizes : ExportEarly(size) \/ Close(size)
  \/ DropBuffer \/ FlushEntry \/ FlushEnd
  \/ Crash

BufferSpec == BufferInit /\ [][BufferNext]_bufferVars

-------------------------------------------------------------------------------
(* Properties *)

BufferTypeOK ==
  /\ endpoint \in {"none", "http", "https"} /\ cert \in BOOLEAN
  /\ backend \in Backends
  /\ made \in Seq(Sizes)
  /\ file \in Seq(Batches \cup {Ghost})
  /\ accepted \subseteq Batches
  /\ exposed \subseteq Batches /\ torn \subseteq Batches
  /\ hook \in [phase : {"none", "running", "dropping", "flushing"},
               bufferOnly : BOOLEAN, previous : BOOLEAN, exported : Nat,
               next : Nat, errors : BOOLEAN]
  /\ calm \in BOOLEAN

\* What the limits of the file excuse: with everything exported since, batch b
\* is more than the file may hold.
BeyondLimits(b) ==
  \/ Len(made) - b + 1 > MaxHistory
  \/ TotalSize(made, [i \in 1..(Len(made) - b + 1) |-> b + i - 1]) > MaxSize

Kept(b) ==
  b \in accepted \/ b \in Spans(file) \/ b \in torn \/ BeyondLimits(b)

\* No batch is lost to an unreachable, slow or unknown backend: Tempo has taken
\* it or the file holds it, unless the file overflowed (charm_tracing.py:377,
\* "we'll be caching the data in the buffer and flush it the next time, so
\* there's no data loss risk").
NothingLost == \A b \in Batches : Kept(b)

\* That much is true of what is exported without a backend, and of all that a hook
\* exports which found a backlog, whatever comes before and after. A hook that found
\* the buffer empty exposes its batches: those it exports before it closes, and the
\* last one to a backend that refuses it at once (wrap_close and flush).
KeptUnlessExposed == \A b \in Batches \ exposed : Kept(b)

\* The file never outgrows its two limits (_prune), whatever is appended to it
\* and whatever an emptied file reads back as.
BufferBounded ==
  /\ Len(file) <= IF MaxHistory = 0 THEN 1 ELSE MaxHistory
  /\ TotalSize(made, file) <= MaxSize

\* An emptied buffer that held anything when the hook began loses nothing the
\* backend has not taken, in hooks of any length (flush).
FlushEmptiesWhatWasTaken ==
  hook.phase = "flushing" /\ hook'.phase = "none" /\ torn' = torn =>
    Spans(file) \ Spans(file') \subseteq accepted
FlushLosesNothing == [][FlushEmptiesWhatWasTaken]_bufferVars

\* One undisturbed hook is enough to catch up after an outage: with an endpoint
\* that can be used and a backend that is up it leaves no backlog (wrap_close).
BacklogCleared ==
  hook.phase = "none" /\ calm /\ ~BufferOnly /\ backend = "up" => IsEmpty

\* The backlog of an outage stays within the limits of the file, and goes.
BacklogLimited == BufferBounded /\ BacklogCleared
===============================================================================
