---------------------------- MODULE ChangeStream ----------------------------
(***************************************************************************)
(* Change data capture, src/src/streaming: the broadcast channel of a      *)
(* collection, the emitters that number and publish events, the WebSocket  *)
(* and SSE handlers that feed subscribers, and the SSE client. The         *)
(* broadcast channel is external (tokio): it keeps the newest KCapacity    *)
(* events, and a receiver that fell behind gets an error once and goes on  *)
(* at the oldest event kept. The transport of SSE is external: it joins    *)
(* messages to chunks as it likes, and sends keep-alives.                  *)
(***************************************************************************)
EXTENDS Integers, Sequences, FiniteSets

CONSTANTS
    KTasks,         \* emitters
    KClients,       \* subscribers: "sse" and "ws" by KKind
    KKind,          \* how each subscriber connects
    KCapacity,      \* config.buffer_size
    KMaxEvents,     \* bound: events that are numbered or published in a batch
    KMaxCloses      \* bound: close_collection

ASSUME ChangeStreamAssumption ==
    /\ KKind \in [KClients -> {"sse", "ws"}] /\ KCapacity \in Nat \ {0}
    /\ KMaxEvents \in Nat /\ KMaxCloses \in Nat

VARIABLES
    kchan,       \* channels: the generation of the open channel, or 0
    kpub,        \* events sent to the channel of each generation
    kcount,      \* sequence_counters
    ktask,       \* emitters: the number they hold, or the batch they are in
    ksub,        \* subscribers
    kused        \* bounds: [events, closes]

CdcVars == <<kchan, kpub, kcount, ktask, ksub, kused>>

NotEmitting == [pc |-> "idle", n |-> 0]
Detached == [state |-> "none", gen |-> 0, at |-> 1, from |-> 1, wire |-> <<>>, buffer |-> <<>>, got |-> <<>>]
KeepAlive == 0          \* a message without data

Generations == 1..(KMaxCloses + 1)

CdcInit ==
    /\ kchan = 0 /\ kpub = [g \in Generations |-> <<>>] /\ kcount = 0
    /\ ktask = [t \in KTasks |-> NotEmitting] /\ ksub = [c \in KClients |-> Detached]
    /\ kused = [events |-> 0, closes |-> 0]

\* subscribe: the channel is created when the collection has none.
subscribe(c) ==
    LET g == IF kchan = 0 THEN kused.closes + 1 ELSE kchan
    IN  /\ ksub[c].state = "none"
        /\ kchan' = g
        /\ ksub' = [ksub EXCEPT ![c] = [Detached EXCEPT
                        !.state = "live", !.gen = g, !.at = Len(kpub[g]) + 1, !.from = Len(kpub[g]) + 1]]
        /\ UNCHANGED <<kpub, kcount, ktask, kused>>

\* Mutant: the counter is read, and stored by the step that publishes.
Numbered_Unstored(n) == n

Numbered(n) == n + 1

\* emit_insert, emit_update, emit_delete: next_sequence, under its own lock ...
emit(t) ==
    /\ ktask[t] = NotEmitting /\ kused.events < KMaxEvents
    /\ kcount' = Numbered(kcount)
    /\ ktask' = [ktask EXCEPT ![t] = [pc |-> "numbered", n |-> kcount + 1]]
    /\ kused' = [kused EXCEPT !.events = @ + 1]
    /\ UNCHANGED <<kchan, kpub, ksub>>

\* publish: an event of a collection without a channel is dropped.
Published(event) ==
    IF kchan = 0 THEN kpub ELSE [kpub EXCEPT ![kchan] = Append(@, event)]

\* ... and publish, under the lock of the channels.
PublishNumbered(t) ==
    /\ ktask[t].pc = "numbered"
    /\ kpub' = Published([by |-> t, batch |-> FALSE, seq |-> ktask[t].n])
    /\ ktask' = [ktask EXCEPT ![t] = NotEmitting]
    /\ UNCHANGED <<kchan, kcount, ksub, kused>>

\* emit_batch publishes its events one by one, numbered from 0.
emit_batch(t) ==
    /\ ktask[t].pc \in {"idle", "batch"} /\ kused.events < KMaxEvents
    /\ kpub' = Published([by |-> t, batch |-> TRUE, seq |-> ktask[t].n])
    /\ \E more \in BOOLEAN :
        ktask' = [ktask EXCEPT ![t] = IF more THEN [pc |-> "batch", n |-> @.n + 1] ELSE NotEmitting]
    /\ kused' = [kused EXCEPT !.events = @ + 1]
    /\ UNCHANGED <<kchan, kcount, ksub>>

close_collection ==
    /\ kchan # 0 /\ kused.closes < KMaxCloses
    /\ kchan' = 0
    /\ kused' = [kused EXCEPT !.closes = @ + 1]
    /\ UNCHANGED <<kpub, kcount, ktask, ksub>>

-----------------------------------------------------------------------------
\* The receiver of a subscriber: the oldest event kept, and what recv answers.
Oldest(s) == IF Len(kpub[s.gen]) <= KCapacity THEN 1 ELSE Len(kpub[s.gen]) - KCapacity + 1
Received(s) == CASE s.at < Oldest(s) -> "lagged"
               [] s.at >= Oldest(s) /\ s.at <= Len(kpub[s.gen]) -> "event"
               [] s.at > Len(kpub[s.gen]) /\ kchan # s.gen -> "closed"
               [] OTHER -> "wait"

\* Mutant: the SSE task goes on after an error.
FedSse_Skips(s) ==
    CASE Received(s) = "event" -> [s EXCEPT !.at = @ + 1, !.wire = Append(@, s.at)]
      [] Received(s) = "lagged" -> [s EXCEPT !.at = Oldest(s)]
      [] OTHER -> [s EXCEPT !.state = "ended"]

\* The task of sse_handler: any error ends the stream.
FedSse(s) ==
    IF Received(s) = "event" THEN [s EXCEPT !.at = @ + 1, !.wire = Append(@, s.at)]
    ELSE [s EXCEPT !.state = "ended"]

sse_handler(c) ==
    /\ KKind[c] = "sse" /\ ksub[c].state = "live" /\ Received(ksub[c]) # "wait"
    /\ ksub' = [ksub EXCEPT ![c] = FedSse(ksub[c])]
    /\ UNCHANGED <<kchan, kpub, kcount, ktask, kused>>

\* A keep-alive goes to a client whose buffer still holds a message.
SendKeepAlive(c) ==
    /\ KKind[c] = "sse" /\ ksub[c].state = "live"
    /\ ksub[c].wire = <<>> /\ ksub[c].buffer # <<>>
    /\ ksub' = [ksub EXCEPT ![c].wire = <<KeepAlive>>]
    /\ UNCHANGED <<kchan, kpub, kcount, ktask, kused>>

\* handle_websocket: select! with the pattern Ok(event); an error disables the
\* branch until a message of the client starts the loop again.
FedSocket(s) ==
    CASE Received(s) = "event" -> [s EXCEPT !.got = Append(@, s.at), !.at = @ + 1]
      [] Received(s) = "lagged" -> [s EXCEPT !.at = Oldest(s), !.state = "stalled"]
      [] OTHER -> [s EXCEPT !.state = "stalled"]

handle_websocket(c) ==
    /\ KKind[c] = "ws" /\ ksub[c].state = "live" /\ Received(ksub[c]) # "wait"
    /\ ksub' = [ksub EXCEPT ![c] = FedSocket(ksub[c])]
    /\ UNCHANGED <<kchan, kpub, kcount, ktask, kused>>

\* A message of the client, or the end of the connection.
ClientMessage(c) ==
    /\ KKind[c] = "ws" /\ ksub[c].state = "stalled"
    /\ \E s \in {"live", "left"} : ksub' = [ksub EXCEPT ![c].state = s]
    /\ UNCHANGED <<kchan, kpub, kcount, ktask, kused>>

\* SseStream::recv: a chunk joins the buffer, the first message is taken out;
\* without data the next chunk is awaited.
sse_recv(c) ==
    /\ KKind[c] = "sse" /\ ksub[c].wire # <<>>
    /\ \E n \in 1..Len(ksub[c].wire) :
        LET all == ksub[c].buffer \o SubSeq(ksub[c].wire, 1, n)
        IN  ksub' = [ksub EXCEPT ![c].wire = SubSeq(@, n + 1, Len(@)),
                                 ![c].buffer = Tail(all),
                                 ![c].got = IF Head(all) = KeepAlive THEN @ ELSE Append(@, Head(all))]
    /\ UNCHANGED <<kchan, kpub, kcount, ktask, kused>>

CdcNext ==
    \/ \E t \in KTasks : emit(t) \/ PublishNumbered(t) \/ emit_batch(t)
    \/ \E c \in KClients :
        \/ subscribe(c) \/ sse_handler(c) \/ SendKeepAlive(c) \/ sse_recv(c)
        \/ handle_websocket(c) \/ ClientMessage(c)
    \/ close_collection

CdcSpec == CdcInit /\ [][CdcNext]_CdcVars

\* The task of the handler runs, keep-alives are sent, and the client reads.
CdcFairness ==
    \A c \in KClients : /\ WF_CdcVars(sse_handler(c)) /\ WF_CdcVars(SendKeepAlive(c))
                        /\ WF_CdcVars(sse_recv(c))

-----------------------------------------------------------------------------
\* Types: one open channel, events with an emitter, subscribers in a state.
CdcTypeOK ==
    /\ kchan \in Generations \cup {0} /\ kcount \in 0..KMaxEvents
    /\ \A c \in KClients :
        /\ ksub[c].state \in {"none", "live", "stalled", "ended", "left"}
        /\ \A i \in DOMAIN ksub[c].got : ksub[c].got[i] \in DOMAIN kpub[ksub[c].gen]

\* Two events outside batches never carry one number, however the emitters
\* interleave, and also across a channel that was closed and made again.
NumbersUnique ==
    \A g, h \in Generations : \A i \in DOMAIN kpub[g], j \in DOMAIN kpub[h] :
        (<<g, i>> # <<h, j>> /\ ~kpub[g][i].batch /\ ~kpub[h][j].batch) =>
            kpub[g][i].seq # kpub[h][j].seq

\* An SSE client receives every event from its subscription on, in order and
\* once, until its stream ends; a WebSocket client receives events in order
\* and once, although some may be missing.
ClientsSeeOrder ==
    \A c \in KClients :
        LET got == ksub[c].got
        IN  \A i \in DOMAIN got :
                /\ KKind[c] = "sse" => got[i] = ksub[c].from + i - 1
                /\ i > 1 => got[i] > got[i - 1]

\* Events have their own numbers, and each client sees those it receives in the
\* order they were published (streaming/mod.rs, server.rs).
StreamOrdered == CdcTypeOK /\ NumbersUnique /\ ClientsSeeOrder

\* Every event published while an SSE client is subscribed reaches it, or its
\* stream has ended: the client is told that it has fallen behind. A message
\* left in the client's buffer comes out with a later chunk.
SseDelivered ==
    \A c \in KClients : KKind[c] = "sse" =>
        \A p \in 1..KMaxEvents :
            (/\ ksub[c].state = "live" /\ p >= ksub[c].from
             /\ p \in DOMAIN kpub[ksub[c].gen])
                ~> (ksub[c].state = "ended" \/ \E i \in DOMAIN ksub[c].got : ksub[c].got[i] = p)
=============================================================================
