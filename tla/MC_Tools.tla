------------------------------ MODULE MC_Tools ------------------------------
(***************************************************************************)
(* What runs beside the database, each part with a small instance:         *)
(* migration and its progress, file formats and the Parquet stream, the    *)
(* Jepsen checkers, clients and faults, the gateway and the keys in front  *)
(* of the server, health checks and telemetry.  As in MC_Storage, a        *)
(* behaviour is about the part that the variable part names.               *)
(***************************************************************************)
EXTENDS Migration, Formats, JepsenCheckers, JepsenHarness, ApiGateway,
        Observability

CONSTANT Parts

VARIABLE part

-----------------------------------------------------------------------------
(* The values of constants                                                 *)

From(s, strategy, dry) == [strategy |-> strategy, source |-> s, dry |-> dry]
MCConfigs ==
    {From(s, "stream", FALSE) : s \in {"milvus", "lines", "parquet", "qdrant_text",
                                       "qdrant_number", "pinecone", "unsupported"}}
        \cup {From("lancedb", "executor", FALSE), From("weaviate", "stream", TRUE),
              From("milvus", "executor", TRUE)}

\* A stream is started again after a crash or an error.
MCStarts == [stream |-> 2, executor |-> 1]

\* Files with records, blank lines and lines that do not parse.
MCInputs == {<<1, 2, 3>>, <<1, 2, 3, 4, 5>>, <<1, -1, 2, 3>>, <<1, -2, 2, 3, 4>>}

\* The second record has the wrong dimension, the fourth an odd id and the fifth
\* metadata that is too long.
MCShape ==
    [i \in 1..5 |->
        [dim |-> IF i = 2 THEN 1 ELSE 2, finite |-> TRUE, size |-> 20, idlen |-> 3,
         plain |-> i # 4,
         meta |-> [f \in {"f"} |-> [kind |-> "string", len |-> IF i = 5 THEN 10001 ELSE 10000]]]]
MCConfig == [vectors |-> TRUE, metadata |-> TRUE, dim |-> 2, required |-> {"f"},
             names |-> {"f", "g"}]

\* Forwarding headers: of a proxy, and of a direct client.
MCHeaders == {<<"c", "d">>, <<"none", "c">>}

ToolsVars == <<part, MVars, ProgressVars, FVars, PVars, JepsenVars, TxnVars, ClientVars,
                FaultVars, GatewayVars, AccessVars, HealthVars, TelemetryVars>>

\* A part that rests does so in one of its initial states.
ToolsInit ==
    /\ part \in Parts
    /\ PInit /\ TxnInit /\ GatewayInit /\ AccessInit /\ HealthInit /\ TelemetryInit
    /\ MInit /\ (part # "migration" => mcfg = From("lancedb", "executor", FALSE))
    /\ ProgressInit /\ (part # "progress" => gprogress.total = 0)
    /\ FInit
    /\ part # "formats" => fin = <<1, 2, 3>> /\ ffmt = [in |-> "csv", out |-> "csv"]
    /\ JepsenInit /\ (part # "histories" => jwork = "set")
    /\ ClientInit /\ (part # "clients" => bkind = "sync")
    /\ FaultInit /\ (part # "faults" => nwhich = "process")

MigrationOnly == UNCHANGED <<part, ProgressVars, FVars, PVars, JepsenVars, TxnVars, ClientVars,
                             FaultVars, GatewayVars, AccessVars, HealthVars, TelemetryVars>>
ProgressOnly == UNCHANGED <<part, MVars, FVars, PVars, JepsenVars, TxnVars, ClientVars,
                            FaultVars, GatewayVars, AccessVars, HealthVars, TelemetryVars>>
FormatsOnly == UNCHANGED <<part, MVars, ProgressVars, PVars, JepsenVars, TxnVars, ClientVars,
                           FaultVars, GatewayVars, AccessVars, HealthVars, TelemetryVars>>
ParquetOnly == UNCHANGED <<part, MVars, ProgressVars, FVars, JepsenVars, TxnVars, ClientVars,
                           FaultVars, GatewayVars, AccessVars, HealthVars, TelemetryVars>>
HistoriesOnly == UNCHANGED <<part, MVars, ProgressVars, FVars, PVars, TxnVars, ClientVars,
                             FaultVars, GatewayVars, AccessVars, HealthVars, TelemetryVars>>
TransactionsOnly == UNCHANGED <<part, MVars, ProgressVars, FVars, PVars, JepsenVars, ClientVars,
                                FaultVars, GatewayVars, AccessVars, HealthVars,
                                TelemetryVars>>
ClientsOnly == UNCHANGED <<part, MVars, ProgressVars, FVars, PVars, JepsenVars, TxnVars,
                           FaultVars, GatewayVars, AccessVars, HealthVars, TelemetryVars>>
FaultsOnly == UNCHANGED <<part, MVars, ProgressVars, FVars, PVars, JepsenVars, TxnVars,
                          ClientVars, GatewayVars, AccessVars, HealthVars, TelemetryVars>>
GatewayOnly == UNCHANGED <<part, MVars, ProgressVars, FVars, PVars, JepsenVars, TxnVars,
                           ClientVars, FaultVars, AccessVars, HealthVars, TelemetryVars>>
AccessOnly == UNCHANGED <<part, MVars, ProgressVars, FVars, PVars, JepsenVars, TxnVars,
                          ClientVars, FaultVars, GatewayVars, HealthVars, TelemetryVars>>
HealthOnly == UNCHANGED <<part, MVars, ProgressVars, FVars, PVars, JepsenVars, TxnVars,
                          ClientVars, FaultVars, GatewayVars, AccessVars, TelemetryVars>>
TelemetryOnly == UNCHANGED <<part, MVars, ProgressVars, FVars, PVars, JepsenVars, TxnVars,
                             ClientVars, FaultVars, GatewayVars, AccessVars, HealthVars>>

ToolsNext ==
    \/ part = "migration" /\ MNext /\ MigrationOnly
    \/ part = "progress" /\ ProgressNext /\ ProgressOnly
    \/ part = "formats" /\ FNext /\ FormatsOnly
    \/ part = "parquet" /\ PNext /\ ParquetOnly
    \/ part = "histories" /\ JepsenNext /\ HistoriesOnly
    \/ part = "transactions" /\ TxnNext /\ TransactionsOnly
    \/ part = "clients" /\ ClientNext /\ ClientsOnly
    \/ part = "faults" /\ FaultNext /\ FaultsOnly
    \/ part = "gateway" /\ GatewayNext /\ GatewayOnly
    \/ part = "access" /\ AccessNext /\ AccessOnly
    \/ part = "health" /\ HealthNext /\ HealthOnly
    \/ part = "telemetry" /\ TelemetryNext /\ TelemetryOnly

\* The k-th task of the part: the manager of a migration, its producer and its
\* workers; the logger of the progress; the thread that reads a Parquet file and
\* the caller that polls it; the channel and the timer of the queued client; the
\* runner of a test, its clients and the tasks that heal partitions.
Turn(k) ==
    \/ /\ part = "migration" /\ MigrationOnly
       /\ \/ k = 1 /\ (execute_migration \/ Complete)
          \/ k = 2 /\ ProduceTurn
          \/ k - 2 \in Slots /\ Work(k - 2)
    \/ part = "progress" /\ k = 1 /\ LogTick /\ ProgressOnly
    \/ /\ part = "parquet" /\ ParquetOnly
       /\ \/ k = 1 /\ (ReadBatch \/ ReadEnd)
          \/ k = 2 /\ Poll
    \/ /\ part = "clients" /\ ClientsOnly
       /\ \/ k = 1 /\ ReceiveWrite
          \/ k = 2 /\ FlushTick
    \/ /\ part = "faults" /\ FaultsOnly
       /\ \/ k = 1 /\ (CollectResult \/ EndCollect \/ AwaitClients \/ MonkeyEnds)
          \/ k - 1 \in NClients /\ (ClientSends(k - 1) \/ DurationOver(k - 1))
          \/ k \in {4, 5} /\ (heal_partition(k - 4) \/ RunHeal(k - 4))

\* Tokio runs every task that can go on; the duration of a test passes, and a
\* caller that keeps a stream polls it.
ToolsFairness == \A k \in 1..5 : WF_ToolsVars(Turn(k))

ToolsSpec == ToolsInit /\ [][ToolsNext]_ToolsVars /\ ToolsFairness

-----------------------------------------------------------------------------
(* What the run checks, besides MigrationSafe of the migration, GatewaySafe *)
(* of what stands in front of the server and ProbesSafe of its probes      *)

\* A conversion that succeeds wrote every record in order, the validator finds
\* each id once (formats.rs), and a Parquet stream or file is whole unless an
\* error is reported (parquet_streaming.rs); the counters and statistics that a
\* migration reports fit together (migration/progress.rs).
FormatsSafe ==
    /\ part = "formats" => FormatsTypeOK /\ ConvertsWhole /\ OutputOrdered /\ ValidUnique
    /\ part = "parquet" => ParquetTypeOK /\ StreamsPrefix /\ StreamEndsWhole /\ WriterWhole
    /\ part = "progress" => ProgressTypeOK /\ WindowBounded /\ StatsConsistent

\* The checkers accept histories of a correct store in which no calls overlap and
\* link every conflict of transactions (jepsen/checkers.rs, history.rs); the
\* batching clients make acknowledged writes visible (direct_client_batched.rs,
\* direct_client_sync_batched.rs); recovered faults leave nothing behind
\* (nemesis.rs).
JepsenSafe ==
    /\ part = "histories" => /\ JepsenTypeOK /\ SequentialAccepted /\ UpdatesKept
                             /\ OverlapsGrouped
    /\ part = "transactions" => /\ TxnTypeOK /\ SerialAccepted /\ ConflictsLinked
                                /\ SummariesCount /\ PercentilesOrdered
    /\ part = "clients" => ClientTypeOK /\ QueuedAckedVisible /\ SyncReadsAcked
    /\ part = "faults" => FaultTypeOK /\ NoRulesLeft /\ StopResumes

\* Something of the part is under way that should end.
Pending(k) ==
    \/ part = "migration" /\ StreamRuns
    \/ part = "progress" /\ LoggerLingers
    \/ part = "parquet" /\ ReaderLingers
    \/ part = "clients" /\ WriteQueued(k)
    \/ part = "faults" /\ (IF k = 1 THEN SuiteRuns ELSE StillApart)

\* Streams, loggers, readers, queued writes and test suites end, and partitions
\* heal (migration/mod.rs, progress.rs, parquet_streaming.rs, jepsen).
ToolsFinish == \A k \in 1..2 : Pending(k) ~> ~Pending(k)

=============================================================================
