--------------------------- MODULE MC_Interfaces ---------------------------
(***************************************************************************)
(* What stands between a user and the storage, each part with a small      *)
(* instance: the Qdrant interface, the Weaviate, Milvus, REST and gRPC     *)
(* interfaces, the client, filters, hybrid search, the two graph indexes,  *)
(* distances, quantizers and the change stream.  As in MC_Storage, a       *)
(* behaviour is about the part that the variable part names.               *)
(***************************************************************************)
EXTENDS QdrantApi, CompatApis, ClientSdk, FilteredSearch, GraphIndexes, Distances,
        Quantizers, ChangeStream

CONSTANTS Parts, t1, t2

VARIABLE part

-----------------------------------------------------------------------------
(* The values of constants                                                 *)

\* Upserts: ids that are numbers, numerals and neither, vectors that are accepted
\* and refused, batches of as many vectors as ids or fewer.
Id(kind, n) == [kind |-> kind, n |-> n]
Point(kind, n, vector) == [id |-> Id(kind, n), vector |-> vector]
MCRequests ==
    {[points |-> <<Point("integer", 0, "plain"), Point("integer", 4, "named")>>, batch |-> {}],
     [points |-> <<Point("numeral", 2, "plain"), Point("text", 1, "other_name")>>, batch |-> {}],
     [points |-> <<Point("integer", 1, "named"), Point("integer", 0, "other_name")>>, batch |-> {}],
     [points |-> <<Point("integer", 0, "plain"), Point("integer", 1, "wrong_size")>>, batch |-> {}],
     [points |-> <<Point("integer", 4, "plain")>>,
      batch |-> {[ids |-> <<Id("integer", 0), Id("numeral", 2)>>, vectors |-> <<"plain">>]}]}

\* What a damaged log may give: nothing, or a point and a tombstone.
MCFound == {[points |-> {}, tombs |-> {}], [points |-> {2}, tombs |-> {0}]}

MCSurvivors == {[points |-> [i \in WIds |-> 0], tombs |-> {}],
                [points |-> [i \in WIds |-> IF i = 1 THEN 1 ELSE 0], tombs |-> {2}]}

Num(n) == [kind |-> "number", v |-> n]
Str(w) == [kind |-> "string", v |-> w]
Arr(s) == [kind |-> "array", v |-> s]
Obj(f) == [kind |-> "object", v |-> f]
Key(k) == [key |-> k, each |-> FALSE]
Each(k) == [key |-> k, each |-> TRUE]
On(path, match) == [op |-> "field", path |-> path, match |-> match]

\* Two payloads, with numbers, strings, nested objects and arrays.
MCPayloads == {Obj([f |-> Num(1), g |-> Obj([h |-> Arr(<<Num(0), Str({"x"})>>)])]),
               Obj([f |-> Str({"x", "y"}), g |-> Arr(<<Num(2)>>)])}

\* A range, and a filter with every kind of clause.
MCFilters ==
    {[must |-> <<On(<<Key("f")>>, [NoBounds EXCEPT !.gte = {1}, !.lt = {2}])>>,
      should |-> <<>>, must_not |-> <<>>],
     [must |-> <<>>,
      should |-> <<On(<<Key("g"), Each("h")>>, [op |-> "value", of |-> "number", v |-> 0]),
                   [op |-> "has_id", ids |-> {1}]>>,
      must_not |-> <<On(<<Key("f")>>, [op |-> "text", v |-> {"y"}])>>]}

MCApiFilters ==
    {[must |-> <<[path |-> <<Key("f")>>, match |-> [op |-> "value", v |-> Num(1)]]>>,
      should |-> <<>>,
      must_not |-> <<[path |-> <<Key("f")>>, match |-> [op |-> "keyword", v |-> Str({"y"})]],
                     [path |-> <<Key("g")>>, match |-> [op |-> "integer", v |-> Num(2)]]>>]}

\* Filters of the hybrid engine: half indexable, and not indexable.
Is(v) == [op |-> "eq", field |-> "f", value |-> v]
MCHybridFilters ==
    {[op |-> "and", left |-> Is(1), right |-> [op |-> "gt", field |-> "f", value |-> 0]],
     [op |-> "or", left |-> Is(1), right |-> [op |-> "not", left |-> Is(2)]]}

\* Vectors shorter and longer than the lanes of every kernel, with a rest.
Rising(n) == [i \in 1..n |-> i]
Mixed(n) == [i \in 1..n |-> IF i % 2 = 0 THEN 1 ELSE -2]
MCVectors == {<<>>, Rising(17), Mixed(17), [i \in 1..17 |-> 0], Rising(6),
              [i \in 1..6 |-> -1], [i \in 1..33 |-> i % 5]}
MCBatchVectors == {Rising(17), Mixed(17), Rising(6)}

\* Training sets of two to four vectors, probes, and inputs of the scalar quantizer.
MCTrainings == {<< <<0, 5>>, <<1, 1>>, <<4, 0>> >>, << <<2, 2>>, <<2, 3>> >>,
                << <<0, 1>>, <<3, 1>>, <<7, 9>>, <<8, 2>> >>}
MCProbes == {<<0, 0>>, <<3, 2>>, <<6, 9>>}
MCScalars == {<<0, 2, 5, 6>>, <<1, 1, 3, 8>>, <<4>>}

\* One client listens to server-sent events, one has a WebSocket.
MCKind == [c \in {"s", "w"} |-> IF c = "s" THEN "sse" ELSE "ws"]

InterfacesVars == <<part, QdrantVars, CompatVars, SdkVars, FilteredVars, HybridVars,
                    HnswVars, VectorIndexesVars, DistanceVars,
                    QuantizerVars, CdcVars>>

\* A part that rests does so in one of its initial states.
InterfacesInit ==
    /\ part \in Parts
    /\ QdrantInit /\ CompatInit /\ HybridInit /\ HnswInit /\ VectorIndexesInit /\ CdcInit
    /\ (part # "hnsw" => hmetric = "Cosine") /\ (part # "graph" => vmetric = "Cosine")
    /\ SdkInit /\ (part # "sdk" => sdkServer.there)
    /\ FilteredInit /\ (part # "filters" => \A i \in FsIds : fsStore[i] = {})
    /\ DistanceInit /\ (part # "distances" => simd.calculator = "scalar")
    /\ QuantizerInit /\ (part # "quantizers" => quant.kind = "index")

InterfacesNext ==
    /\ UNCHANGED part
    /\ \/ /\ part = "qdrant" /\ QdrantNext
          /\ UNCHANGED <<CompatVars, SdkVars, FilteredVars, HybridVars, HnswVars,
                         VectorIndexesVars, DistanceVars,
                         QuantizerVars, CdcVars>>
       \/ /\ part = "compat" /\ CompatNext
          /\ UNCHANGED <<QdrantVars, SdkVars, FilteredVars, HybridVars, HnswVars,
                         VectorIndexesVars, DistanceVars,
                         QuantizerVars, CdcVars>>
       \/ /\ part = "sdk" /\ SdkNext
          /\ UNCHANGED <<QdrantVars, CompatVars, FilteredVars, HybridVars, HnswVars,
                         VectorIndexesVars, DistanceVars,
                         QuantizerVars, CdcVars>>
       \/ /\ part = "filters" /\ FilteredNext
          /\ UNCHANGED <<QdrantVars, CompatVars, SdkVars, HybridVars, HnswVars,
                         VectorIndexesVars, DistanceVars,
                         QuantizerVars, CdcVars>>
       \/ /\ part = "hybrid" /\ HybridNext
          /\ UNCHANGED <<QdrantVars, CompatVars, SdkVars, FilteredVars, HnswVars,
                         VectorIndexesVars, DistanceVars,
                         QuantizerVars, CdcVars>>
       \/ /\ part = "hnsw" /\ HnswNext
          /\ UNCHANGED <<QdrantVars, CompatVars, SdkVars, FilteredVars, HybridVars,
                         VectorIndexesVars, DistanceVars,
                         QuantizerVars, CdcVars>>
       \/ /\ part = "graph" /\ VectorIndexesNext
          /\ UNCHANGED <<QdrantVars, CompatVars, SdkVars, FilteredVars, HybridVars,
                         HnswVars, DistanceVars, QuantizerVars,
                         CdcVars>>
       \/ /\ part = "distances" /\ DistanceNext
          /\ UNCHANGED <<QdrantVars, CompatVars, SdkVars, FilteredVars, HybridVars,
                         HnswVars, VectorIndexesVars,
                         QuantizerVars, CdcVars>>
       \/ /\ part = "quantizers" /\ QuantizerNext
          /\ UNCHANGED <<QdrantVars, CompatVars, SdkVars, FilteredVars, HybridVars,
                         HnswVars, VectorIndexesVars,
                         DistanceVars, CdcVars>>
       \/ /\ part = "stream" /\ CdcNext
          /\ UNCHANGED <<QdrantVars, CompatVars, SdkVars, FilteredVars, HybridVars,
                         HnswVars, VectorIndexesVars,
                         DistanceVars, QuantizerVars>>

\* Tokio runs the tasks that feed the streams as long as they can go on.
InterfacesFairness == part = "stream" => CdcFairness

InterfacesSpec == InterfacesInit /\ [][InterfacesNext]_InterfacesVars /\ InterfacesFairness

-----------------------------------------------------------------------------
(* What the run checks, besides InterfacesSafe and BatchesWhole of the     *)
(* interfaces, SdkSafe of the client, StreamOrdered and SseDelivered of    *)
(* the change stream.                                                      *)

\* Filters mean what their clauses mean, and an answer holds only points that
\* matched while the search ran (filter.rs, Collection::search); the hybrid
\* engine's answers match too, with the cache and whichever strategy it chose
\* (hybrid_search.rs).
FiltersSafe ==
    /\ part = "filters" => /\ FilteredTypeOK /\ AnswersWitnessed /\ FiltersCompose
                           /\ RangesSplit /\ ValueFindsItself
    /\ part = "hybrid" => HybridTypeOK /\ AnswersMatch /\ AutoAnswers /\ SelectivityBounded

\* The graphs have no dangling or one-way edge where the code means to keep both
\* ends, their searches answer what is stored, nearest first (hnsw.rs,
\* vector_index.rs); the kernels of all machines compute the same distance
\* (simdx, distance.rs) and codes are the nearest ones (quantization.rs).
IndexesSafe ==
    /\ part = "hnsw" => HnswTypeOK /\ EdgesLive /\ EdgesReturn /\ SearchSound
    /\ part = "graph" => VectorIndexesTypeOK /\ ConnectionsHaveLayer /\ GraphFindsAll
    /\ part = "distances" => DistanceTypeOK /\ KernelsAgree /\ BatchInPlace /\ NormalisedOnce
    /\ part = "quantizers" => /\ QuantizersTypeOK /\ CodesNearest /\ BeamOptimal
                              /\ CompactFaithful

\* No round of training makes the squared error larger: k-means of product quantization
\* and the codebook updates of additive quantization.
QuantizersImprove == DistortionFalls /\ AdditiveDescends

=============================================================================
