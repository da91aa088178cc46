------------------------------ MODULE Distances ------------------------------
(***************************************************************************)
(* The distance kernels (src/src/distance/mod.rs, index/distance.rs,       *)
(* simdx/mod.rs, simdx/advanced_optimizations.rs).  A kernel adds the      *)
(* terms of two vectors into the lanes of a register, chunk by chunk, adds *)
(* the lanes up with shuffles and then adds the terms that fill no chunk.  *)
(* The widths of the registers and the shuffles are those of the code;     *)
(* components are integers, so rounding is left out.  A batch is computed  *)
(* vector by vector, in order or by several threads at once.               *)
(***************************************************************************)
EXTENDS Integers, Sequences, FiniteSets

LOCAL INSTANCE Functions

CONSTANTS
    DVectors,       \* vectors that two arguments may be
    DBatchVectors,  \* vectors that a batch may hold
    DSmall,         \* a batch up to this size is computed in order
    DMedium,        \* a batch up to this size is one parallel pass
    DChunk,         \* size of a chunk of a larger one
    DMaxBatch,      \* bound on the size of a batch
    DMaxCalls       \* bound on the number of calls

VARIABLES
    simd,           \* the capability of the machine
    job,            \* the call that runs
    metrics,        \* SIMDXMetrics: [operations, vectorized]
    calls

DistanceVars == <<simd, job, metrics, calls>>

Total(t) == SumFunction(t)

-----------------------------------------------------------------------------
(* Which kernels a machine runs *)

(* The features of machines: each implies the ones before it. *)
Machines == {{}, {"sse2"}, {"sse2", "avx"}, {"sse2", "avx", "avx2"},
             {"sse2", "avx", "avx2", "avx512f"}, {"neon"}}

detect(features) ==
    CASE "avx512f" \in features -> "avx512"
      [] "avx512f" \notin features /\ "avx2" \in features -> "avx2"
      [] "avx2" \notin features /\ "avx" \in features -> "avx"
      [] "avx" \notin features /\ "sse2" \in features -> "sse2"
      [] "neon" \in features -> "neon"
      [] OTHER -> "scalar"

(* The engine looks for no plain AVX, and notes one feature only. *)
detect_capabilities(features) ==
    CASE "avx512f" \in features -> "avx512"
      [] "avx512f" \notin features /\ "avx2" \in features -> "avx2"
      [] "avx2" \notin features /\ "sse2" \in features -> "sse2"
      [] "neon" \in features -> "neon"
      [] OTHER -> "scalar"

-----------------------------------------------------------------------------
(* Terms, lanes and sums *)

Products(a, b)    == [i \in DOMAIN a |-> a[i] * b[i]]
Squares(a, b)     == [i \in DOMAIN a |-> (a[i] - b[i]) * (a[i] - b[i])]
Magnitudes(a, b)  == [i \in DOMAIN a |-> IF a[i] >= b[i] THEN a[i] - b[i] ELSE b[i] - a[i]]

Chunks(w, t) == Len(t) \div w

Lanes(w, t) ==
    [l \in 1 .. w |-> Total([k \in 1 .. Chunks(w, t) |-> t[(k - 1) * w + l]])]

Rest(w, t) == Total(SubSeq(t, Chunks(w, t) * w + 1, Len(t)))

hsum128_ps(v) ==
    LET sums == [j \in 1 .. 4 |-> v[j] + v[IF j <= 2 THEN 2 ELSE 4]]
    IN  sums[1] + sums[3]

(* _mm256_hadd_ps(v, v): neighbours are added within each half. *)
Hadd(v) ==
    [j \in 1 .. 8 |-> LET p == (IF j <= 4 THEN 0 ELSE 4) + 2 * ((j - 1) % 2)
                      IN  v[p + 1] + v[p + 2]]

hsum256_ps(v) == LET s == Hadd(Hadd(v)) IN s[1] + s[5]

horizontal_sum_sse2(v) ==
    LET sums == [j \in 1 .. 4 |-> v[j] + v[IF j <= 2 THEN 2 ELSE 4]]
    IN  sums[1] + sums[3]

horizontal_sum_avx2(v) == horizontal_sum_sse2([j \in 1 .. 4 |-> v[j] + v[j + 4]])

horizontal_sum_avx512(v) == horizontal_sum_avx2([j \in 1 .. 8 |-> v[j] + v[j + 8]])

(* _mm512_reduce_add_ps and vaddvq_f32 *)
ReduceAdd(v) == Total(v)

-----------------------------------------------------------------------------
(* The kernels of DistanceCalculator *)

dot_product_scalar(a, b) == Total(Products(a, b))
dot_product_avx512(a, b) == LET t == Products(a, b) IN ReduceAdd(Lanes(16, t)) + Rest(16, t)
dot_product_avx2(a, b)   == LET t == Products(a, b) IN hsum256_ps(Lanes(8, t)) + Rest(8, t)
dot_product_sse(a, b)    == LET t == Products(a, b) IN hsum128_ps(Lanes(4, t)) + Rest(4, t)
dot_product_neon(a, b)   == LET t == Products(a, b) IN ReduceAdd(Lanes(4, t)) + Rest(4, t)

euclidean_scalar(a, b) == Total(Squares(a, b))
euclidean_avx512(a, b) == LET t == Squares(a, b) IN ReduceAdd(Lanes(16, t)) + Rest(16, t)
euclidean_avx2(a, b)   == LET t == Squares(a, b) IN hsum256_ps(Lanes(8, t)) + Rest(8, t)
euclidean_sse(a, b)    == LET t == Squares(a, b) IN hsum128_ps(Lanes(4, t)) + Rest(4, t)
euclidean_neon(a, b)   == LET t == Squares(a, b) IN ReduceAdd(Lanes(4, t)) + Rest(4, t)

manhattan_scalar(a, b) == Total(Magnitudes(a, b))
manhattan_avx512(a, b) == LET t == Magnitudes(a, b) IN ReduceAdd(Lanes(16, t)) + Rest(16, t)
manhattan_avx2(a, b)   == LET t == Magnitudes(a, b) IN hsum256_ps(Lanes(8, t)) + Rest(8, t)

(* dot / sqrt(na * nb), kept as the numerator and the square below it; a   *)
(* zero vector is at 0.                                                    *)
Ratio(dot, na, nb) == IF na = 0 \/ nb = 0 THEN <<0, 1>> ELSE <<dot, na * nb>>

cosine_scalar(a, b) ==
    Ratio(dot_product_scalar(a, b), dot_product_scalar(a, a), dot_product_scalar(b, b))
cosine_avx512(a, b) ==
    Ratio(dot_product_avx512(a, b), dot_product_avx512(a, a), dot_product_avx512(b, b))
cosine_avx2(a, b) ==
    Ratio(dot_product_avx2(a, b), dot_product_avx2(a, a), dot_product_avx2(b, b))

(* A square root, or one minus a ratio, is kept as what it is taken of. *)
Value(n)    == [is |-> "value", of |-> <<n, 1>>]
Root(n)     == [is |-> "root", of |-> <<n, 1>>]
Similar(r)  == [is |-> "ratio", of |-> r]
Away(r)     == [is |-> "one minus", of |-> r]
Refused     == [is |-> "mismatch", of |-> <<0, 1>>]

dot_product(cap, a, b) ==
    IF Len(a) # Len(b) THEN Refused
    ELSE CASE cap = "avx512" -> Value(dot_product_avx512(a, b))
           [] cap = "avx2" -> Value(dot_product_avx2(a, b))
           [] cap \in {"avx", "sse2"} -> Value(dot_product_sse(a, b))
           [] cap = "neon" -> Value(dot_product_neon(a, b))
           [] OTHER -> Value(dot_product_scalar(a, b))

euclidean(cap, a, b) ==
    IF Len(a) # Len(b) THEN Refused
    ELSE Root(CASE cap = "avx512" -> euclidean_avx512(a, b)
                [] cap = "avx2" -> euclidean_avx2(a, b)
                [] cap \in {"avx", "sse2"} -> euclidean_sse(a, b)
                [] cap = "neon" -> euclidean_neon(a, b)
                [] OTHER -> euclidean_scalar(a, b))

cosine(cap, a, b) ==
    IF Len(a) # Len(b) THEN Refused
    ELSE Similar(CASE cap = "avx512" -> cosine_avx512(a, b)
                   [] cap = "avx2" -> cosine_avx2(a, b)
                   [] OTHER -> cosine_scalar(a, b))

manhattan(cap, a, b) ==
    IF Len(a) # Len(b) THEN Refused
    ELSE CASE cap = "avx512" -> Value(manhattan_avx512(a, b))
           [] cap = "avx2" -> Value(manhattan_avx2(a, b))
           [] OTHER -> Value(manhattan_scalar(a, b))

-----------------------------------------------------------------------------
(* The kernels of SIMDXEngine and AdvancedSIMDXOptimizer *)

Sum512(t) == horizontal_sum_avx512(Lanes(16, t)) + Rest(16, t)
Sum256(t) == horizontal_sum_avx2(Lanes(8, t)) + Rest(8, t)
Sum128(t) == horizontal_sum_sse2(Lanes(4, t)) + Rest(4, t)

cosine_distance_avx512(a, b) ==
    Ratio(Sum512(Products(a, b)), Sum512(Products(a, a)), Sum512(Products(b, b)))
cosine_distance_avx2(a, b) ==
    Ratio(Sum256(Products(a, b)), Sum256(Products(a, a)), Sum256(Products(b, b)))
cosine_distance_sse2(a, b) ==
    Ratio(Sum128(Products(a, b)), Sum128(Products(a, a)), Sum128(Products(b, b)))

(* Four terms at a time, then the rest. *)
Unrolled(t) ==
    Total([k \in 1 .. Chunks(4, t) |->
        t[4 * k - 3] + t[4 * k - 2] + t[4 * k - 1] + t[4 * k]]) + Rest(4, t)

cosine_distance_scalar(a, b) ==
    Ratio(Unrolled(Products(a, b)), Unrolled(Products(a, a)), Unrolled(Products(b, b)))

(* A zero vector is at distance 0, not 1: the early return comes first. *)
DistanceOf(a, b, ratio) ==
    IF Total(Products(a, a)) = 0 \/ Total(Products(b, b)) = 0 THEN Value(0) ELSE Away(ratio)

cosine_distance(cap, a, b) ==
    IF Len(a) # Len(b) THEN Refused
    ELSE DistanceOf(a, b, CASE cap = "avx512" -> cosine_distance_avx512(a, b)
                            [] cap = "avx2" -> cosine_distance_avx2(a, b)
                            [] cap = "sse2" -> cosine_distance_sse2(a, b)
                            [] OTHER -> cosine_distance_scalar(a, b))

euclidean_distance_optimized(a, b) ==
    IF Len(a) # Len(b) THEN Refused ELSE Root(Sum512(Squares(a, b)))

dot_product_optimized(a, b) ==
    IF Len(a) # Len(b) THEN Refused ELSE Value(Sum512(Products(a, b)))

(* Of each component, how often it is scaled by the inverse of the norm:   *)
(* the chunks and the rest share the vector out.                           *)
normalize_vector_inplace(v) ==
    [i \in DOMAIN v |->
        IF Sum512(Products(v, v)) = 0 THEN 0
        ELSE (IF i <= Chunks(16, v) * 16 THEN 1 ELSE 0)
             + (IF i > Chunks(16, v) * 16 THEN 1 ELSE 0)]

-----------------------------------------------------------------------------
(* Calls *)

NoJob == [at |-> "idle"]

DistanceInit ==
    /\ simd \in {[calculator |-> detect(f), engine |-> detect_capabilities(f)] : f \in Machines}
    /\ job = NoJob
    /\ metrics = [operations |-> 0, vectorized |-> 0]
    /\ calls = 0

Kinds == {"Cosine", "Euclidean", "DotProduct"}

(* The optimizer's AVX-512 kernels are called on every machine: only one   *)
(* that has the instructions can run them.                                 *)
Runs(kind) == kind = "Cosine" \/ simd.engine = "avx512"

Element(kind, q, v) ==
    CASE kind = "Cosine" -> cosine_distance(simd.engine, q, v)
      [] kind = "Euclidean" -> euclidean_distance_optimized(q, v)
      [] kind = "DotProduct" -> dot_product_optimized(q, v)

-----------------------------------------------------------------------------
(* The functions of the index: no dimension is compared, so a shorter      *)
(* second vector ends the program in one and is cut to in the other.       *)

Panicked == [is |-> "panic", of |-> <<0, 1>>]

l2_distance(a, b) ==
    IF Len(a) > Len(b) THEN Panicked ELSE Root(Total(Squares(a, b)))

index_dot_product(a, b) ==
    LET n == IF Len(a) < Len(b) THEN Len(a) ELSE Len(b)
    IN  Value(Total(Products(SubSeq(a, 1, n), SubSeq(b, 1, n))))

(* The distance, under the name of the similarity. *)
cosine_similarity(a, b) == cosine_distance(simd.engine, a, b)

-----------------------------------------------------------------------------
(* One call of the calculator or of the index *)
Measured(metric, a, b) ==
    CASE metric = "dot" -> dot_product(simd.calculator, a, b)
      [] metric = "euclidean" -> euclidean(simd.calculator, a, b)
      [] metric = "cosine" -> cosine(simd.calculator, a, b)
      [] metric = "manhattan" -> manhattan(simd.calculator, a, b)
      [] metric = "l2_distance" -> l2_distance(a, b)
      [] metric = "index_dot" -> index_dot_product(a, b)
      [] metric = "cosine_similarity" -> cosine_similarity(a, b)

Measure(metric, a, b) ==
    /\ job.at = "idle" /\ calls < DMaxCalls
    /\ job' = [at |-> "measured", metric |-> metric, a |-> a, b |-> b,
               answer |-> Measured(metric, a, b)]
    /\ calls' = calls + 1
    /\ UNCHANGED <<simd, metrics>>

(* batch_normalize_vectors: the vectors are changed independently. *)
Normalise(v) ==
    /\ job.at = "idle" /\ calls < DMaxCalls /\ Runs("DotProduct")
    /\ job' = [at |-> "normalised", vector |-> v, scaled |-> normalize_vector_inplace(v)]
    /\ calls' = calls + 1
    /\ UNCHANGED <<simd, metrics>>

(* Batches *)
ultra_batch_distance(kind, q, batch) ==
    /\ job.at = "idle" /\ calls < DMaxCalls /\ Runs(kind)
    /\ job' = [at |-> "batch", by |-> "optimizer", kind |-> kind, query |-> q,
               batch |-> batch, answers |-> << >>, done |-> {}]
    /\ calls' = calls + 1
    /\ UNCHANGED <<simd, metrics>>

(* The engine compares every dimension before it computes anything. *)
batch_cosine_distance(q, batch) ==
    /\ job.at = "idle" /\ calls < DMaxCalls
    /\ job' = IF \E i \in DOMAIN batch : Len(batch[i]) # Len(q)
              THEN [at |-> "answered", by |-> "engine", kind |-> "Cosine", query |-> q,
                    batch |-> batch, answer |-> <<Refused>>]
              ELSE [at |-> "batch", by |-> "engine", kind |-> "Cosine", query |-> q,
                    batch |-> batch, answers |-> << >>, done |-> {}]
    /\ calls' = calls + 1
    /\ UNCHANGED <<simd, metrics>>

(* The vectors that may be computed next: the first that is left, any of   *)
(* them, or any of the first chunk that has some left.                     *)
Ready ==
    LET n    == Len(job.batch)
        left == (1 .. n) \ job.done
        c(i) == (i - 1) \div DChunk
    IN  IF job.by = "engine" \/ n <= DSmall
        THEN {i \in left : \A j \in left : i <= j}
        ELSE IF n <= DMedium THEN left
        ELSE {i \in left : \A j \in left : c(i) <= c(j)}

(* Where collect puts the result of a vector: at the vector's place, not   *)
(* where the results stand when it arrives.                                *)
Place(i) == i

(* One vector; a call of cosine_distance that succeeds counts itself.  A   *)
(* failure ends the batch.                                                 *)
ComputeOne(i) ==
    /\ job.at = "batch" /\ i \in Ready
    /\ LET d == Element(job.kind, job.query, job.batch[i])
       IN  /\ job' = IF d = Refused
                     THEN [at |-> "answered", by |-> job.by, kind |-> job.kind,
                           query |-> job.query, batch |-> job.batch, answer |-> <<Refused>>]
                     ELSE [job EXCEPT !.answers =
                             [j \in DOMAIN @ \cup {Place(i)} |->
                                 IF j = Place(i) THEN d ELSE @[j]],
                                          !.done = @ \cup {i}]
           /\ metrics' = IF job.kind = "Cosine" /\ d # Refused
                         THEN [operations |-> metrics.operations + 1,
                               vectorized |-> metrics.vectorized + 1]
                         ELSE metrics
    /\ UNCHANGED <<simd, calls>>

(* The engine adds the size of the batch once more. *)
AnswerBatch ==
    /\ job.at = "batch" /\ job.done = DOMAIN job.batch
    /\ job' = [at |-> "answered", by |-> job.by, kind |-> job.kind, query |-> job.query,
               batch |-> job.batch, answer |-> job.answers]
    /\ metrics' = IF job.by = "engine"
                  THEN [metrics EXCEPT !.operations = @ + Len(job.batch)] ELSE metrics
    /\ UNCHANGED <<simd, calls>>

NextJob ==
    /\ job.at \in {"measured", "normalised", "answered"}
    /\ job' = NoJob
    /\ UNCHANGED <<simd, metrics, calls>>

Batches == UNION {[1 .. n -> DBatchVectors] : n \in 0 .. DMaxBatch}

Metrics == {"dot", "euclidean", "cosine", "manhattan",
            "l2_distance", "index_dot", "cosine_similarity"}

DistanceNext ==
    \/ \E m \in Metrics, a, b \in DVectors : Measure(m, a, b)
    \/ \E v \in DVectors : Normalise(v)
    \/ \E q \in DBatchVectors, batch \in Batches :
         \/ batch_cosine_distance(q, batch)
         \/ \E kind \in Kinds : ultra_batch_distance(kind, q, batch)
    \/ \E i \in 1 .. DMaxBatch : ComputeOne(i)
    \/ AnswerBatch
    \/ NextJob

-----------------------------------------------------------------------------
(* Properties *)

(* The state has its type.                                                 *)
DistanceTypeOK ==
    /\ job.at \in {"idle", "measured", "normalised", "batch", "answered"}
    /\ job.at = "batch" => DOMAIN job.answers \subseteq DOMAIN job.batch
    /\ metrics \in [operations : Nat, vectorized : Nat]
    /\ metrics.vectorized <= metrics.operations
    /\ calls \in 0 .. DMaxCalls

(* On every machine the kernels give what a plain loop over the components *)
(* gives: every component is added exactly once by the chunks, the         *)
(* shuffles and the rest together, also for lengths that are no multiple   *)
(* of the register's width or shorter than it, and the two families of     *)
(* functions agree wherever both compute one measure.                      *)
Plain(metric, a, b) ==
    CASE metric \in {"dot", "index_dot"} -> Value(dot_product_scalar(a, b))
      [] metric \in {"euclidean", "l2_distance"} -> Root(euclidean_scalar(a, b))
      [] metric = "manhattan" -> Value(manhattan_scalar(a, b))
      [] metric = "cosine" -> Similar(cosine_scalar(a, b))
      [] metric = "cosine_similarity" -> DistanceOf(a, b, cosine_scalar(a, b))

KernelsAgree ==
    job.at = "measured" /\ Len(job.a) = Len(job.b) =>
        job.answer = Plain(job.metric, job.a, job.b)

(* A batch, whichever strategy its size selects and in whichever order its *)
(* threads finish, is answered with one distance for each vector, the one  *)
(* that the calculator's scalar kernel gives, at the vector's place, and   *)
(* is refused exactly when a vector has another dimension than the query.  *)
Expected(kind, q, v) ==
    CASE kind = "Cosine" -> DistanceOf(q, v, cosine_scalar(q, v))
      [] kind = "Euclidean" -> Root(euclidean_scalar(q, v))
      [] kind = "DotProduct" -> Value(dot_product_scalar(q, v))

BatchInPlace ==
    job.at = "answered" =>
        IF \E i \in DOMAIN job.batch : Len(job.batch[i]) # Len(job.query)
        THEN job.answer = <<Refused>>
        ELSE job.answer = [i \in DOMAIN job.batch |->
                              Expected(job.kind, job.query, job.batch[i])]

(* Normalising a vector scales every component exactly once, and leaves a  *)
(* zero vector as it is.                                                   *)
NormalisedOnce ==
    job.at = "normalised" =>
        \A i \in DOMAIN job.vector :
            job.scaled[i] = IF \A j \in DOMAIN job.vector : job.vector[j] = 0 THEN 0 ELSE 1

=============================================================================
