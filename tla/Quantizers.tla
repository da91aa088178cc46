----------------------------- MODULE Quantizers -----------------------------
(***************************************************************************)
(* The quantizers (src/src/index/quantization.rs, quantization/product.rs, *)
(* quantization/advanced.rs).  A vector has QM components, a subspace has  *)
(* one; components are integers and means are fractions.  Training is      *)
(* taken round by round: the codebook of each subspace by k-means in the   *)
(* two product quantizers, all codebooks together in the additive one, one *)
(* after the other on what the earlier ones leave in the residual one.     *)
(* Random centroids are any of those that the generator can give.  The     *)
(* neural codebook, whose weights are random, is left out.                 *)
(***************************************************************************)
EXTENDS Integers, Sequences, FiniteSets

LOCAL INSTANCE SequencesExt

CONSTANTS
    QM,             \* subspaces
    QK,             \* centroids of a codebook
    QTrainings,     \* sequences of vectors that train may get
    QProbes,        \* vectors that are encoded
    QRounds,        \* rounds of k-means
    QBooks,         \* codebooks of the advanced quantizer
    QWords,         \* codewords that random_init may draw
    QScalars,       \* training sequences of the advanced quantizer
    QBeam           \* width of the beam

VARIABLES quant

QuantizerVars == quant

-----------------------------------------------------------------------------
(* Fractions *)

gcd[a \in Nat, b \in Nat] == IF b = 0 THEN a ELSE gcd[b, a % b]

Frac(n, d) == LET g == gcd[IF n < 0 THEN 0 - n ELSE n, d] IN <<n \div g, d \div g>>

Whole(n)    == <<n, 1>>
Plus(a, b)  == Frac(a[1] * b[2] + b[1] * a[2], a[2] * b[2])
Minus(a, b) == Frac(a[1] * b[2] - b[1] * a[2], a[2] * b[2])
Square(a)   == Frac(a[1] * a[1], a[2] * a[2])
Less(a, b)  == a[1] * b[2] < b[1] * a[2]
Sum(s)      == FoldSeq(Plus, Whole(0), s)
Mean(s)     == LET t == Sum(s) IN Frac(t[1], t[2] * Len(s))
SquaredGap(a, b)   == Square(Minus(a, b))
Apart(a, b) == IF Less(a, b) THEN Minus(b, a) ELSE Minus(a, b)

-----------------------------------------------------------------------------
(* Nearest centroids and k-means *)

(* The first of the nearest. *)
find_nearest(centroids, x) ==
    CHOOSE i \in DOMAIN centroids :
        \A j \in DOMAIN centroids :
            /\ ~Less(SquaredGap(x, centroids[j]), SquaredGap(x, centroids[i]))
            /\ j < i => Less(SquaredGap(x, centroids[i]), SquaredGap(x, centroids[j]))

Cluster(centroids, xs, i) == SelectSeq(xs, LAMBDA x : find_nearest(centroids, x) = i)

(* Farthest-first: the first vector, then one that is farthest from those  *)
(* picked (the first vector again when all are at distance 0).             *)
FarthestFrom(picked, xs) ==
    LET away(x) == SquaredGap(x, picked[find_nearest(picked, x)])
    IN  xs[CHOOSE i \in DOMAIN xs :
             \A j \in DOMAIN xs :
                 /\ ~Less(away(xs[i]), away(xs[j]))
                 /\ j < i => Less(away(xs[j]), away(xs[i]))]

Seeded(xs) ==
    LET pick[n \in 1 .. QK] ==
            IF n = 1 THEN <<xs[1]>> ELSE Append(pick[n - 1], FarthestFrom(pick[n - 1], xs))
    IN  pick[QK]

(* A round of index/quantization.rs: an empty cluster keeps its centroid. *)
LloydRound(centroids, xs) ==
    [i \in DOMAIN centroids |->
        LET c == Cluster(centroids, xs, i) IN IF c = << >> THEN centroids[i] ELSE Mean(c)]

(* A round of quantization/product.rs: an empty cluster gets a random      *)
(* training vector.                                                        *)
ProductRounds(centroids, xs) ==
    {[i \in DOMAIN centroids |->
        LET c == Cluster(centroids, xs, i) IN IF c = << >> THEN xs[pick[i]] ELSE Mean(c)] :
            pick \in [DOMAIN centroids -> DOMAIN xs]}

Distortion(centroids, xs) ==
    Sum([j \in DOMAIN xs |-> SquaredGap(xs[j], centroids[find_nearest(centroids, xs[j])])])

(* The subvectors of subspace m *)
Column(vectors, m) == [j \in DOMAIN vectors |-> Whole(vectors[j][m])]

-----------------------------------------------------------------------------
(* Training of the product quantizers.  index/quantization.rs pushes its   *)
(* codebooks, so those of a second training are never used;                *)
(* quantization/product.rs replaces them.                                  *)

Untrained(kind, books, runs) == [kind |-> kind, at |-> "idle", books |-> books, runs |-> runs]

StartSubspace(vectors, books, m, run) ==
    LET xs == Column(vectors, m)
        begin(cs) == [kind |-> quant.kind, at |-> "rounds", vectors |-> vectors, m |-> m,
                      centroids |-> cs, round |-> 0, books |-> books, runs |-> run]
    IN  \/ quant.kind = "index" /\ quant' = begin(Seeded(xs))
        \/ /\ quant.kind = "product"
           /\ \E pick \in [1 .. QK -> DOMAIN xs] :
                quant' = begin([i \in 1 .. QK |-> xs[pick[i]]])

product_train(vectors) ==
    /\ quant.kind \in {"index", "product"} /\ quant.at = "idle" /\ quant.runs < 2
    /\ StartSubspace(vectors, quant.books, 1, quant.runs + 1)

TrainRound ==
    /\ quant.kind \in {"index", "product"} /\ quant.at = "rounds" /\ quant.round < QRounds
    /\ LET xs == Column(quant.vectors, quant.m)
       IN  \E cs \in IF quant.kind = "index" THEN {LloydRound(quant.centroids, xs)}
                     ELSE ProductRounds(quant.centroids, xs) :
             quant' = [quant EXCEPT !.centroids = cs, !.round = @ + 1]

Kept(books) ==
    IF quant.kind = "index" THEN Append(books, quant.centroids)
    ELSE [m \in DOMAIN books \cup {quant.m} |->
             IF m = quant.m THEN quant.centroids ELSE books[m]]

NextSubspace ==
    /\ quant.kind \in {"index", "product"} /\ quant.at = "rounds" /\ quant.round = QRounds
    /\ IF quant.m = QM THEN quant' = Untrained(quant.kind, Kept(quant.books), quant.runs)
       ELSE StartSubspace(quant.vectors, Kept(quant.books), quant.m + 1, quant.runs)

pq_encode(v) == [m \in 1 .. QM |-> find_nearest(quant.books[m], Whole(v[m]))]

pq_decode(codes) == [m \in 1 .. QM |-> quant.books[m][codes[m]]]

compute_lookup_table(q) ==
    [m \in 1 .. QM |-> [i \in 1 .. QK |-> SquaredGap(Whole(q[m]), quant.books[m][i])]]

(* The square of the distance: one entry of each table. *)
asymmetric_distance(q, codes) ==
    Sum([m \in 1 .. QM |-> compute_lookup_table(q)[m][codes[m]]])

-----------------------------------------------------------------------------
(* The advanced quantizer, with one component *)

add_training_data(xs, fits) ==
    /\ quant.kind = "advanced" /\ quant.at = "idle" /\ quant.data = << >> /\ fits
    /\ quant' = [quant EXCEPT !.data = [j \in DOMAIN xs |-> Whole(xs[j])]]

AllBooks == [1 .. QBooks -> [1 .. QK -> {Whole(w) : w \in QWords}]]

(* The sum of the codewords; a prefix of the codes is reconstructed too. *)
reconstruct_vector(books, codes) ==
    Sum([b \in DOMAIN codes |-> books[b][codes[b]]])

reconstruct_partial(books, codes, excluded) ==
    Sum([b \in DOMAIN codes |-> IF b = excluded THEN Whole(0) ELSE books[b][codes[b]]])

(* The Euclidean distance, of one component. *)
ErrorOf(books, codes, x) == Apart(x, reconstruct_vector(books, codes))

(* Of the candidates, the beam keeps the QBeam best; equals in any order.  *)
Narrowed(books, candidates, x) ==
    IF Cardinality(candidates) <= QBeam THEN candidates
    ELSE CHOOSE s \in SUBSET candidates :
             /\ Cardinality(s) = QBeam
             /\ \A c \in s, d \in candidates \ s :
                    ~Less(ErrorOf(books, d, x), ErrorOf(books, c, x))

beam_search_assignment(books, x) ==
    LET beam[n \in 0 .. QBooks] ==
            IF n = 0 THEN {<< >>}
            ELSE Narrowed(books, {Append(c, i) : c \in beam[n - 1], i \in 1 .. QK}, x)
    IN  CHOOSE c \in beam[QBooks] :
            \A d \in beam[QBooks] : ~Less(ErrorOf(books, d, x), ErrorOf(books, c, x))

\* Mutant: the codebook itself counts among the others.
UpdatedBook_Whole(books, assigned, b) ==
    [i \in 1 .. QK |->
        LET mine == SelectSeq([j \in DOMAIN assigned |-> j], LAMBDA j : assigned[j][b] = i)
        IN  IF mine = << >> THEN books[b][i]
            ELSE Mean([n \in DOMAIN mine |-> Minus(quant.data[mine[n]],
                     reconstruct_vector(books, assigned[mine[n]]))])]

(* Codebook after codebook, each entry becomes the mean of what the other  *)
(* codebooks, as they are by then, leave of its vectors.                   *)
UpdatedBook(books, assigned, b) ==
    [i \in 1 .. QK |->
        LET mine == SelectSeq([j \in DOMAIN assigned |-> j], LAMBDA j : assigned[j][b] = i)
        IN  IF mine = << >> THEN books[b][i]
            ELSE Mean([n \in DOMAIN mine |-> Minus(quant.data[mine[n]],
                     reconstruct_partial(books, assigned[mine[n]], b))])]

(* train begins: too few vectors are refused. *)
advanced_train ==
    /\ quant.kind = "advanced" /\ quant.at = "idle" /\ ~quant.trained /\ quant.error = "none"
    /\ IF Len(quant.data) < QBooks * QK
       THEN quant' = [quant EXCEPT !.error = "insufficient"]
       ELSE \E books \in AllBooks :
              quant' = [quant EXCEPT !.at = IF quant.method = "additive"
                                            THEN "additive" ELSE "residual",
                                     !.books = books, !.left = quant.data, !.book = 1]

Trained(q) == [q EXCEPT !.at = "idle", !.trained = TRUE]

(* An iteration of train_additive: assign all vectors, then update one     *)
(* codebook after the other.  Training stops when the assignment had no    *)
(* error left (below the threshold) or the iterations are used up.         *)
AssignCodes ==
    /\ quant.at = "additive"
    /\ quant' = [quant EXCEPT !.at = "update", !.book = 1,
                  !.assigned = [j \in DOMAIN quant.data |->
                                   beam_search_assignment(quant.books, quant.data[j])]]

AssignedError(q) ==
    Sum([j \in DOMAIN q.assigned |-> ErrorOf(q.books, q.assigned[j], q.data[j])])

update_codebooks_additive ==
    /\ quant.at = "update" /\ quant.book <= QBooks
    /\ quant' = [quant EXCEPT !.book = @ + 1, 
                  !.exact = @ \/ (quant.book = 1 /\ AssignedError(quant) = Whole(0)),
                  !.books[quant.book] = UpdatedBook(quant.books, quant.assigned, quant.book)]

EndIteration ==
    /\ quant.at = "update" /\ quant.book > QBooks
    /\ LET next == [quant EXCEPT !.at = "additive", !.round = @ + 1]
       IN  quant' = IF quant.exact \/ next.round = QRounds THEN Trained(next) ELSE next

(* With SIMDX, the default, the nearest code is by the cosine distance     *)
(* although the error is Euclidean: with one component that tells only     *)
(* opposite signs apart.                                                   *)
CosineGap(x, c) == IF x[1] * c[1] >= 0 THEN Whole(0) ELSE Whole(2)

find_nearest_code(book, x) ==
    LET gap(c) == IF quant.simdx THEN CosineGap(x, c) ELSE SquaredGap(x, c)
    IN  CHOOSE i \in DOMAIN book :
            \A j \in DOMAIN book : /\ ~Less(gap(book[j]), gap(book[i]))
                                   /\ j < i => Less(gap(book[i]), gap(book[j]))

quantize_residual(books, x) ==
    LET left[b \in 0 .. QBooks] ==
            IF b = 0 THEN x
            ELSE Minus(left[b - 1], books[b][find_nearest_code(books[b], left[b - 1])])
    IN  [b \in 1 .. QBooks |-> find_nearest_code(books[b], left[b - 1])]

CodebookRound(book, xs) ==
    [i \in DOMAIN book |->
        LET c == SelectSeq(xs, LAMBDA x : find_nearest_code(book, x) = i)
        IN  IF c = << >> THEN book[i] ELSE Mean(c)]

(* A round of train_codebook_kmeans: the rounds end early only when every  *)
(* vector is nearest to the first codeword, since the assignments start    *)
(* from zero in each round.                                                *)
train_codebook_kmeans ==
    /\ quant.at = "residual" /\ quant.round < QRounds
    /\ quant' = IF \A j \in DOMAIN quant.left :
                       find_nearest_code(quant.books[quant.book], quant.left[j]) = 1
                THEN [quant EXCEPT !.round = QRounds]
                ELSE [quant EXCEPT !.round = @ + 1,
                                   !.books[quant.book] = CodebookRound(@, quant.left)]

(* The stacked method then asks quantize for the error, which the          *)
(* quantizer refuses while it is not trained: training fails.              *)
train_stacked(q) == [q EXCEPT !.at = "idle", !.error = "not trained"]

(* The end of a codebook of train_residual: what it leaves goes on to the  *)
(* next.                                                                  *)
train_residual ==
    /\ quant.at = "residual" /\ quant.round = QRounds
    /\ LET b    == quant.book
           next == [quant EXCEPT !.book = b + 1, !.round = 0,
                       !.left = [j \in DOMAIN @ |-> Minus(@[j],
                           quant.books[b][find_nearest_code(quant.books[b], @[j])])]]
       IN  quant' = IF b < QBooks THEN next
                    ELSE IF quant.method = "stacked"
                    THEN train_stacked(next)
                    ELSE Trained(next)

(* What quantize answers: codes *)
advanced_quantize(x) ==
    IF quant.method = "additive" THEN beam_search_assignment(quant.books, x)
    ELSE quantize_residual(quant.books, x)

-----------------------------------------------------------------------------
(* Scalar and binary codes: pure functions of a vector *)

Clamp(n, hi) == IF n < 0 THEN 0 ELSE IF n > hi THEN hi ELSE n

(* The code of a component between the trained bounds, rounded down. *)
Level(v, min, max, top) ==
    IF max > min THEN Clamp(((v - min) * top) \div (max - min), top) ELSE 0

(* Two codes of four bits in a byte, the first one above. *)
sq_encode(codes) ==
    [i \in 1 .. (Len(codes) + 1) \div 2 |->
        codes[2 * i - 1] * 16 + IF 2 * i <= Len(codes) THEN codes[2 * i] ELSE 0]

(* A byte is the set of its bits. *)
bq_encode(v) ==
    [i \in 1 .. (Len(v) + 7) \div 8 |->
        {j \in 0 .. 7 : 8 * (i - 1) + j + 1 <= Len(v) /\ v[8 * (i - 1) + j + 1] > 0}]

hamming_distance(a, b) ==
    LET ones(i) == Cardinality((a[i] \ b[i]) \cup (b[i] \ a[i]))
    IN  FoldSeq(LAMBDA i, n : n + ones(i), 0, [i \in DOMAIN a |-> i])

(* A call of encode of either, on a vector of signs and levels. *)
EncodeCompact(v, w) ==
    /\ quant.kind = "compact" /\ quant.at = "idle"
    /\ quant' = [kind |-> "compact", at |-> "encoded", v |-> v, w |-> w,
                 bits |-> <<bq_encode(v), bq_encode(w)>>,
                 bytes |-> sq_encode([i \in DOMAIN v |-> Level(v[i], 0 - 2, 2, 15)])]

-----------------------------------------------------------------------------
QuantizerInit ==
    quant \in {Untrained("index", << >>, 0), Untrained("product", << >>, 0),
               [kind |-> "compact", at |-> "idle"]}
        \cup {[kind |-> "advanced", at |-> "idle", method |-> m, data |-> << >>,
               left |-> << >>, assigned |-> << >>, books |-> << >>, book |-> 0,
               round |-> 0, exact |-> FALSE, trained |-> FALSE,
               error |-> "none", simdx |-> simdx] :
                   m \in {"additive", "residual", "stacked"}, simdx \in BOOLEAN}

CompactVectors == [1 .. 9 -> {0 - 2, 1}]

QuantizerNext ==
    \/ \E vectors \in QTrainings : product_train(vectors)
    \/ TrainRound
    \/ NextSubspace
    \/ \E xs \in QScalars, fits \in BOOLEAN : add_training_data(xs, fits)
    \/ advanced_train
    \/ AssignCodes
    \/ update_codebooks_additive
    \/ EndIteration
    \/ train_codebook_kmeans
    \/ train_residual
    \/ \E v \in CompactVectors :
         EncodeCompact(v, [i \in 1 .. 9 |-> IF i \in {1, 9} THEN 3 ELSE 0 - 3])

-----------------------------------------------------------------------------
(* Properties *)

ProductReady == quant.kind \in {"index", "product"} /\ quant.at = "idle" /\ quant.runs > 0

(* The state has its type: codebooks are complete when training ends.      *)
QuantizersTypeOK ==
    /\ quant.kind \in {"index", "product", "advanced", "compact"}
    /\ quant.at \in {"idle", "rounds", "additive", "update", "residual", "encoded"}
    /\ ProductReady => \A m \in 1 .. QM : m \in DOMAIN quant.books /\ Len(quant.books[m]) = QK

(* Choosing the nearest centroid in each subspace on its own gives the     *)
(* codes whose decoded vector is nearest among all combinations of codes,  *)
(* and the distance read from the tables of a query is the distance of the *)
(* query to the decoded vector.                                            *)
CodesNearest ==
    ProductReady =>
        \A v \in QProbes :
            LET far(q, d) == Sum([m \in 1 .. QM |-> SquaredGap(Whole(q[m]), d[m])])
                best == far(v, pq_decode(pq_encode(v)))
            IN  /\ \A codes \in [1 .. QM -> 1 .. QK] : ~Less(far(v, pq_decode(codes)), best)
                /\ \A q \in QProbes : asymmetric_distance(q, pq_encode(v))
                                          = far(q, pq_decode(pq_encode(v)))

(* No round of k-means raises the distortion, for clusters that run empty  *)
(* too, whether they keep their centroid or get a random one.              *)
DistortionFalls ==
    [][quant.at = "rounds" /\ quant'.at = "rounds" /\ quant'.m = quant.m
        => LET xs == Column(quant.vectors, quant.m)
           IN  ~Less(Distortion(quant.centroids, xs), Distortion(quant'.centroids, xs))]_quant

(* The beam cuts no combination of the first codebooks: only the last step *)
(* may have more candidates than it is wide.                               *)
BeamHoldsPrefixes == QK ^ (QBooks - 1) <= QBeam

(* As long as the beam holds them, the codes of the additive quantizer are *)
(* the best of all combinations, not only the best that the first          *)
(* codebooks alone suggest.                                                *)
BeamOptimal ==
    /\ BeamHoldsPrefixes
    /\ quant.kind = "advanced" /\ quant.trained /\ quant.method = "additive"
    =>
        \A w \in QWords : \A codes \in [1 .. QBooks -> 1 .. QK] :
            ~Less(ErrorOf(quant.books, codes, Whole(w)),
                  ErrorOf(quant.books, advanced_quantize(Whole(w)), Whole(w)))

SquaredError(q) ==
    Sum([j \in DOMAIN q.assigned |-> Square(ErrorOf(q.books, q.assigned[j], q.data[j]))])

(* Updating the codebooks one after the other, each against the ones       *)
(* already updated, and assigning the vectors anew never raises the sum of *)
(* the squared errors of the training vectors. (The error that the code    *)
(* compares with its threshold, the sum of the distances, may rise: the    *)
(* mean of 0, 0 and 3 is farther from them than 0.)                        *)
AdditiveDescends ==
    [][BeamHoldsPrefixes /\ quant.kind = "advanced" /\ quant.assigned # << >>
        => ~Less(SquaredError(quant), SquaredError(quant'))]_quant

(* The packed levels and the bits lose no component: a byte splits into    *)
(* the two levels, and the Hamming distance counts the signs that differ,  *)
(* past the first byte too.                                                *)
CompactFaithful ==
    quant.at = "encoded" =>
        /\ \A i \in DOMAIN quant.v :
             LET byte == quant.bytes[(i + 1) \div 2]
             IN  Level(quant.v[i], 0 - 2, 2, 15)
                     = IF i % 2 = 1 THEN byte \div 16 ELSE byte % 16
        /\ hamming_distance(quant.bits[1], quant.bits[2])
               = Cardinality({i \in DOMAIN quant.v : (quant.v[i] > 0) # (quant.w[i] > 0)})

=============================================================================
