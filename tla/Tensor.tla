------------------------------- MODULE Tensor -------------------------------
(***************************************************************************)
(* include/tensor.h: shapes, tensors that share their storage when they    *)
(* are copied, what their operations leave in it, and the tensors the two  *)
(* engines make of a net's outputs (engine/).                              *)
(*                                                                         *)
(* A Shape is the sequence of its available dimensions.  A storage is the  *)
(* sequence of its elements together with where they came from; a null     *)
(* data_ is a storage without elements.  The pixel of channel c, row y and *)
(* column x of the k-th image loaded is <<k, c, y, x>>.                    *)
(*                                                                         *)
(* An int that overflows wraps around (Signed).  What the code leaves      *)
(* undefined, a write outside a storage or a read outside an image, is a   *)
(* fault, like an assertion that fails (the build does not define NDEBUG): *)
(* nothing is said of the process after it.                                *)
(***************************************************************************)
EXTENDS Integers, SequencesExt

CONSTANTS
    Tensors,            \* the tensor objects
    Dims,               \* bound: values of a dimension of a shape
    MaxRank,            \* bound: dimensions of a shape asked for
    Images,             \* bound: the images loaded
    Lists,              \* bound: the lists of them loaded as a batch
    MaxBatch,           \* bound: images in a batch
    NetDims, NetRank,   \* bound: dimensions of a net's output
    TSize,              \* sizeof(T), T the type of the elements
    IntHalf             \* an int is at least -IntHalf and below IntHalf

UintSize == 2 * IntHalf

ASSUME ConstantsAssumption ==
    /\ IsFiniteSet(Tensors)
    /\ IntHalf \in Nat \ {0}
    /\ Dims \subseteq (-IntHalf)..(IntHalf - 1)
    /\ NetDims \subseteq Nat \ {0}
    /\ MaxRank \in 1..4
    /\ Lists \subseteq Seq(Images)
    /\ MaxBatch \in 0..(IntHalf - 1)
    /\ NetRank \in Nat
    /\ TSize \in Nat \ {0}

(* What the tensor reads of a cv::Mat: its size; the elements from one row *)
(* to the next, more than a row has when it is a part of another Mat; the  *)
(* bytes of an element; and the bytes from data to the end of the memory   *)
(* it is in, none for NULL.                                                *)
Span(m) == (m.rows - 1) * m.step + m.cols * m.channels

ASSUME ImagesAssumption ==
    \A m \in Images :
        /\ m \in [rows : 0..(IntHalf - 1), cols : 0..(IntHalf - 1),
                 channels : 1..(IntHalf - 1), step : Nat \ {0},
                 depth : Nat \ {0}, room : Nat]
        /\ m.step >= m.cols * m.channels
        /\ m.rows # 0 /\ m.cols # 0 => m.room >= Span(m) * m.depth

Shapes(dims, rank) == UNION {[1..n -> dims] : n \in 1..rank}

VARIABLES
    shape,              \* shape_ of each tensor
    ref,                \* data_: the storage of each tensor
    storage,            \* the storages
    fault               \* what ended the process, or went beyond memory

vars == <<shape, ref, storage, fault>>

NoFault == [kind |-> "none", source |-> [op |-> "new"]]

-----------------------------------------------------------------------------
(* Shapes and storages.                                                    *)

(* The product of the dimensions before the first that is not positive:    *)
(* from[i] is what the loop of size() multiplies from dimension i on.      *)
Product(s) ==
    LET from[i \in 1..(Len(s) + 1)] ==
            IF i > Len(s) \/ s[i] <= 0 THEN 1 ELSE s[i] * from[i + 1]
    IN from[1]

(* Shape::size(), in unsigned arithmetic.                                  *)
Size(s) == IF s[1] <= 0 THEN 0 ELSE Product(s) % UintSize

(* The value of an int that has overflowed.                                *)
Signed(x) == ((x + IntHalf) % UintSize) - IntHalf

Zero == <<>>

Filled(n, item) == [i \in 1..n |-> item]

Blank(n) == [data |-> Filled(n, Zero), source |-> [op |-> "new"]]

NewShape == [t \in Tensors |-> <<0, 0, 0, 0>>]

NewRef == [t \in Tensors |-> t]

NewStorage == [t \in Tensors |-> Blank(0)]

Init ==
    shape = NewShape /\ ref = NewRef /\ storage = NewStorage /\ fault = NoFault

Used(b) == \E t \in Tensors : ref[t] = b

(* data_.reset(): tensor t lets its storage go, which lives on while       *)
(* another tensor has it, and gets a new one.                              *)
Reset(t, new) ==
    LET others == {ref[u] : u \in Tensors \ {t}}
        b == CHOOSE c \in Tensors : c \notin others
    IN /\ ref' = [ref EXCEPT ![t] = b]
       /\ storage' = [c \in Tensors |->
             IF c = b THEN new
             ELSE IF c \in others THEN storage[c] ELSE Blank(0)]

SetShape(t, s) == shape' = [shape EXCEPT ![t] = s]

-----------------------------------------------------------------------------
(* The operations of a tensor.                                             *)

(* Tensor(shape).                                                          *)
Construct(t) ==
    /\ \E s \in Shapes(Dims, MaxRank) :
          SetShape(t, s) /\ Reset(t, Blank(Size(s)))
    /\ UNCHANGED fault

(* A variant that does not let go of the storage it had.                   *)
CopyKeeping(t, u) ==
    /\ t # u
    /\ SetShape(t, shape[u])
    /\ ref' = [ref EXCEPT ![t] = ref[u]]
    /\ UNCHANGED <<storage, fault>>

(* The copy of a tensor shares its storage.                                *)
Copy(t, u) ==
    /\ t # u
    /\ SetShape(t, shape[u])
    /\ ref' = [ref EXCEPT ![t] = ref[u]]
    /\ storage' = [c \in Tensors |->
          IF \E v \in Tensors : ref'[v] = c THEN storage[c] ELSE Blank(0)]
    /\ UNCHANGED fault

(* A variant that keeps a storage as long as it is large enough.           *)
ReshapeInPlace(t) ==
    /\ \E s \in Shapes(Dims, MaxRank) :
          /\ SetShape(t, s)
          /\ IF Size(s) <= Size(shape[t]) THEN UNCHANGED <<ref, storage>>
             ELSE Reset(t, Blank(Size(s)))
    /\ UNCHANGED fault

(* reshape(): a new storage, unless the sizes are the same.                *)
Reshape(t) ==
    /\ \E s \in Shapes(Dims, MaxRank) :
          /\ SetShape(t, s)
          /\ IF Size(s) = Size(shape[t]) THEN UNCHANGED <<ref, storage>>
             ELSE Reset(t, Blank(Size(s)))
    /\ UNCHANGED fault

(* from_vector(): the vector's elements, under the shape there was.        *)
FromVector(t) ==
    /\ \E n \in 0..MaxRank :
          Reset(t, [data |-> Filled(n, <<0>>), source |-> [op |-> "vector"]])
    /\ UNCHANGED <<shape, fault>>

-----------------------------------------------------------------------------
(* Images, one (op "mat") or a batch of them (op "mats").                  *)

Items(m) == m.channels * m.rows * m.cols

Nitems(m) == Signed(Items(m))

(* The j-th element of an image in planes, as cv::split() lays it out, and *)
(* as it is in memory, rows of step elements: part of a pixel, or of what  *)
(* is beside the image.                                                    *)
Margin == <<-1>>

InPlanes(m, k, j) ==
    LET plane == m.rows * m.cols
    IN <<k, j \div plane, (j % plane) \div m.cols, j % m.cols>>

InMemory(m, k, j) ==
    LET y == j \div m.step
        pos == j % m.step
    IN IF y < m.rows /\ pos < m.cols * m.channels
       THEN <<k, pos % m.channels, y, pos \div m.channels>>
       ELSE Margin

(* Bytes of an element that is not a T are no pixel's value.               *)
Misfit == <<-2>>

Element(m, k, j, swap) ==
    IF m.depth # TSize THEN Misfit
    ELSE IF swap THEN InPlanes(m, k, j) ELSE InMemory(m, k, j)

ShapeOf(m, n, swap) ==
    IF swap THEN <<n, m.channels, m.rows, m.cols>>
            ELSE <<n, m.rows, m.cols, m.channels>>

Source(op, ms, n, swap) ==
    [op |-> op, images |-> ms, batch |-> n, swap |-> swap]

(* The shape, and the elements of the storage, by the first image.         *)
LoadedShape(src) == ShapeOf(src.images[1], src.batch, src.swap)

Extent(src) == Size(LoadedShape(src))

(* How far cv::split() writes: planes rows * cols apart, the last of them  *)
(* as long as its elements make it.  It writes nothing of an empty image.  *)
Reach(m) ==
    LET plane == m.rows * m.cols
    IN IF Items(m) = 0 THEN 0
       ELSE Items(m) - plane + (plane * m.depth + TSize - 1) \div TSize

(* How many elements memcpy() is told to copy of each image.               *)
Count(src) == IF src.op = "mat" THEN Extent(src) ELSE Nitems(src.images[1])

Written(src, k) == IF src.swap THEN Reach(src.images[k]) ELSE Count(src)

(* Variants that place the images one plane apart, and one image too far.  *)
OffsetByPlane(src, k) == (k - 1) * src.images[1].rows * src.images[1].cols

OffsetFromOne(src, k) == k * Nitems(src.images[1])

(* The first image's size says where each image goes: an int counts up, or *)
(* a pointer moves on.                                                     *)
Offset(src, k) ==
    LET sum == (k - 1) * Nitems(src.images[1])
    IN IF src.swap THEN Signed(sum) ELSE sum

(* The storage after the images were written to it, in turn.               *)
Loaded(src) ==
    [i \in 1..Extent(src) |->
        LET at(k) == i - 1 - Offset(src, k)
            ks == {k \in 1..Len(src.images) :
                      at(k) \in 0..(Written(src, k) - 1)}
        IN IF ks = {} THEN Zero
           ELSE LET k == Max(ks)
                IN Element(src.images[k], k, at(k), src.swap)]

(* A write outside the storage, by a count below zero too.                 *)
Overruns(src) ==
    \E k \in 1..Len(src.images) :
        LET w == Written(src, k)
        IN w # 0 /\ ~(/\ Offset(src, k) >= 0 /\ w > 0
                     /\ Offset(src, k) + w <= Extent(src))

(* A read beyond the memory of an image: mats[0] of an empty list, or what *)
(* memcpy() is told to copy.                                               *)
Overreads(src) ==
    \/ src.images = <<>>
    \/ /\ ~src.swap
       /\ \E k \in 1..Len(src.images) :
             Count(src) * TSize > src.images[k].room

(* The assertions, at the beginning and at the end.                        *)
Admitted(src) == src.batch > 0 /\ Len(src.images) <= src.batch

Fills(src) ==
    Signed(src.batch * Items(src.images[1])) = Signed(Extent(src))

Faults(src) ==
    IF ~Admitted(src) THEN {"assert"}
    ELSE IF src.images = <<>> THEN {"overread"}
    ELSE {f \in {"overrun", "overread", "assert"} :
             \/ f = "overrun" /\ Overruns(src)
             \/ f = "overread" /\ Overreads(src)
             \/ f = "assert" /\ src.op = "mats" /\ ~Fills(src)}

(* The tensors are gone with the process.                                  *)
Fail(kind, src) ==
    /\ shape' = NewShape /\ ref' = NewRef /\ storage' = NewStorage
    /\ fault' = [kind |-> kind, source |-> src]

Load(t, src) ==
    \/ \E f \in Faults(src) : Fail(f, src)
    \/ /\ Faults(src) = {}
       /\ SetShape(t, LoadedShape(src))
       /\ Reset(t, [data |-> Loaded(src), source |-> src])
       /\ UNCHANGED fault

(* from_cvmat() of one image.                                              *)
FromMat(t) ==
    \E m \in Images, swap \in BOOLEAN : Load(t, Source("mat", <<m>>, 1, swap))

(* from_cvmat() of a batch.                                                *)
FromBatch(t) ==
    \E ms \in Lists, n \in 0..MaxBatch, swap \in BOOLEAN :
        Load(t, Source("mats", ms, n, swap))

-----------------------------------------------------------------------------
(* The tensors of a net's outputs.                                         *)

(* A variant that has no case for an output of four dimensions.            *)
OutputShapeOfThree(dims) ==
    [i \in 1..(IF Len(dims) <= 3 THEN Len(dims) ELSE 3) |-> Signed(dims[i])]

(* MxnetEngin::inference: one to three dimensions, or else four.           *)
OutputShape(dims) ==
    [i \in 1..(IF Len(dims) <= 4 THEN Len(dims) ELSE 4) |-> Signed(dims[i])]

(* MXPredGetOutput: the output, or nothing when asked for another size.    *)
GetOutput(size, dims) ==
    [data |-> Filled(size, IF size = Product(dims) THEN <<1>> ELSE Zero),
     source |-> [op |-> "mxnet", dims |-> dims]]

MxnetOutput(t) ==
    /\ \E dims \in Shapes(NetDims, NetRank) :
          /\ SetShape(t, OutputShape(dims))
          /\ Reset(t, GetOutput(Size(OutputShape(dims)), dims))
    /\ UNCHANGED fault

(* MnnEngin::forward: one row of all elements, as many as an int counts,   *)
(* that memcpy() fills.                                                    *)
MnnOutput(t) ==
    \E dims \in Shapes(NetDims, NetRank) :
        LET size == Signed(Product(dims))
            src == [op |-> "mnn", dims |-> dims]
        IN IF size < 0 THEN Fail("overrun", src)
           ELSE /\ SetShape(t, <<1, size>>)
                /\ Reset(t, [data |-> [i \in 1..Size(<<1, size>>) |->
                                         IF i <= size THEN <<1>> ELSE Zero],
                             source |-> src])
                /\ UNCHANGED fault

Operation(t) ==
    \/ Construct(t) \/ Reshape(t) \/ FromVector(t) \/ FromMat(t)
    \/ FromBatch(t) \/ MxnetOutput(t) \/ MnnOutput(t)
    \/ \E u \in Tensors : Copy(t, u)

Next == fault = NoFault /\ \E t \in Tensors : Operation(t)

Spec == Init /\ [][Next]_vars

(* Tensors differ in nothing but their names.                              *)
Symmetry == Permutations(Tensors)
-----------------------------------------------------------------------------
(* Properties.                                                             *)

Of(t) == storage[ref[t]]

(* Where the elements of a storage came from.                              *)
Sources ==
    [op : {"new", "vector"}]
        \union [op : {"mat"}, images : Seq(Images), batch : {1},
                swap : BOOLEAN]
        \union [op : {"mats"}, images : Seq(Images), batch : 0..MaxBatch,
                swap : BOOLEAN]
        \union [op : {"mxnet", "mnn"}, dims : Shapes(NetDims, NetRank)]

OfImages(src) == src.op \in {"mat", "mats"}

(* Every tensor has a shape of one to four dimensions and a storage, and   *)
(* storages nobody has are gone (tensor.h:110-240).                        *)
TypeOK ==
    /\ shape \in [Tensors -> Seq(Int)]
    /\ \A t \in Tensors : Len(shape[t]) \in 1..4
    /\ ref \in [Tensors -> Tensors]
    /\ storage \in [Tensors -> [data : Seq(Seq(Int)), source : Sources]]
    /\ \A b \in Tensors : ~Used(b) => storage[b] = Blank(0)
    /\ fault \in [kind : {"none", "overrun", "overread", "assert"},
                 source : Sources]

(* A tensor has as many elements as its size() says, through any sequence  *)
(* of copies and reshapes, unless its storage is from_vector()'s           *)
(* (tensor.h:116-139 against 197-200).                                     *)
SizeIsStorage ==
    \A t \in Tensors :
        Of(t).source.op # "vector" => Len(Of(t).data) = Size(shape[t])

(* The place of the element <<a, b, c, d>> of a shape of four dimensions.  *)
Place(s, a, b, c, d) == ((a * s[2] + b) * s[3] + c) * s[4] + d + 1

(* Images whose rows follow one another, as Mat::isContinuous() has it.    *)
Continuous(m) == m.rows <= 1 \/ m.step = m.cols * m.channels

(* After a load of images of one size with elements of type T, each        *)
(* element is where the tensor's shape puts it: in planes for every image, *)
(* pixel by pixel for those that are continuous, whose rows memcpy() takes *)
(* as one.  Nothing was written elsewhere, and missing images are zero in  *)
(* a batch that an unsigned int can count (swap_channels and memcpy,       *)
(* tensor.h:147-235).                                                      *)
ImagesInPlace ==
    \A b \in Tensors :
        LET src == storage[b].source
            m == src.images[1]
            s == LoadedShape(src)
        IN /\ OfImages(src)
           /\ \A k \in 1..Len(src.images) : src.images[k] = m
           /\ m.depth = TSize /\ Items(m) < UintSize
           /\ src.swap \/ Continuous(m)
           => \A k \in 1..src.batch, c \in 0..(m.channels - 1),
                 y \in 0..(m.rows - 1), x \in 0..(m.cols - 1) :
                \/ k > Len(src.images) /\ src.batch * Items(m) >= UintSize
                \/ storage[b].data[IF src.swap THEN Place(s, k - 1, c, y, x)
                                   ELSE Place(s, k - 1, y, x, c)]
                       = IF k <= Len(src.images) THEN <<k, c, y, x>> ELSE Zero

(* The first image's elements are more than an int can count in the batch, *)
(* or than an unsigned int can in a single image.                          *)
TooLarge(src) ==
    src.batch * Items(src.images[1]) >=
        IF src.op = "mat" THEN UintSize ELSE IntHalf

(* What a fault takes.  A write goes beyond the storage only if the images *)
(* are too many for an int, or cv::split() is given an image larger than   *)
(* the first or with elements wider than T.  A read goes beyond an image   *)
(* only if there is none, or memcpy() is given one smaller than the first, *)
(* with narrower elements, or a single empty one.  An assertion fails only *)
(* for a list longer than the batch, an empty batch, or an empty first     *)
(* image, whose size() stops at the first zero.  And an output's size is   *)
(* wrong only if an int cannot count it (tensor.h:147-235, 75-88,          *)
(* MnnEngine.cpp:36-62).                                                   *)
FaultNeedsOddBatch ==
    LET src == fault.source
        first == Items(src.images[1])
        each == ToSet(src.images)
    IN fault.kind # "none" =>
         \/ src.op = "mnn" /\ Product(src.dims) >= IntHalf
         \/ /\ OfImages(src) /\ fault.kind = "overrun"
            /\ \/ TooLarge(src)
               \/ /\ src.swap
                  /\ \E m \in each : Items(m) > first \/ m.depth > TSize
         \/ /\ OfImages(src) /\ fault.kind = "overread"
            /\ \/ src.images = <<>>
               \/ /\ ~src.swap
                  /\ \E m \in each :
                        \/ Items(m) < first \/ m.depth < TSize
                        \/ src.op = "mat" /\ first = 0
         \/ /\ src.op = "mats" /\ fault.kind = "assert"
            /\ ~Admitted(src) \/ first = 0

(* An output of up to four dimensions arrives whole (MxnetEngin.cpp:84-103,*)
(* MnnEngine.cpp:55-66), if its dimensions fit an int and its size an      *)
(* unsigned int, or an int where that is what counts.                      *)
OutputsArrive ==
    \A b \in Tensors :
        LET src == storage[b].source
            whole == storage[b].data = Filled(Product(src.dims), <<1>>)
        IN /\ src.op = "mxnet" =>
                (/\ Len(src.dims) <= 4 /\ Product(src.dims) < UintSize
                 /\ \A i \in 1..Len(src.dims) : src.dims[i] < IntHalf
                 => whole)
           /\ src.op = "mnn" => (Product(src.dims) < IntHalf => whole)

(* What makes these inductive: a storage that images were loaded into is   *)
(* what a load without a fault left.                                       *)
AsLoaded ==
    \A b \in Tensors :
        LET src == storage[b].source
        IN OfImages(src) =>
             Faults(src) = {} /\ storage[b].data = Loaded(src)

IInv ==
    /\ TypeOK /\ SizeIsStorage /\ AsLoaded
    /\ FaultNeedsOddBatch /\ OutputsArrive
=============================================================================
