# A verification project for the SIA ray tracer

The program (`src/src`) renders a scene described in XML, interactively in a
window or in a batch, and writes the image to a file. This directory holds TLA+
models of the parts of it whose correctness is a matter of order, interleaving
and bookkeeping, TLC configurations that check them on small instances, and
theorems about them that TLAPS proves for every instance. Paths below are
relative to `src/src`.

## 1. Inventory

| component | state | operations | talks to | what is hard | what makes it correct |
|---|---|---|---|---|---|
| **block generator** `core/block.{h,cpp}` `BlockGenerator` | position and direction on a spiral, length of the leg, blocks left, a mutex | constructor, `next`, `getBlockCount` | called by every worker of a render | concurrent calls; a walk that leaves the image and must come back; blocks cut at the border | every block once, centre first, every pixel in one block, every call returns |
| **render pipeline** `core/viewer.cpp` `Viewer::render`, `renderBlock`; `core/block.cpp` `ImageBlock` | local block and sampler of each task, result image and its mutex, done flag | clear, parallel loop: next, prepare, render, put; upload by the window | generator, sampler, TBB, window | splitting of the range, reuse of local state, exceptions in tasks, the ignored result of `next` | image complete and reproducible when the flag is set, no torn frame, an end is reached |
| **viewer** `core/viewer.{h,cpp}`, `main.cpp` | scene, result image, done flag, buttons, file name | load scene, load image, R, save, draw, escape, close | detached render threads; the window library; parser and bitmap files | a second thread that shares raw pointers with handlers that free them; handlers that throw half-way | no use of freed objects by the window, one render at a time, an honest flag, the picture gets shown |
| **main program** `main.cpp` | arguments | parse, batch render, interactive session | viewer, render, parser | combinations of arguments | each combination starts one thing or reports an error |
| **bounding volume hierarchy** `accelerators/bvh.{h,cpp}`, `bbox.h` | nodes, permuted faces and centroids | `build`, `buildNode`, `split`, `intersect`, `intersectNode` | mesh | in-place partition with crossing scans, an inseparable range, pruning with reordered children | every face in one leaf, boxes enclose, the search equals brute force |
| mesh and shapes `shapes/`, `core/shape.h` | vertices, faces, transformation | load, `activate`, `intersect`, `sample` | BVH, BSDF, light | shared counter of intersections | nearest hit |
| **image block filtering** `core/block.cpp`, `rfilter.*` | filter table, weights, border | constructor, `put(sample)`, `put(block)`, `toBitmap`, `fromBitmap` | render | rounding at the border, array bounds, cut blocks, samples that are not numbers | a sample reaches all and only pixels within its radius, as if there were no blocks |
| **samplers** `samplers/` | generator, sample vectors, indices | `clone`, `prepare`, `generate`, `next1D/2D`, `advance` | render, integrators | protocol of calls, index bounds, requests beyond the tables | each stratum once per pixel, no entry twice, reproducible |
| **discrete distribution** `core/dpdf.h` | cumulative sums | `append`, `normalize`, `sample`, `sampleReuse` | mesh | empty distribution, zero entries, boundaries, rounded sums | an entry is found in proportion, one of probability zero only if it is the last, by the number 1 |
| **scene description** `core/parser.cpp`, `proplist.*`, `object.*`, `scene.*` | property lists, objects, lists of a scene | parse, `addChild`, `setParent`, `activate`, create | everything | one transform for all elements, children before parents, order of activation, exceptions at any depth | each element contributes once and with its own transform; a scene is complete or refused |
| **integrators** `integrators/` | none | `Li` | scene, BSDF, lights, sampler | recursion depth, number of random numbers requested | recursion ends at its limit |
| materials, lights, textures, camera, warping | constants | formulas | integrators | floating point | |
| bitmap files `core/bitmap.cpp` | pixels | load, save | viewer | formats | |
| **statistical tests** `tests/` | lists of BSDFs, scenes, references | `addChild`, `activate` | parser | pairing of references | each test against its own reference |
| warp visualiser `warptest.cpp`, `core/trackball.h` | widget state | mouse and key handlers | window library | | |
| vendored `ext/` | | | | | |

## 2. Modules

    WorkPool         RenderJob                       abstract specifications
       ^                ^   ^ (steps of a render)
       | refines        |    \
    BlockGenerator <- Render  Viewer        Bvh      models
    ...Props          ...Props ...Props     ...Props properties, invariants
    ...Proofs         ...Proofs ...Proofs   ...Proofs theorems
    MCBlockGenerator  MCRender MCViewer     MCBvh    instances for TLC

    Parser           PixelLoop      Dpdf             models
    ...Props         ...Props       ...Props  TTest  properties
    ...Proofs        ...Proofs      ...Proofs        theorems
    ...VerdictProofs
    MCParser         MCPixelLoop    MCDpdf           instances for TLC

The three rows of the second group stand beside the first: Parser builds the
scene that Viewer renders, PixelLoop is the inside of Render's step
`RenderBlock` together with the arithmetic of `put`, and Dpdf is what a mesh of
that scene samples its faces with.

Operators introduced as a *faulty variant* are never part of a specification:
each is what a plausible slip would make of the operator that follows it, and
is there so that one can see that a property would notice.

**BlockGenerator.** The variables are the members of the class, with `block` for
`m_block` and so on; `handed`, `got` and `more` record what the callers saw. A
call of `next()` is `TakeBlock` (its head, up to the return after the last
block), then one `Advance` for each iteration of the `do`-`while` loop, with the
mutex held throughout; or `Drained`. A block is named by its position on the
grid; `Offset` and `Extent` are the pixels the code stores for it.
`WorkPool` is what a scheduler promises: each job to one caller, once, and
"nothing left" only when that is so. The generator implements it.

**Render** extends BlockGenerator: the threads of the generator are the TBB
workers. `ClearResult`, `ParallelFor`, `Finish` are the render thread;
`StartTask` hands any contiguous piece of the range to an idle worker, as TBB
may; `CallNext`, `InNext`, `Prepare`, `RenderBlock`, `PutLock`, `PutAdd`,
`EndTask` follow the lines of the lambda; `RenderThrows` and `Terminate` are an
exception in a task, which cancels the loop and ends the process; `DrawLock` and
`DrawUpload` are the window. The radiance of a block is abstracted to the pair
*block, block that seeded the sampler*: that is all the properties need, as
everything else in a block is a function of these. `RenderJob` is what the
caller of `render` sees: cleared, filled, flag set; or crashed. Render
implements it, and Viewer takes its steps for each of its render threads.

**Viewer.** One action per handler and outcome. `LoadScene`, `LoadSceneThrows`,
`LoadImage`, `LoadImageThrows` take an origin: a file opened from `main`, by the
key L, or by a drop, because that decides where an exception of the parser or
of the bitmap reader goes (`main`'s handler; the window library, which prints
it; the main loop, which returns). `PressR` detaches a render thread, whose
steps are `RenderClear`, `RenderFill`, `RenderFinish` or `RenderThrows`. `Save`
stands for both buttons. Scenes and images are allocated from finite sets and
never reused, so a pointer to a freed object is recognisable; touching one
sets `fault`, after which the run says nothing more. The viewer of the program
*can* reach a fault: the code guards the key R with the flag but not the loading
of a scene or the closing of the window. The properties state exactly how far
its promises go: `disturbed` records that a scene was loaded or the viewer
deleted while a render was active, and nothing else leads to an access to freed
memory. A render so caught does read freed memory, in the code as in the model;
the properties do not call that right, they say that there is no other way.

**Bvh.** `mesh` is chosen among a family of small meshes. `calls` is the stack of
`buildNode`, `Scan` one iteration of the outer loop of `split`, `Middles` its
return value, with the read past the end of the array as a free choice;
`KeepWhole` and `Divide` are the rest of `buildNode`. `todo` is the stack of
`intersectNode`, whose test of a child is made when the child's turn comes, as
in the code, with the hit found by then. Points have two coordinates instead of
three and arithmetic is exact; the ray is parallel to an axis at a height no
vertex has, which keeps the division by zero of `rayIntersect` and avoids 0/0.
Where the ray meets a face is any point of the face's box, or none. Only the
middle split is modelled: `build` selects it, the other two branches are dead.
What `intersect` returns is left out: for an inner node it is always false, and
the caller, `scene.cpp:71`, discards it and looks at the hit.

**PixelLoop.** One block of a render. `Generate` starts a pixel; `FilmSample`
is the first request of a sample; `TooDeep`, `Miss`, `Shade` and `Bounce` are
one call of `Li` each, by what the ray meets, with the random numbers that call
requests; `Put` and `PutInvalid` are `put(sample)` and `advance()`; `Merge` is
`put(block)`. The loops over rows, pixels and samples are `NextSample`.
`strata` is the first table of the stratified sampler, as a permutation of the
strata of the pixel; `drawn` and `film` record which entries a pixel has used.
As putting samples is addition, all samples of a block are black but one, `lit`,
chosen in `Init` among all of them. Lengths are whole parts of a pixel, a sample
falls on any of them that its stratum contains, and the last may be rounded up
to the edge of the next pixel, as the sum of a large coordinate and a number
just below 1 is. The filter falls linearly; of the formulas of the filters only
the table they are stored in matters here.

**Parser.** A document is a sequence of nodes, each with its parent, tag, type
and possibly a flaw (anything that makes an attribute, a conversion, a
constructor or an activation throw). `stack` is the stack of `parseTag`:
`Open` is the recursive call with the checks at its head, `CloseProperty`,
`CloseTransform`, `CloseOp` and `Create` what follows the loop over the child
nodes, `GiveChild` one turn of the loop over the child objects (`addChild`, then
`setParent`), `Activate` the call of `activate` and the return. Each has a twin
that throws; `crash` is a null pointer followed. `transform` is the one variable
that all calls share. An object is named by its node, so the heap keeps what a
failed parse leaves behind. Of the properties only `toWorld` is kept, as the
operations multiplied. `Activate` of a class without an `activate()` of its own
does nothing, as in `object.cpp:28` (see section 5).

**Dpdf.** `AppendEntry` and `Normalize` are what `Mesh::activate` does,
`SampleReuse` what `Mesh::sample` asks. Areas and their sums are natural numbers.
From `Normalize` on, sums and random numbers are counted in *granules*, the
distance of two neighbouring floats just below 1. `normalize` multiplies each sum
by a reciprocal that has been rounded and rounds the product again: `Products`
adds to the exact product, rounded down, any of -1, 0, 1 and 2 granules, which is
all that the two roundings can come to, and `Rounded` keeps of these choices the
ones the multiplication can make: it keeps the order, so that equal sums stay
equal; it leaves 0 at 0; and a sum times its own reciprocal is 1 or the float
before 1, as it is for every float whose reciprocal is a normal one. `Closed` is
the assignment of exactly 1 that follows, to the last sum only. So trailing
entries of probability zero may get a width: areas 41 and 0 become the sums
0, 0.99999994 and 1.

**TTest** holds the two loops of `StudentsTTest::activate` over lists of any
length, with the counter that picks the reference.

## 3. Runs

| run | instance | shows |
|---|---|---|
| `block_generator` | 7x5 pixels in blocks of 2 (a 4x3 grid, last row and column cut), 2 threads | type, `DistinctBlocks`, `CentreFirst`, `LegsBounded`, `EveryPixelOnce`, `NextReturns`, refinement of `WorkPool` |
| `block_count` | a 2x2 grid | `getBlockCount()` is not the total its comment promises once a block was handed out |
| `render` | 3x2 blocks, 2 workers, the window | type, `Accounted`, `NextNeverFails`, `ImageComplete`, `SameImageEveryRun`, `NoTornFrame`, `RenderEnds`, refinement of `RenderJob` |
| `viewer` | 2 scenes, 3 images | type, `PointersLive`, `NoDanglingRender`, `OneRender`, `DoneMeansFinished`, `NotLocked`, `PictureShown` |
| `bvh` | all meshes of 4 faces out of 5 triangles, leaves of 1 face, depth 2, two rays | type, `Aligned`, `LeavesTile`, `BoxesEnclose`, `NearestFound`, `SplitSorts`, `ComputationsEnd` |
| `bvh_leaf` | all meshes of 2 faces, which are one leaf | `NearestFound` on the path of `build` that makes no split |
| `bvh_assert` | 3 faces of a cone, in a Debug build | the assertion on the size of a leaf fails at the root |
| `scene_description` | all documents of up to 3 elements, and every scene with integrator, camera and 3 more elements, flawed ones among them | type (no dangling pointer), `TransformOwn`, `SceneComplete`, `Decides` |
| `pixel_loop` | every block of an image of 3x2 pixels in blocks of 2, three radii, five samplers, recursion up to 2 | `WithinLimits`, `BlocksInvisible`, `SamplesFresh`, `BlockEnds` |
| `dpdf` | all distributions of up to 4 entries out of 0, 1, 5, every rounding of their sums, 33 numbers | `EmptyOnlyByOne`, `InProportion` |
| `dpdf_zero` | up to 2 entries out of 0, 1 | the number 0 cannot always be reused |
| `ttest` | lists of up to 2 elements | the second BSDF is tested against references past the end of the list |

*Bounds.* The 4x3 grid is the smallest that is not square, has an even and an
odd side, makes the spiral leave the grid on two sides and come back, and cuts
blocks on both borders; what holds for other sizes is proved. Two workers are
enough for every interleaving of two critical sections; six blocks let one
worker reuse its local block with another at any point of its loop. Three images
are the ones a render needs that is replaced by a load and followed by a second
render. Four faces with leaves of one give trees with both an inner and a leaf
child, splits at each position, ranges that cannot be split, and, with a depth
of two, leaves made by the depth limit; the triangles repeat, so equal centroids
occur. The code's own values (32, 10, 100) only change how often, not which.

Three elements are enough for a parent with two children and for a child of a
child, which is as far as any check of the parser looks (an element, its parent,
the number of its children of a kind, the shape of an area light of a scene);
three more in a scene let two area lights, two shapes with transforms, or a
second camera come in any order. A 3x2 image in blocks of 2 has a full and a cut
block, both at borders of the image and at one another; the radii are that of
the box filter (no border), of the Gaussian (two pixels), and one whose border
is rounded. Two samples a pixel, in either direction, with and without tables
for both numbers a sample may request, give each way `next2D` can answer. Four
entries have zero entries at either end and in the middle. A granule is a 32nd
there, so that a face of area 1 is at its narrowest as wide as one or two of them
and a rounding may take it away; 33 numbers hit every boundary. For Parser, PixelLoop and Dpdf too, what
is checked of their safety here is proved for all sizes in section 4.

*Deadlock* is checked for `block_generator`, `block_count`, `bvh`,
`bvh_leaf`, `bvh_assert`, `dpdf` and `dpdf_zero`. It is not for `render` and
`viewer`, where the process may end, nor for `scene_description`, `pixel_loop`
and `ttest`, which come to an end; `Decides` and `BlockEnds` say that the first
two stop nowhere else.

*Fairness.* Threads that can run do run: weak fairness for each step of a worker
or a render thread, and for the iterations inside `next()`; nobody has to call
`next()`, press a key, throw, or redraw during a render. A worker that waits
for the result's mutex gets it in the end although the window may take it again
and again: strong fairness of `PutLock`, because the window redraws on events
and every 50 ms (`main.cpp:116`, `131`), not in a tight loop. In Viewer the same
timer is the reason for the weak fairness of `Draw`. In Bvh the two
computations run to their end, and nobody has to shoot a ray. Parser and
PixelLoop are one thread each, which runs on: weak fairness of `Next`. A mirror
in front of a mirror may bounce as often as it likes; only the limit of the
recursion ends it.

## 4. Proofs

TLAPS proves, for every value of the constants that satisfies the named
assumptions (sizes are natural numbers, the block size is not zero, the null
values are none of the objects, the window is none of the workers):

* **BlockGeneratorProofs.** `GenInvariant`: `GenInv` is inductive. Its heart is
  the shape of the spiral: `Head` says where the spiral is from the length and
  the direction of the leg, `Swept` which cells of the plane it has passed (a
  full rectangle and a part of one side), and `HandedSwept` that the blocks
  handed out are those cells of the grid. The properties are not inductive
  without it: that the next block is a new one depends on everything the spiral
  has passed. From it follow `GenTypes`, `EveryBlockOnce`, `ThreadSafe`,
  `SpiralBounded`, `SpiralFromCentre`, `BlocksTileImage` (with `OneStrip`: along
  an axis each pixel is in one strip) and `Refinement` of `WorkPool`.
* **RenderProofs.** `RenderInvariant`: `RenderInv` holds, given that every
  step of Render is a step of the generator or leaves it alone. The argument
  counts: the indices no worker has used up are as many as the blocks left
  (`IndicesMatch`), so `next()` never fails; each block handed out is with the
  worker that holds it or in the result (`Accounted`), so at the end, with no
  worker holding one, all are in the result. Then `RenderTypes`,
  `BlocksAccounted`, `IgnoredResultIsTrue`, `DoneMeansComplete`, `Reproducible`, `FramesNotTorn`,
  and `RenderIsJob`, the safety part of the refinement.
* **ViewerProofs.** `ViewerInvariant`: `ViewerInv` is inductive; as long as
  nothing disturbs it, an active render works on live objects
  (`LiveTargets`) and an unfinished image on the screen is being rendered
  (`FinishedOrActive`). Then `ViewerTypes`, `InterfaceSafe`, `RenderSafe`, `FlagExcludes`,
  `FlagVouches`, `KeyNotLocked`.
* **PixelLoopProofs.** `LoopInvariant`: `LoopInv` is inductive. `Placed`
  keeps the block in the image, `Loops` ties the index of the sampler to the
  loop over the samples, `Drawn` says that every entry used so far belongs to an
  earlier sample or an earlier table, and `Strata` that the samples on the film
  follow a permutation. `ComponentsFresh` follows from the last two: an entry
  used twice would be a pair *table, sample* both before and at the present one.
  `StaysWithinLimits` adds the arithmetic of a footprint: between
  ceil(p - radius) and floor(p + radius) there are at most ceil(2 radius) + 1
  whole numbers, each at a distance the filter's table covers, for all positions
  and radii (`Footprint`, from `Rounding`); and the corner of a block with its
  border lies in the image with its border (`CornerInImage`). `NoSeams` needs
  the second invariant `ShownInv`, which is about the pixels: until the sample
  `lit` is put the local block is black, afterwards each of its pixels has what
  the filter gives it. The argument is that the footprint of a sample lies in
  the local block whatever pixel of the block it is in, that a pixel outside the
  footprint is farther away than the radius, so the filter gives it nothing, and
  that an entry of the weights is the one the filter stores for that distance;
  `put(block)` then moves pixels, and outside its corner both sides are zero.
* **DpdfProofs.** `DpdfInvariant`: the sums start at 0 and never fall, and
  after `Normalize` each entry is as wide as its area asks, up to the two
  roundings at its ends (`WidthsKept`). The step is `ClosedProducts`, which takes
  any rounding `Rounded` admits; that a product is at most two granules off is
  `ProductNear`. `EmptyEntryOnlyByOne` follows from what `std::lower_bound`
  returns, characterised in `LowerBoundPlace`: the sum at the place found is the
  first that is not less, so the one before it is less, and the entry between
  them is positive and contains the number (`IndexBrackets`). That there is a
  first one is `LeastExists`, by the well-foundedness of inclusion on finite
  sets. An entry of area zero lies between two equal sums, unless it is the last
  and its own sum was stored as 1: then it is one granule wide at most, and the
  only number in it is 1. `SamplesInProportion` counts: the numbers that find an
  entry are those between its two sums (`FindersBracket`), whose distance is in
  proportion to the area up to four granules.

* **BvhProofs.** `BvhInvariant`: `BvhInv` is inductive. Its centre is a map `F`
  from nodes to the positions below them, of which the invariant says that one
  exists: an inner node has the positions of its two children, the leaves and
  the nodes on the stack tile the array, and the box of a node is the box of the
  faces at its positions (`Family`, `Tiled`). A swap moves faces within the range
  of the running call, which lies within or beside the positions of every node,
  so no box computed before goes wrong. `Cursors` says what the two scans of
  `split` have passed, from which `MiddleDivides` concludes that its result is
  right however they meet; the read past the end of the array does no harm, as
  either outcome is then found fruitless. `Search` says that a face nearer than
  the hit lies below a node still to be visited; the step that needs an argument
  is `PruneKeeps`, where a box that is not entered rules out the faces inside it
  (`BoxMonotone`). Then `PermutationKept`, `DivisionsSort`, `LeavesPartition`,
  `BoxesHold`, `SearchFindsNearest`. `BvhTypes` adds a count: the nodes are one
  less than twice the leaves and pending nodes, and these are at most as many as
  the faces (`Counted`, `FewBottoms`), so there are never more than 2N. What is
  assumed: whole coordinates, two of them, and a mesh that is smaller than the
  range of `nb_faces` (`MeshAssumption`).
* **ParserProofs.** For all documents whose elements are written after the
  beginning of the one they are in (`ParserAssumption`), with any nesting.
  `StackInv` says how the active calls hang together: each parses a child of the
  element of its caller, and the caller will not parse it again. `HeapInv` and
  `ListInv` are about the objects: who can be inactive, that the element a call
  is about to turn into an object has none yet, and that the lists hold active
  children of the right parent. `PointersSound` follows from these three.
  `TransformsOwn` adds `OrderInv`, by which the elements parsed are those written
  before the ones left, and `TransformInv`: the shared variable is the product of
  the operations parsed so far as long as a transform or one of its operations
  is being parsed, and what a call holds is the product of its last transform.
  `Product` is a recursive function on the sets of nodes; its defining equation
  holds because such a function exists for each length of the document
  (`SolvesExists`), which is shown from the least length without one.
  `ScenesComplete` adds `CollectInv` (the list of children of a call is, without
  repetition, the objects among the elements parsed), `FitInv` and `LinkInv`. The
  last two compare an object with the set `Given` of the children it was given so
  far: its members point to one of each class, its lists hold the rest once, and
  a shape points to its light exactly when the light was given that shape. The
  shapes of the lights are added at the end without a duplicate because no shape
  is a child both of a scene and of a light (`LightsLit`).
* **ParserVerdictProofs.** `VerdictRight` is the safety part of `Decides`: if the
  parser ends, it ends as the grammar of `ParserProps` says, which is stated on
  the document alone. `SeenInv` says that all elements parsed are as the grammar
  has them, with all they contain; when the outermost call has nothing left, these
  are all (`AllSeen`: the first that is not would be in one that is). Conversely
  each way of failing is traced to an element that breaks the grammar
  (`OpenRefuses`, `CloseRefuses`, `GiveRefuses`, `ActivateRefuses`): a full member
  means two children of one class, an empty one at the end that there is none. A
  crash is traced to one of the two causes named in `Treacherous`. `OneRoot`
  restricts the theorem to files with one outermost element, as the parser reads
  no other.

So each safety invariant that a passing run checks is proved, and so are the
refinement of `WorkPool` and the safety part of that of `RenderJob`. Only
model-checked is what needs fairness, which is out of the prover's reach: that a
call of `next` returns (`NextReturns`), a render comes to an end (`RenderEnds`,
the liveness part of `RenderJob`), a picture is shown in the end
(`PictureShown`), the computations on a tree and a block finish
(`ComputationsEnd`, `BlockEnds`), and that the parser decides at all (`Decides`;
how it decides is proved). The four properties the code violates are shown by
their counterexamples alone.

## 5. Findings

* `core/block.h:138` says of `getBlockCount()` "Return the total number of
  blocks"; it returns the number of blocks left. The only caller asks before the
  first `next()`, where they agree (`block_count`).
* `accelerators/bvh.cpp:209` asserts that a leaf has fewer faces than the mesh.
  A mesh of more than ten faces whose centroids are all on one side of the
  middle, such as the side of a cone, becomes a leaf as a whole and the
  assertion aborts the program in a Debug build (`bvh_assert`). The default build
  is Release (`src/ext/CMakeLists.txt:16-18`, included from
  `src/CMakeLists.txt:4`), which defines `NDEBUG`: it goes on with the root as a
  leaf, and the tree is right, as `bvh` shows.
* `core/dpdf.h:119` says that `sampleReuse` adjusts a sample on [0,1] so that it
  can be reused. The sample 0 finds entry 0 even if that is zero, and becomes
  0/0 (`dpdf_zero`). For every number above 0 the promise is kept
  (`EmptyEntryOnlyByOne`). The number 1, which `dpdf.h:89` admits too, may find a
  face without area if that is the last; as the samplers of the program return
  numbers below 1 only, no image depends on it.
* `tests/ttest.cpp:57` speaks of one reference value for each angle. The counter
  that picks it is not reset for the next BSDF, which is tested against values
  past the end of the list (`ttest`). With one BSDF the pairing is right.
* `core/object.h:55` says of `activate()` "The default implementation throws an
  exception". The implementation, `core/object.cpp:28`, does nothing. Only scenes,
  shapes, the camera and the two tests override it; integrators, samplers,
  filters, lights, BSDFs and textures rely on the default. If it did what the
  comment says, `parser.cpp:208` would refuse every scene, as a scene must have an
  integrator (`scene.cpp:31`). So the comment is wrong; Parser follows the code
  (`Activate`), and `Decides` holds of the code: the documents it calls well
  formed are full of objects with the inherited `activate()`. There is no run for
  the comment, as any document that is accepted refutes it.

## 6. Not modelled, and the plan

Out of reach: real arithmetic (the formulas of materials, lights, camera,
warping, filters, statistics), files and graphics (bitmaps, the OBJ reader, the
window's layout, the helpers for strings and paths). `ext/` holds by far the
most lines of the repository: complete copies of Eigen, nanogui, TBB, OpenEXR,
pugixml and others, with their examples. They are not the program's own logic;
where it depends on them (`parallel_for`, the callbacks of the window, the order
of the nodes of a document) they are modelled from how the program uses them;
what becomes of an exception in a handler and when the window is drawn again
(`Thrown` and `DrawnMaybe` in Viewer) follow nanogui's `screen.cpp:600-617` and
`824-847` and the `catch` of its main loop (`common.cpp:186-192`).
The models therefore cover a small share of the repository as a whole, and the
greater part of the program's own control.

Abstracted from what is modelled: the name used when saving, tone mapping and
layout in the viewer; the formulas of intersection in Bvh; all properties but
the transform in Parser; data races on plain variables other than by
interleaving of whole accesses. In Dpdf: the rounding of the additions in
`append`, by which a tiny area added to a large sum may vanish and count as zero;
that floats below 1/2 are finer than a granule; and sums so large (above 2^126) or
so small that their reciprocal is not a normal float.

Several classes are exercises with parts missing (`lights/areaLight.cpp:33`,
`bsdfs/microfacet.cpp:37`, `core/warp.cpp:79`). What they compute is not
modelled; that some of them throw is, in Render and Viewer.

Next, in this order:

1. *Steps towards an end*: measures that fall with every step of Parser, Bvh and
   PixelLoop, which is the part of their liveness that can be proved.
2. *Viewer*: the name used when saving; *main program*: the arguments.
3. *Warp visualiser*: mouse and key handlers.
