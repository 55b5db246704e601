# Verification of the COORDS Mapnik plugin

This directory specifies the plugin of this repository in TLA+. TLC checks the
specifications on small instances, and TLAPS proves their safety properties for every
instance. Sources are named relative to the repository, so the code is in
`src/src/`.

## The system

Mapnik asks the plugin for the features in a box at a certain scale. The data are
*tile sets* in a directory, one per zoom level, written by the COORDS tools. A tile
set is a quadtree of files: the root file has the name of the tile set, and the
children of a file are that name followed by a quadrant digit 0..3. A file is a
sequence of records, one per geometry. A geometry may be stored in several tiles,
and an inner tile may be an empty file.

| component | source | state | operations | talks to |
|---|---|---|---|---|
| data source | `coordsDataSource.cc` | path, extent | `features()`, through `getZoomLevel()` and `getClosestTileSet()` | is called by Mapnik; stats tile sets; creates a buffered feature set |
| buffered feature set | `bufferedCoordsFeatureSet.cc` | vector of (z-index, geometry pointer), query box, feature counter | constructor (`readFiles()`, `loadFileContents()`, sort), `next()`, destructor | reads tiles; gives features to Mapnik |
| streaming feature set | `coordsFeatureSet.cc` | stack of paths, open file, three sets of returned entities, query box, counter | constructor (`buildFileHierarchy()`), `getNextGeometry()`, `next()`, destructor | reads tiles; used by `pluginTest` |
| generic geometry | `genericGeometry.cc` | owned byte buffer, its length and capacity | constructors, `init()`, accessors, `getBounds()` | used by both feature sets |
| envelope | `envelope.cc` | four `int32_t` | `add()`, `overlapsWith()`, `isValid()` | used by the parsers |
| variable-length integers | `varInt.cc` | none | write, count, read; signed and unsigned | used by geometry and tags |
| tags | `rawTags.cc` | pointers into a record | parse, serialise, iterate | used by both `next()` |
| symbolic names | `symbolicNames.cc` | constant table | lookup | used by tags |

Every feature set belongs to one rendering thread, so there is no concurrency
inside the plugin. What runs beside it are the tools that maintain the tile files,
which nothing locks: a file may vanish or be emptied between `stat()` and
`fopen()`, between registration and opening, or while it is read, and it may have been
left in the middle of a record. The plugin answers what it cannot read by ending the
process, so it matters which file or record that takes. The other hard
parts are orders (which of two tests comes first, two reversals of a sort order
that have to cancel), boundaries (tile borders, truncation to centimetres, the ends
of tables, vectors and encodings), and ownership of heap objects through raw
pointers. `PROJECT.json` lists the hazards with their lines and the properties that
cover them.

What makes the components correct:

- *Data source*: the zoom level is the finest one whose scale denominator is above
  the query's; the query is answered from the coarsest tile set that is at least as
  fine, if there is any.
- *Feature sets*: every geometry that meets the query box is returned, nothing that
  misses it is, roads come from the lowest z-index to the highest, null comes when
  and only when all was returned. The streaming feature set returns an entity once.
- *Memory*: each loaded geometry is deleted exactly once.
- *Failure*: the process is lost only at a file that changed under the query, cannot be
  opened or ends inside a record, or at a record beyond one of two limits; a missing or
  empty tile, or a change elsewhere, is survived.
- *Records*: a reader gets whole records only, in the order of the file; the block
  of a geometry is long enough, also where it is reused, and has one owner.
- *Shapes*: what is drawn, and the bounding box, are those of the points stored.
- *Tags*: the tags returned are those written, and the iterator ends behind the last.
- *Codec*: what is written is what is read, in the length computed beforehand.

## Modules

| module | models |
|---|---|
| `Envelope` | the integer box: `add`, `overlapsWith`, `isValid`, and what a box means (`Holds`) |
| `TileSet` | the quadtree on disk, the calls of the recursive descent, the query box in centimetres, the type bits of a record and the test a record has to pass; and as reference definitions the region a tile covers by the meaning of its digits (`Region`), and the copies a query has to return (`Matches`) |
| `FeatureQuery` | the abstract promise of a feature set: an answer fixed when the query is opened, returned item by item, none twice, ordered or not, then null at every further call; unless the process is lost |
| `BufferedFeatureSet` | the feature set Mapnik gets. Implements `FeatureQuery`, an item being a copy of a geometry (tile and position) |
| `StreamingFeatureSet` | the feature set of `pluginTest`. Implements `FeatureQuery`, an item being an OSM entity |
| `DataSource` | `features()` |
| `TileRecords` | the records of one file, read by either of the two feature sets while a tile writer may be in the middle of one, and the heap blocks they are read into |
| `GeometryShapes` | the geometry of a record, walked by the parse functions, which draw it, and by `getBounds()` |
| `RawTags` | the tags of a record: measured, written, found again, iterated and written once more, symbolic names included |
| `VarInt` | one number written, counted and read back |
| `...Proofs` | theorems about the module they are named after |
| `MC...` | values of the constants for TLC; `MCTileSets` holds the world both feature sets are checked in |

`BufferedFeatureSet` and `StreamingFeatureSet` extend `TileSet`, which extends
`Envelope`; both instantiate `FeatureQuery` with a refinement mapping.
`GeometryShapes` extends `Envelope` too. The feature sets take a record as one thing
with an id, type bits and a box. What is inside it is the subject of the other three
modules: `TileRecords` shows that what the feature sets hold are whole records,
`GeometryShapes` that the box they are compared by is that of the points, and
`RawTags` that id, tags and geometry are found where they were put.

### How the actions correspond to the code

*Recursion.* `readFiles()` and `buildFileHierarchy()` are recursive, with their four
calls last. `calls` is the list of calls still to be made, innermost first; one
action handles the call at its head and puts its four subcalls there. The steps of
one call are separate actions exactly where the file system is consulted twice:
`EnterTile` is the `stat()`, `LoadFileContents` or `LoadFails` the `fopen()` and the
reading. Between them a tile may change. `changed` holds the tiles that did since
`stat()` last found them; it is a history variable, for `CrashExplained` to refer to.

*`next()`.* One action is one turn of the loop: `DropGeometry` and `ReturnFeature`
share `TakeLast` (buffered) or `TakeNew` (streaming), `ReturnNull` is the end, after
which the renderer may call `next()` again (`InNext`). In the
streaming variant `OpenFile`, `CloseFile` and `SkipReturned` are the turns of the
loops of `getNextGeometry()`, and `markAsReturnedBefore` is part of `TakeNew`, before
the box is tested, as in the code.

*Records.* For the feature sets a record is its type bits, entity id, z-index and box
of points. Whether a box overlaps is asked as the code asks it: a line asks about the
query box, the query box asks about a polygon, a point is always accepted. A record
has besides a set of `Faults`, which is what its readers may trip over: "huge" (its size
reaches the limit of `init()`), "longRing" (a ring reaches that of the parse functions),
and "unfinished" (the file ends inside it; only the last record of a file, see
`WrittenInOrder`). The buffered feature set does not ask for the size of a record, so
"huge" is nothing to it.

*Blocks (`TileRecords`).* A file is a sequence of sizes and a tail, the part of a
record that the tile writer has got to: nothing, a part of the size field, or the
size and a part of the contents. The two feature sets share nothing but the file, so
a behaviour has one of them. `ReadSize` and `ReadContent` are the two reads of
`init(f, true)`, between which the writer may go on. The heap is a function from the
addresses allocated to blocks; `new` returns any other address. A block remembers the
number of the record it was filled with, which is what `RecordsRead` looks at. A
record cut short leads the buffered loop beyond its data (`LoadCut`): unless reading
there ends the process, a geometry of whatever is there is put into the vector, and
then the assertion behind the loop ends the process (`FinishLoading`).

*Cells (`GeometryShapes`).* The body of a geometry is a sequence of numbers; how they
are encoded is the subject of `VarInt`. `Path` says cell by cell what stands where, and
`RingsTo` puts the rings behind each other. A walk is one action per path and per point.
`Draw` is what the loops of all walks do with a point. The positions `x` and `y` are
`int64_t`; `Envelope::add()` takes `int32_t`, and `Kept` is what is left of a number then.
`ParseRing` aborts at a ring of `RingLimit` points, in the code ten million. The two
feature sets have the same parse functions in two copies.

*Bytes (`RawTags`).* A byte is the set of its bits, so that setting and testing a bit
is a union and a membership. A number is any code in which no number begins another
(`EncodingAssumption`): `VarInt` shows that about the real one. The table of symbolic
names is a constant, any table of at most 256 names; its inverse is `symbolicNameId`.
Names hold no NUL. Sizes are below `MaxNumber`, the memory there is. The actions are
one turn of each loop. `Located` is the constructor of `RawTags`, with its one
subtraction, and `Iterate` follows `operator*` and `operator++`.

*Coordinates.* Query boxes and tile bounds are doubles in metres. The model counts
them in units of a fraction of a centimetre (two to the centimetre in the runs), so
that truncation to centimetres is visible. Halving a tile is exact
(`HalvingAssumption`), as it is for doubles down to far below the size of a tile;
rounding errors of doubles are not modelled.

*Sorting.* `std::sort` is not stable: `SortedArrangements` is the set of all
permutations with descending z-indexes, and the model takes any of them.

*Failure.* The plugin tests neither `fopen()` nor, in a release build, `fread()`.
`CMakeLists.txt` asks for a debug build, where assertions abort. A null handle, a
failed assertion and `MUST()` all lead to `pc = "crashed"`. That happens in `LoadFails`
(the tile is gone, cannot be opened, is empty, or ends inside a record), `OpenFails`,
`ReadFails` (`Refused`, or cut off) and `DrawFails` (`RingTooLong`). `fopen()` may fail
for an existing file too, for want of permission or of file handles; which files it
refuses is chosen beforehand (`denied`, a member of `Denials`), as no query opens a
file twice. `FeatureQuery` has `Lose` for all of these.

*The environment.* `ChangeTile` and `ChangeTileSet` are the COORDS tools, which are
not in this repository. They may remove or empty a tile, or add or remove a tile
set, up to `MaxChanges` times. An open file that is removed stays readable; one that
is emptied ends where the buffer of the open handle ends, at or inside a record.

*Undefined behaviour.* Converting a double out of range to `int32_t` yields any of
the values the processors of interest give (`ToInt32`). The word that
`getZoomLevel()` reads behind its table is any member of `PastTheTable`.

*Mutants.* Definitions marked as mutants in the modules are plausible mistakes. Each
property of a run is violated when the definition after a mutant is replaced by it;
`PROJECT.json` says which.

## Runs

| cfg | module | question |
|---|---|---|
| `BufferedAreas` | `MCBufferedFeatureSet` | does the buffered feature set return what it should and nothing else, in every layout? |
| `BufferedRoads` | `MCBufferedFeatureSet` | are roads returned in order? |
| `BufferedChanges` | `MCBufferedFeatureSet` | what happens when tiles change? |
| `ZoomLevels` | `MCDataSource` | is the table of the source right, and searched right? |
| `TileSetChoice` | `MCDataSource` | is the right tile set chosen, also when tile sets come and go? |
| `StreamedAreas` | `MCStreamingFeatureSet` | does the streaming feature set return every matching entity once? |
| `StreamedChanges` | `MCStreamingFeatureSet` | what happens when tiles change? |
| `TileRecords` | `MCTileRecords` | are records read whole, into blocks that are long enough and owned once? |
| `RefusedRecords` | `MCTileRecords` | is only a record above 50 MiB refused? (It is not: see below.) |
| `Shapes` | `MCGeometryShapes` | is every shape drawn, and bounded, as it was stored? |
| `Tags` | `MCRawTags` | are tags found, read and written as they were written? |
| `VarInts` | `MCVarInt` | does every number survive being written and read? |

What they show:

- `AnswerComplete` compares with exact coordinates: neither pruning nor truncation
  loses a geometry whose box meets the query box. The converse, `AnswerSound`, holds
  up to less than a centimetre, because truncation towards zero can widen a box.
- `ImplementsFeatureQuery` shows the same against `Matches`, which is written from
  the meaning of the quadrant digits and not from the recursion; and that null is
  returned exactly when everything was.
- `HeapOwned` holds whatever the tiles do, in the middle of a query and after it.
- `CrashExplained` of the feature sets is about the step that loses the process, and
  about the file or record at hand: a tile that changed after its `stat()` and before it
  was opened or read, one that cannot be opened or ends inside a record, a record that
  is too large for `init()`, a ring that is too long. A change of another tile, or of
  this one before it was looked at, excuses nothing, and neither does any layout.
- `ZoomLevelRight` does not depend on what is behind the table: for the finest
  scales the comparison is made, but the bound decides.
- `MapnikLevelExact` is the claim of the comment above the table.
- `CoarsestThatSuffices` is stated with history variables, since while tile sets
  come and go no single directory explains the answer: it was there at some moment,
  and no tile set that was there all the time would have been better.
- `EntityOnce` of the streaming feature set, against copies in many tiles. Its
  `AnswerComplete` is that of the buffered one, for entities.
  `ImplementsFeatureQuery` needs the assumption `OneGeometryPerEntity`: an entity is
  marked before it is held against the box, so the first copy decides for all.
- `BlocksOwned` and `WithinBlock` hold over the reuse of blocks, the geometry made of
  bytes behind the data, and destruction at any moment.
- `RecordsRead`: of a record that the writer has not finished the buffered feature set
  makes a geometry, but never opens with it; the streaming one never counts it as read.
  The process is lost to it; `CrashExplained` of `TileRecords` says that a file of whole
  records that nobody writes to costs it only through the limit of `init()`.
- `RefusedRecords` finds a disagreement of code and comment. The comment at
  `genericGeometry.cc:70` puts the limit at 50 MiB; the code at line 72 ends the
  process from 50*1000*1000 bytes on, which is 2.3 MiB less. The run refuses a record
  of 50,000,000 bytes.
- `DrawnAsStored` and `BoundsAgree`: the two walks, written apart, agree with the
  points and so with each other, over holes, empty rings and empty lines. Whether a
  shape is accepted rightly is claimed for coordinates of 32 bits only; beyond them the
  box is that of the truncated coordinates, in both walks alike. The size
  checks of `getBounds()` never fail on a record that was written whole.
- `IteratorMeetsEnd` is what keeps the iterator inside the record, since it compares
  for equality only. It depends on the total size, on both recomputed field sizes and
  on every name being passed exactly; `TagsSurvive` adds that the bit array is read in
  the order it is filled in.
- `FieldsFound` and `CopyAlike`: the address of the geometry is right across three
  numbers of varying length; serialising found tags repeats their bytes.
- `BufferFits` excludes that the loops of the codec run on, which shifting a
  negative number would do.

### Bounds and why they are enough

- *The world*: eight centimetres wide, tiles down to the second level, four shapes of
  the tree: a root alone, a full first level, and two second levels. This has a
  border between siblings, between cousins and between levels, on the axes and off
  them. The recursion does not know its depth, so a third level adds only repetition.
- *Geometries*: inside one tile, across several, on a border, in the corner of the
  world, over the whole width, and one without points. All their sets, with and
  without one of them kept in the root, with and without empty files.
- *Queries*: 24 boxes whose edges lie on, a half centimetre next to and between the
  borders; one reaches beyond the world. `Int32Max` lies behind the largest of them,
  as Mapnik clips queries to `envelope()`.
- *Changes*: two. One can cost the process; the second lets a changed tile change again
  or another one follow. In the runs with changes, `FewDenials` has `fopen()` refuse one
  tile, an inner one in some layouts and a leaf in others, or none, and
  `FewCollections` puts a record of each fault beside a sound one. That makes
  2.2 and 2.4 million states; the runs without changes have neither.
- *Zoom levels*: `ZoomLevels` has the real table and all scales at, above and below
  every entry. `TileSetChoice` has a table of three entries, five levels, all 32
  directories and three changes, enough for a tile set to come, go and come back.
- *`Word`* of `StreamingFeatureSet` is 128: larger than eleven times any id of the
  runs, as 2^64 is for OSM ids. `StreamingAssumption` states this.
- *Records*: four of them, of sizes 4, 6 and 9 with the limit at 9: a longer one after
  a shorter, a shorter after a longer, an equal one, and one refused, in all orders,
  with every tail. Six addresses, one more than can be in use (four records and one cut
  off), are interchangeable:
  the specification never compares them but for equality, hence the symmetry.
- *Shapes*: two points on either side of zero and one with a coordinate too large for
  the small `int32_t` (`Int32Max` = 5), up to two paths of up to four of them, empty ones
  included, a ring of four being too long, against four boxes that hold one point, lie
  between them, touch the corner of their box, and lie apart.
- *Tags*: names of up to three characters, symbolic, plain and empty; all lists of up
  to two tags, and lists of up to five over three tags, so that the bit array has a
  second byte; some that do not fit into memory. Numbers have two bits to the byte, so
  that sizes take up to three bytes and counts up to two.
- *Numbers*: words of 15 bits instead of 64, with real bytes. Both are one more than
  a multiple of seven, so that the last byte of the longest number holds one bit and
  the smallest number has the same shape. The proofs cover any even size.

### Fairness

`WF_vars(Constructor)` and `WF_vars(NextCall)` (in `DataSource`, `WF_vars(Plugin)`):
the constructor and `next()` are loops that wait for nothing, and Mapnik's renderer
calls `next()` until it returns null, as `pluginTest.cc` does. The destructor and the
tools have no fairness. Liveness (`Termination`, `Answered`) therefore says that the
loops end, unless the renderer destroys the feature set first or the process is lost.

## Proofs

All proofs are for arbitrary constants under the assumptions named in the modules.

- `GeometryShapesProofs`, on boxes: `overlapsWith` means to share a point, is
  symmetric, and an empty box overlaps nothing; `add` is the least cover. So it does no
  harm that lines and polygons ask in opposite directions.
- `GeometryShapesProofs`, on walks: `Inv` says where a walk is in the body
  (`BetweenPaths`, `InPath`), that its box is the tight one of the points read so far
  and that what is drawn are the paths it has ended. For this, the cells of every path
  have to be found at `Offset` (`CellsOfPath`), which is proved ring by ring
  (`RingsKeep`, `BodyOfPolygon`); the distances then lead to the points
  (`DistancesLead`), and one point more keeps the box tight (`TightAdd`).
  `ShapesAreDrawn` and `BoundsAreExact` follow for any number of rings. Points have
  coordinates of up to 63 bits, so that sums and distances stay within `int64_t`, and a
  path has at most `Int32Max` of them, so that its count fits the `uint32_t` of
  `getPolygonBounds()` (`GeometryShapesAssumption`); a record has fewer than 50,000,000
  bytes, as far as `init()` reads it. `WalksAdvance` adds that no cell behind the body is ever read, which
  the parse functions do not check, and bounds the steps by the length of the body.
- `TileSetProofs` holds lemmas about types, and about the recursive descent. `Under`
  orders paths by subtree. The subtrees of pending calls are disjoint, and splitting a
  call into its four subcalls keeps the tiles they reach (`DescendKeeps`), and so does
  dropping a call whose tile is missing or misses the query (`SkipKeeps`), since a
  child lies inside its parent. That the bounds computed by halving are those of
  `Region` is an invariant of the descent (`BoundsRight`), for which
  `HalvingAssumption` is needed. `CallsLeft` bounds the calls to come by the files in
  the subtrees of pending ones, and every call lowers it (`SkipAdvances`,
  `DescendAdvances`). The last section is on truncation to centimetres: what passes the
  truncated box nearly meets the exact one (`AcceptedIsNear`), what meets the exact one
  passes the truncated (`MeetingIsAccepted`), and lies in a tile that is looked at
  (`MeetingIsRelevant`).
- `BufferedFeatureSetProofs`, whatever happens to the tiles: `Inv` is inductive. For
  `HeapOwned` it needs that addresses are below the allocation counter, so that new
  ones are fresh; for `CrashExplained`, an action property, that only a file with
  contents is about to be loaded until somebody changes it, and that nothing is left in
  the vector once null was returned (`CrashesExplained`); for `RoadsInOrder`, that the vector is
  sorted once the constructor is done and everything delivered lies below everything
  left. `OnceInv` adds that no copy is loaded twice (`NoCopyTwice`): what has been
  loaded lies outside the subtrees still to come. `ServesTheAnswer` is the part of the
  refinement that needs nothing but these.
- `BufferedFeatureSetProofs`, while nobody changes the tiles (`MaxChanges = 0`):
  `OpeningInv` says that each relevant tile is loaded or in a subtree to come, and
  that no other is loaded. Hence the vector holds exactly `Matches` when construction
  ends, and `AnswersTheQuery`: the feature set implements `FeatureQuery`. With
  `AnswerKept` (what is returned and what is left make up that answer) follows
  `AnswersInFull`: nothing that meets the exact query box is missing. Beyond
  `MaxChanges = 0` this asks that query boxes are proper and convert to `int32_t`
  (`QueriesProper`, `QueriesInRange`) and that a geometry is stored wherever it lies
  (`WellLaid`); without the last the claim would be false. TLC evaluates `WellLaid`
  and `QueriesProper` for the tile sets and queries of the runs.
  `AnswersAreNear` is the other direction, from `TruncateNear`: what passes the
  truncated box is less than a centimetre off.
- `StreamingFeatureSetProofs`: for `BitsInBounds`, that eleven tenths of `id + 1`
  exceed `id` in integer arithmetic without overflow; for `EntityOnce`, that
  whatever was returned is marked and no mark is lost when a vector grows; for
  `CrashExplained`, that registered files exist, and the open one is whole, until somebody
  changes them (`FilesIntact`).
  `AnswersTheQuery` is the refinement of `FeatureQuery` while nobody changes the tiles
  and if the copies of an entity are alike (`OneGeometryPerEntity`). Its `OpeningInv`
  is that of the buffered feature set for files registered; from then on, opening and
  closing files keep the set of records not read (`OpenKeepsUnread`,
  `CloseKeepsUnread`), and reading one takes from the answer the entity returned or,
  if none is, nothing (`TakeEffect`, `SkipKeepsAnswer`). `MarkEffect` states that
  marking one entity marks no other, whatever size the vectors grow to.
  `AnswersInFull` follows as for the buffered feature set, from its own `AnswerKept`
  and the same assumptions: no entity that meets the exact query box is missing.
  `AnswersAreNear` needs no `MaxChanges = 0`; it states `AnswerSound`, which no run
  checks, whatever is changed meanwhile.
- `LoopsAdvance`, in the proofs of both feature sets, is the part of `Termination` that
  can be proved here: `Left`, four natural numbers compared by the first that differs,
  becomes less with every step of the constructor and of `next()`, and not even the tile
  writer makes it more. The tile sets have to have finitely many files (`FilesFinite`),
  and the pending calls have to be `Apart`, so that no file is come upon twice.
- `TileRecordsProofs`: `Inv` adds to the checked properties where each reader is, that
  a block about to be filled is long enough for the size just read (`BlocksFit`), that
  the vector holds one geometry more than there are whole records only while loading or
  after a crash, and how a crash came about (`CrashInv`). It is proved for files of any length, any
  sizes and any behaviour of `new`. Its `LoopsAdvance` counts the steps left to each
  reader. A writer who goes on for ever would keep a reader going for ever, and
  `MaxRecords` is what bounds it: the count is by the room left in the file, so that
  making the file longer does not add to it.
- `RawTagsProofs`: `SumsInv` and `WriteInv` describe the buffer while it is filled,
  name by name, at the sums measured before; `ReadInv` says that the iterator is at
  the sum of the tags passed. Numbers are read as written by `EncodingAssumption`
  alone, for every list of tags, table and id. `LoopsAdvance` bounds the steps by the
  number of tags; that the iterator makes no turn too many follows from `EndReached`.
- `DataSourceProofs`: the invariants of the two loops. The table only has to descend.
  `MapnikLevelsFound` is about the table of the source in particular: its entries are
  compared with the scales that its comment gives. `AnswersInTime` is to `Answered` what
  `LoopsAdvance` is to `Termination`; here `StepsLeft` is one number.
- `VarIntProofs`: the history variable `shifts` holds what is left of the number
  after each byte. What has been written is the beginning of an encoding, the counter
  agrees with it, and the number is what was read plus the rest at the weight of the
  next bit, so that no bit leaves the word. The precomputed bytes of the smallest
  number are assumed to be an encoding (`MinResAssumption`), which TLC evaluates for
  the small word. `TenBytesSuffice` compares with them: after each byte, no more is left
  of a number than of the smallest one. `LoopsAdvance` rests on it: the three loops make
  at most `MaxBytes` turns each.

A recursive function such as `Region` is unfolded one step at a time; where a proof
needs induction over paths, it is made by taking the shortest path in a set of
counterexamples, or by an invariant of the descent that moves with the calls. For
`RingsTo` the numbers up to which a claim holds are collected in a set, and
`SetInduction` says that it is all of `Nat`.

Only model-checked: liveness (`Termination`, `Answered`). That the loops advance is
proved; that an advancing step is possible as long as something is left, and that
fairness then leads to the end, needs `ENABLED` and fairness, which the installed
provers do not know.

## Not modelled, and why

- The strings of `symbolicNames.cc` are data; the table is a constant of `RawTags`.
- The rendering scripts, the packaging and the build: no behaviour of their own.
- Transcoding, the choice of the properties that are put on a feature, descriptors and
  output to the console: they carry no state that a decision of the plugin depends on.
- Data source and feature set as one module: `features()` returns before the feature
  set's `next()` is first called, and hands over a path and a query box by value, so
  the composition is sequential. What can happen between, the removal of the tile set
  that was chosen, is a change of the root tile before its first `stat()`, which
  `BufferedChanges` has.
- `~coords_featureset()` does not close the file it was reading. The model says so in
  `Destroy`; nothing in the repository promises otherwise.
- A record whose length fields are wrong though the file is complete: the tile writer
  does not write any.
- The copy constructor of `GenericGeometry`: nothing in the plugin calls it.
- `RawTags::asDictionary()`, which puts what the iterator returns into a map: it changes
  no state.
- Query boxes whose conversion to `int32_t` is undefined, in the runs: `ToInt32` has them,
  but Mapnik clips queries to `envelope()`, which is in range.
- That copies of an entity are alike is assumed (`OneGeometryPerEntity`): if the tile
  writer cut geometries at tile borders, marking an entity before holding it against the
  query box would lose it. Nothing in the repository says what the writer does.
- Rounding of doubles.

## Plan

The modules were written in the order envelope, tile set, feature sets, data source,
codec; then tags, records and shapes; then the refinements of `FeatureQuery`, the
completeness of answers, the walks over shapes and the advance of the loops were proved.
All parts of the program with behaviour of their own are modelled now, and every safety
property of a run that passes is a theorem.

What is left:

- Larger queries of changing tile sets: how much of an answer survives when tiles are
  removed under the query is a question the code does not answer, as nothing in the
  repository says what is expected then.
