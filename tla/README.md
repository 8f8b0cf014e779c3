# gobzip2 in TLA+

Specifications, model-checking runs and machine-checked proofs for gobzip2, a
bzip2 compressor and decompressor in Go: a library (`gobzip2.Writer`,
`gobzip2.Reader`) and a command. Every definition is translated from the source;
`PROJECT.json` names the lines each one stands for.

## The system

| part | source | state it keeps | operations |
|---|---|---|---|
| single-threaded Writer | writer.go 29-317 | the run not yet in the block, the block with its checksum and alphabet, the combined checksum, the first error | Write, Close, Reset |
| parallel Writer | writer.go 319-475 | channels `jobs`, `results` (capacity 2 x workers), `done`, a WaitGroup; per worker a job; the serializer's reorder map, `nextSeq`, combined checksum | the same, plus worker and serializer goroutines |
| run-length stage | writer.go 173-237, reader.go 492-549 | - | encode a run, decode a block |
| Reader | reader.go | the decoded block and the position in it, the combined checksum, where in a stream it is, the first error | Read, Reset |
| bit streams | bitio.go | 64-bit accumulators and their fill, the first error | writeBits, flush, writeTo, readBits |
| move-to-front, Huffman | mtf.go, huffman.go, writer.go 516-724, reader.go 188-422 | the symbols, tables and selectors of one block | encode a block, decode a block |
| block sort | blocksort.go | pointers, buckets, quadrants and budget of one block | sort the rotations |
| checksum, tables | crc.go, tables.go | - | - |
| command | cmd/gobzip2/main.go | files | convert each argument, filter |

A Writer's caller fills blocks through the run-length stage. The single-threaded
path compresses each block at once (sort, move-to-front, Huffman) into the
bitWriter. The parallel path sends it to the workers; each compresses into a
bitBuffer of its own, and the serializer splices the buffers in order into the
one bitWriter. The Reader goes the other way, block by block, into a buffer from
which Read serves. The command connects files to a Writer or Reader.

What is hard in it: goroutines and channels that must be shut down in the right
order, also after errors and Resets; results in any order; errors that are met
late and must stay; blocks that end in the middle of a run and streams that end
in the middle of a byte; end of data against truncation; a sort that gives up half
way and starts again with another algorithm; codes that come out too long and are
made again; tables that a damaged block sends out of range; system calls that fail
half way. `PROJECT.json` lists these hazards by line.

## Modules

| module | stands for |
|---|---|
| `Bzip2Stream` | what any Writer promises: one stream, header, blocks in order, trailer over the same blocks; success means all of it was delivered |
| `ParallelWriter` | the parallel path; implements `Bzip2Stream` (`KeepsPromise`) |
| `Rle` | the run-length code, both directions |
| `Writer` | the single-threaded path; implements `Bzip2Stream` as well; extends `Rle` |
| `Reader` | Read, Reset, headers, blocks, trailers, concatenation |
| `BitIO` | the three bit streams, bit by bit |
| `SortedBlock` | what the block sort promises: the rotations listed once, in order, the block as it was |
| `BlockSort` | both sorts of a block and the choice between them; implements `SortedBlock` (`SortsAsPromised`) |
| `BlockFormat` | what both sides of a block share: sizes of fields, the sort by counting, the order of rotations |
| `Mtf`, `Huffman`, `PrefixCodes` | move-to-front with its runs; code lengths; codes and decode tables: operators without state |
| `BlockEncoder` | a block from its bytes to its bits; extends `SortedBlock` and these three |
| `BlockReader` | `readBlock` on any bits; extends `Mtf` and `PrefixCodes` |
| `BlockRoundTrip` | the encoder's bits, damaged or not, read by `readBlock`; extends `BlockEncoder` and `BlockReader`, the sort being that of `SortedBlock` |
| `Block` | the same with the sort of `BlockSort` |
| `Cli` | the command's handling of files |
| `ParallelWriter_proofs`, `Writer_proofs`, `Reader_proofs`, `BitIO_proofs`, `BlockRoundTrip_proofs`, `Cli_proofs` | theorems about the modules they are named for; the first two also say what `Bzip2Stream` gives the caller of each path |
| `BlockDecoding_proofs` | the theorem about `BlockRoundTrip` that needs all the others: what arrives whole decodes |
| `SequenceFolds` | lemmas these share: folds and flattened sequences and where their parts stand, sums, induction and recursion over the numbers |

The components are small enough that a `.cfg` gives the constants their values directly.
Only the pipeline has a module of its own for that, `MCParallelWriter`: it limits the
blocks a caller writes to one odd one per stream.

**ParallelWriter.** Goroutines interleave at channel operations, waits and writes
to the destination; the code between two such points is one action. `call` and
`op` say where the caller stands, `held[w]` what a worker has in hand, `ser` where
the serializer stands. `flushBlockParallel` is `SendJob`, then for Close
`CloseJobs`, `AwaitWorkers`, `CloseReturns`; `reset` is the same with
`ResetReturns`, which also sets `forked`: the struct copy at writer.go:444 leaves
the caller with a WaitGroup of its own, which the new workers never count down.
`Emit` is a write through the bitWriter: it may fail when `SinkMayFail`, and drops
everything once it has. A block is its contents. A checksum is a function of
what it was computed over and is represented by that: the trailer's checksum is
the sequence of blocks it was folded over. Equality of such values is stronger
than equality of 32-bit checksums; collisions are not modelled.

**Writer.** One action per byte written; a flush is cut where the destination may
fail (header, block, trailer). Bytes, run limit and block limit are constants: the
count byte of a run must be a byte, hence `MaxRun <= ByteTop + 4`. The refinement to
`Bzip2Stream` takes a block to be the data it was made of, which is sound because
`BlockDecodes` shows that its bytes decode to that data. `AlphabetExact` is what lets
`BlockEncoder` take the alphabet from the block's bytes instead of being handed it.

**Reader.** The source is a sequence of parts (header, block, trailer, junk, end),
each chosen nondeterministically when it is read, so that every truncated, corrupt
and failing source occurs. What can go wrong inside a block before data comes out
is one part, `junk`. `even` says whether the bitReader stands at a byte boundary:
only there is a following header found. A stream without blocks is whole bytes, so its
trailer always ends one (`TrailerEnds`). The properties describe a good source on
their own terms (`Streams`, `Open`, `BlocksSince`), from the parts read and without
the Reader's state.

**BitIO.** A value is its sequence of bits, an accumulator a tuple of `AccBits` bits,
so that `|=`, `<<=` and the width are explicit. Calls are cut at each byte that goes
out or comes in. `asked`, `buffered`, `got` are histories; `got` is all that `readBits`
returned, the zeros of failed calls too. `flush` is called once,
with no block left in a buffer, as both paths of the Writer do.

**SortedBlock, BlockSort.** The rest of the encoder needs to know of the sort only that
`ptr` lists the rotations in order, so that is a specification of its own, one step from
"start" to "sorted". `BlockSort` is the code and is checked to implement it: `input`, the
block as it was handed over, is not touched by the code and stands in for `block` until the
sort is done. `BlockRoundTrip` takes the abstract sort, which is what proofs can be about,
`Block` the code's, which is what the run explores. What is proved of `BlockRoundTrip` for
every block holds of `Block` as far as `SortsAsPromised` does.

In `BlockSort` a step is a phase of the fallback sort (the rotations are in the order of
their first `H` bytes, then of `2H`) or one big bucket of the main sort: its small buckets,
then the order that follows for those ending in it, then its quadrants. `budget` is spent
by `MainGtU` as in the code and looked at where the code looks; below zero the fallback
sort takes over. The quick sorts with their stacks and partitions, the shell sort and the
simple sort are translated as they stand, because what they leave half sorted matters when
the budget runs out. The scans for bucket boundaries, word by word in the code, are sets
of positions. Among equally large big buckets the order is left open; the code's is one of
those allowed.

**BlockEncoder.** The stages "sort", "select", "lengths", "write": the symbols, then rounds
in which each group of symbols takes its cheapest table and each table is made anew for its
groups. One action is one round of `makeCodeLengths`, so that halving the frequencies is
seen as a loop. The bits are those of the code but for the magic, the checksum and the
randomised bit, which are `Writer`'s and `Reader`'s.

**BlockReader.** The steps "header", "tables", "symbols", "inverse", the symbols one at a
time. `arrived` is any sequence of bits. Bits behind its end are 0 and the error is met
where the code asks for it, so that the reader goes on with what it made of the zeros for
as long as the code does. "panic" is an index out of range. The decode tables are those of
the code, indexed the same way.

**BlockRoundTrip, Block.** `Transmit` hands what the encoder wrote to the reader, whole or with one
bit flipped or its end cut off.

**Cli.** A step per system call; each may fail; the process may be killed between any
two and started again on what is left. Contents are the origin of the data and the
number of times it was compressed, or `Torn`. A `Stat` that fails, as on a file system that
is not reachable for a moment, counts as "no such file", as in main.go:143 and 204:
`StatMayFail` switches this on. With `OthersMayMake` another process makes a file where
there is none, at any moment; made between `Stat` and `Create` it is truncated just the
same, and TLC shows that, too, when `OnlyForceOverwrites` is checked with this switch on
alone. That others change or remove files is not modelled, nor are flushing to the disk
and loss of power. `Filter` is the command without arguments.

## Runs

All but `parallel` and `block`, which take two minutes, and `cli`, which takes one, finish
in seconds.
"violated" runs show where the code departs from what its comments, its flags or its
messages say; each has a finding in `PROJECT.json`.

| run | result | what it shows |
|---|---|---|
| `parallel` | 699,069 states | two workers, up to 7 blocks, one of them odd, one Reset, failing sink: types, the inductive invariant `IInv`, every block in exactly one place, no send on a closed channel, refinement of `Bzip2Stream`; calls return: when the serializer gives up it has one block, `results` takes four, and any more leave a worker blocked |
| `parallel_reset_closed` | violated | Reset after Close panics |
| `parallel_reset_hangs` | violated | Close after Reset hangs |
| `parallel_sink_hangs` | violated | Close after a failed write hangs when more blocks are under way than `results` takes |
| `writer` | 315,594 states | every input up to 9 bytes over 3 byte values with runs up to 6 and blocks of 5 |
| `reader` | 76,060 states | every source of up to 6 parts and its end, blocks of 1 and 2 bytes, reads of 1 and 3 |
| `reader_concatenation` | violated | a stream behind one that ends within a byte is refused |
| `reader_reset` | violated | Reset leaves the old block to be served |
| `bitio` | 369,936 states | bytes of 2 bits, accumulators of 4, values of 1 to 3 bits, 6 bits in all, straight or spliced, failing anywhere, 9 bits read, those of failed reads counted: the bits arrive exactly and are read back, and no failed read is forgotten |
| `block` | 495,678 states | every block up to 9 bytes over two values, up to 8 with one byte of a third, up to 4 over all four, each with three work factors: both sorts implement the abstract one, also after the main sort gave up, and keep the order they have made; codes are usable and optimal; arrays have room; what arrives whole decodes to the block; no damage makes the reader panic |
| `cli` | 2,418,232 states | two invocations with up to two arguments, all flags, the filter, every call failing, a kill anywhere, files made by another process: data is lost only in an output that is written over, with `-f` or because `Stat` did not report it; status 0 means converted, torn outputs are removed |
| `cli_stat_fails` | violated | without `-f` an output on which `Stat` fails is truncated |

Bounds. Two workers already finish in either order and the pipeline treats them alike;
seven blocks make results overtake each other by several places and are more than channels
of capacity four and the serializer take. The pipeline does not look at what a block
contains, so one odd block per stream, anywhere in it, is enough to tell a stream whose
blocks were swapped, doubled or left out (`AtMostOneOdd`, which limits the caller's new
calls only and cuts off nothing that fairness speaks of). In `writer`, nine
bytes reach a run that is cut by the limit, a block that fills up in the middle of a
run, and three blocks; `Margin` 4 is what the checks need, the code has 19. In `reader`,
six parts are two streams of one block each or one of four. In `bitio`, an accumulator
has exactly the width the assumption asks for. In `block` the thresholds of the code are
constants, scaled down together with the blocks: the main sort from 6 bytes instead of
10,000, simple sorts below 5 and 3, depth 3, 1 byte compared before the quadrants, ranks
up to 2, codes up to 3 bits instead of 17, groups of 2 symbols instead of 50, a third
table from 6 symbols, 2 rounds, rows of 2. With these both sorts run, the main sort
gives up on repetitive blocks when the work factor, clamped to 1 to 100 by the code,
leaves it a small budget, quadrants are cut, code lengths are too long and frequencies
are halved, runs have three digits, all three tables are used. Blocks up to 6 bytes over
two values and 3 over all are damaged; that reaches, among the reader's errors, a run
and a block that are too long. `cli`: in two invocations the second works on what a
killed first one left.

`parallel`, `bitio` and `cli` do not check deadlock: their bounds let the system stop, and
a caller need not call again. `block` checks it and states no liveness: each stage has only finitely many steps (`H` doubles, big buckets get done,
bits are read) except the halving of frequencies, which `FewHalvings` bounds. Where
goroutines wait for each other for ever is what `CallsReturn` and the violation runs are
about.

Fairness. `ParallelWriter`: weak fairness of the caller's steps inside a call, of each
worker and of the serializer. Go's scheduler preempts, so a goroutine that can run
does; channel operations are served in order of arrival, and with a single sender or
receiver left enabled weak fairness suffices. No fairness is assumed of new calls.
`Reader`: weak fairness of the call in progress.

`CallsReturn` excludes, in its statement, the two situations in which the code really
hangs (the serializer gave up; a Reset split the WaitGroup). `ShortStreamsClose` says
how far the first is harmless: up to `2 * workers + 1` blocks.

## Proofs

The theorems are checked by TLAPS for all values of the constants that satisfy the named
assumptions beside their declaration; the runs evaluate those too. Each proof goes by an
inductive invariant `IInv`, made of named parts, one lemma or step per action.

| theorem | of | says |
|---|---|---|
| `ParallelWriter_proofs!Invariance`, `TypeCorrect`, `NoPanic` | any finite set of workers | `IInv`; types and capacities; no send on a closed channel |
| `ParallelWriter_proofs!Refinement` | | the pipeline implements `Bzip2Stream` |
| `ParallelWriter_proofs!PromiseHolds`, `DeliversInOrder` | the promise; the pipeline | the destination holds a beginning of the right stream, and success means all of it |
| `ParallelWriter_proofs!InOnePlace` | | every block under way is in exactly one place |
| `Writer_proofs!TypeCorrect`, `AlphabetIsExact`, `BlocksFit` | any limits | ranges; `inUse` is the block's alphabet; a block keeps within its limit |
| `Writer_proofs!Refinement` | | the single-threaded path implements `Bzip2Stream` |
| `Writer_proofs!DeliversInOrder` | | so its destination, too, holds a beginning of the right stream, and all of it after success |
| `Writer_proofs!BlocksDecode` | | the current block decodes to the data its checksum was computed over |
| `Writer_proofs!AllIsThere`, `ClosedIsComplete` | | unless the destination failed, every byte written is delivered, in the block or in the run, once and in order; after a Close without error all of them can be decoded from the destination |
| `Reader_proofs!Invariance`, `TypeCorrect` | sources of any length | `IInv`; ranges |
| `Reader_proofs!EndIsEnd`, `GoodIsAccepted` | | io.EOF only behind complete streams; no error from good streams that all but the last end a byte |
| `Reader_proofs!CallerIsTold` | | data or an error; an error stays |
| `Reader_proofs!OnlyVerifiedData` | | the caller has, behind what a Reset left to be served, the data of the blocks read, in order and without a gap, and of no other |
| `BitIO_proofs!Invariance`, `TypeCorrect` | any widths | `IInv`; no accumulator is overfilled |
| `BitIO_proofs!Zeros`, `BlockIsExact`, `ReadsWhatIsThere`, `ErrorIsFinal` | | where the next bits go there are zeros; a buffer holds its block's bits; as long as there is no error, all that was read is the source's; nothing behind a failed byte |
| `BitIO_proofs!NothingBetween` | | the bits that went out and those in the accumulator are the ones asked for, in order |
| `BitIO_proofs!PaddedAtTheEnd` | | a flush adds zeros up to the next byte and nothing else |
| `BlockRoundTrip_proofs!Invariance`, `TypeCorrect` | any bits | `IInv`; ranges |
| `BlockRoundTrip_proofs!DamageNeverPanics` | | no bits send an index out of range |
| `BlockRoundTrip_proofs!CodesDecode`, `SymbolArrives` | codes of any lengths | a code in the stream is found in the decode table made from its lengths; `ReadSymbol` reads it as its symbol |
| `BlockRoundTrip_proofs!SelectorsDecode` | selectors of any number | their positions decode to them |
| `BlockRoundTrip_proofs!RunsDecode`, `SymbolsDecode` | blocks of any bytes | digits of a run give its length; the symbols made of a block are accepted, end where they should and give the block's bytes |
| `BlockRoundTrip_proofs!SymbolTaken` | | a `ReadSymbol` takes an accepted symbol as those theorems have it |
| `BlockRoundTrip_proofs!InverseOfSort`, `SortUndone` | blocks of any size | from the last column of the sorted rotations `Invert` restores the block |
| `BlockRoundTrip_proofs!Coding`, `CodedTypeCorrect` | blocks and alphabets of any size | `SysInv`, from the sorted block to the reader; types |
| `BlockRoundTrip_proofs!CodesAreUsable` | any frequencies | the codes written fit their lengths, none begins another, no bits are left without a meaning |
| `BlockRoundTrip_proofs!FavouredIsOnce` | any frequencies | the first tables divide the alphabet among them |
| `BlockRoundTrip_proofs!RoomEnough`, `NoBlockPanics` | any block | symbols, selectors and pointer fit; no block of the encoder, damaged or not, sends an index out of range |
| `BlockDecoding_proofs!EveryBlockDecodes` | any block, any tables the encoder may make | a block that arrives as it was written is read without an error and as the block that was sorted |
| `Cli_proofs!Invariance`, `TypeCorrect` | any files, any number of invocations | `IInv`; types |
| `Cli_proofs!DataIsSafe`, `ExitStatus`, `NoTornFile` | | the only data lost is that of an output written over, with `-f` or unseen by `Stat`; status 0 means converted; no torn file after an error |
| `Cli_proofs!OnlyForce` | `Stat` that fails on no file, no other process | only `-f` loses data |

**ParallelWriter.** That the trailer is written over all sealed blocks, say, does
not follow from the types: one must know that nothing is left in a channel, at a worker or
in the reorder map when `results` is closed. `IInv` has these parts:

* `Countdown`: the WaitGroup counts the workers that have not returned (or, forked, all);
* `Shutdown`: jobs closed before a worker returns, results closed after all did, and a
  worker that returned holds nothing;
* `Numbered`: `blockNo` is the number of sealed blocks;
* `Faithful`: what is under way is a sealed block with its number;
* `Covered`: every sealed block not yet written is under way;
* `Serialized`: `nextSeq`, the combined checksum and the destination agree;
* `Verdict`: the verdict is given once, at the end, and tells the truth.

`WorkersDone` (wg = 0) gives `gone = Workers` by `Countdown`; with `results` empty then
nothing but `pending` is under way, and `Covered` with `Serialized` says that nothing is
left there: lemma `AllPassed`. The lemmas `Flight...` say what each step does to the
blocks under way. `Covered` leaves open that a block is under way twice; `InOnePlace` adds
that by counting: the occurrences of a number in the channels, at the workers and in the
map add up to one between its send and its write. The lemmas on counting say what appending
to a channel, taking its head, a worker's taking and an entry of the map do to the sum.

**Writer.** `Types`, `AlphabetExact`, `Delivered` (unless a write failed, the destination is
the promised stream up to the item that is due), `Placed` (where an error can have been
noticed and a header be missing), `Room` (between calls the block has space for another
pair, and flushRL never adds more), `Ending` (only Close flushes an empty block and writes
a trailer),
`BlockDecodes`, `NothingLost`. The step mapping to `Bzip2Stream` follows from `Delivered`
and `Placed`. `BlockDecodes` is not inductive by itself: a decoder that stands in the
middle of a run when the block ends would take the next pair for the run's count, or for
its prolongation. `RunBegins` says that where the writer appends a pair, the decoder too
is at the beginning of a run, and that the bytes before it are not ones the new run would
prolong. `ClosedIsComplete` combines `NothingLost` with `Placed` and `Ending`.

**Reader.** `Located`: as long as there is no error, the parts read are good streams,
and the Reader is at the start, behind a trailer, or within a stream whose blocks it has
folded into `combined`. `AtEnd`: at io.EOF the part before the end was the trailer of a
good stream. `Justified`: if what was read is a beginning of good streams at even
positions, there is no error. `Looking`: only a Read without an error looks for a part.
`Sticky`: an error that was returned stays, and nothing is delivered after it. `Emptied`:
the next block is read only when the last one was served in full, which is what
`NothingLostNorInvented` needs to be kept. Lemmas
say how the definitions of a good source (`Streams`, `Open`, `BlocksSince`), which speak
of all of what was read, change when a part is added.

**BitIO.** `WriterSound`, `BufferSound`, `ReaderSound`: behind the bits of an
accumulator are zeros, whole bytes went out or came in, a buffer holds what it was given
and the reader has handed out what it fetched except for the bits it still has.
`AskedSound`: `ExactBits`, and what makes it and `FlushPads` inductive: a call that returned
leaves less than a byte in the accumulator, which flush puts out once. The
lemmas are about shifting, OR-ing and taking a byte of tuples of any width, and about
joining sequences.

**BlockRoundTrip.** `SysInv` is `EncoderInv` with the reader's `IInv`. `EncoderInv` follows the
block from stage to stage: `SortKept` (the block is sorted or waits to be), `SymbolsKept`
(the symbols are those made of it, and end with the one end-of-block symbol), `Chosen`
(every group has a table), `TablesUsable` (a table that is done has usable lengths, whatever
it had before), `Rounds` and `FieldsWritten` (what was not yet made is empty, what was
written is the block's fields).

* `CodesUsable` has the longest argument. The heap is only used as a sequence of nodes: an
  exchange, and with it every turn of the two loops, keeps the nodes it holds (`Rearranged`), so that `Join` takes two different trees out and puts one in. After as many
  joins as there are leaves but one, `parent` is a full binary tree: one root, every other
  node with exactly one sibling. By induction over the nodes, from the root down, the sum
  of 2^-depth over the leaves is one; scaled by 2^longest this is `Kraft`. Codes are given
  out shortest first, doubled from one length to the next, so the first code of each length
  is what the shorter ones have used up of the sum; it follows that no code overflows its
  length and that the codes are intervals that do not meet, which is what prefix-free means.
* `FavouredOnce`: `Favour` hands the symbols out from `gs` on; invariant over the tables are
  that the parts so far are the symbols below `gs` without a gap and that `remF` counts the
  others. The last table gets all that is left because there is an end-of-block symbol: a
  table stops early only with its share filled, and the share of the last is everything.
* `RoomEnough`: `SymbolsKept` bounds the symbols by one more than the bytes, since the digits
  of a run are never more than the bytes in it; groups follow.

**BlockReader.** `NeverPanics` needs, of a header that was taken, that it makes sense and
that the move-to-front list is complete (`HeaderRead`), that there is a table for every
group the selectors may name (`TablesMade`), and that the group being read has a selector
(`GroupWithin`). It is proved for every sequence of bits; the run sees those that one
flipped bit or a lost end makes of a block.

Other theorems say, stage by stage, that what the encoder did is undone.

* `CodesDecode`: canonical codes of a length are consecutive numbers, and a shorter beginning
  of a longer code is a number beyond the last code of that length; so the reader goes on
  until the code's own length, and the code's distance to `base` is its symbol's rank. It holds
  of any lengths, also of those no encoder would choose.
* `SelectorsDecode`: both sides keep the same list and make the same moves in it.
* `RunsDecode`: strong induction on the run's length: the first digit weighs one or two,
  the rest are the digits of half the run.
* `SymbolsDecode`: by induction over the block's bytes, what was written so far is read as
  all of them but the run still pending, with a list over all byte values that begins
  with the writer's list over the alphabet.
* `InverseOfSort`: turning each of the sorted rotations by one letter and sorting again by
  that letter alone, stably, gives the same list, so that following `tt` walks through
  the block byte by byte.

**BlockDecoding.** What connects them, that the bits of a field are the ones the
corresponding step reads, is `EveryBlockDecodes` (`DecodesBack` of the run). The invariant is
`FollowInv`: `SysInv`, and, when the block arrived as it was written, `Followed`, which says
for each state of the reader what it has: nothing yet; the header the encoder meant
(`RightHead`) and the first tables (`TablesSoFar`); all tables and the first symbols, at the
right bit, in the right group and with the run, the list and the bytes that `SymbolsDecode`
speaks of (`SymbolsSoFar`); the last column of the sorted rotations; the block.

* `Standing(arrived, p, bits)` says that the bits are in the stream from `p` on.
  `FieldsArrive` cuts the block into its fields, `StandingEach` a field into its parts, each
  at the sum of the lengths before it (`Offset`).
* For each kind of field a lemma says that what stands there is read back and where the
  reader stands then: numbers of a fixed width (`ReadBack`), flags (`FlagsThere`), numbers in
  ones (`UnaryBack`), steps from one code length to the next (`StepsBack`), a table
  (`TableBack`), a code (`SymbolArrives`).
* The map of the bytes in use has a row of flags only for rows that are used, so where a
  row stands depends on how many used ones are before it. `RowsOffset` says this of the
  writer, and the reader counts the same rows.
* Symbol `k` is decoded by the table of group `k \div GroupSize`: `InGroup` is the relation
  between `k`, the group's number and what is left of it that `getSymbol` keeps.

The theorem takes the pointers from `SortedBlock` and so holds for `Block` as far as
`SortsAsPromised` does; the widths of the fields are those of the assumptions,
which the code's constants satisfy.

**SequenceFolds.** The library's theorems on induction and on recursive functions take an
operator as a parameter, which no backend here instantiates. The module states induction
over the numbers for sets (`Induction`, `StrongInduction`: a set that contains 0 and with
each number the next contains all) and the existence of recursive functions for given
steps (`RecursionExists`, `BackExists`); folds, `FlattenSeq` and the recursive
functions of the model are unfolded with these.

**Cli.** `Placed` (the argument at hand is one of the command line), `Conversion` (where its
conversion stands; before `Create` the output is absent but for `-f` and what `Stat` did not
see), `Leftovers` (a torn file is an old one or the one being written), `Kept`
(every file is as it was, or its data is in another, converted, or was written over), `Done` (the same, without the first alternative, for the arguments passed). That
`Kept` carries over from one step to the next is a transitivity: lemmas on `Preserves` and
`Accounted`.

Only model-checked:

* liveness, which is out of the prover's reach;
* the sorts: `SortedSoFar`, `SortsAsPromised` and the sort's half of `Block`'s types. The quick
  sorts and the insertion of `BlockSort` are recursive operators, and the prover has no
  arithmetic in modules that use those;
* `LengthsOptimal` and `FewHalvings`. That a Huffman tree is the best is an induction over
  trees, and with it goes the bound on the depth of a code by its frequency, which
  `FewHalvings` needs. Neither is true of every alphabet as it stands: a weight keeps the
  depth of its tree in its lowest eight bits, which 256 levels would overflow; the code's
  alphabets stay below that because such a tree needs frequencies no block has.

## Not modelled

* Randomised blocks: the table in tables.go and the flips in reader.go 465-481. Only
  compressors that no longer exist wrote such blocks, and nothing in the repository says
  what one decodes to, so there is nothing to hold the code against.
* The polynomial of the checksum: a checksum stands for its data.
* In `block`: quadrants are repeated behind the end of the block as in the code, but no
  block of nine bytes depends on that repetition. Damage is one flipped bit or a lost end;
  two flipped bits, and blocks of other compressors (longer codes, tables the encoder of
  this package does not make), are met only as far as such damage makes them.
* The options `Level` and `WorkFactor` as options (they are constants), flag parsing, `-v`,
  file modes.
* Other processes in the command's directory, except that they make files.
* Callers that use a Writer or Reader from several goroutines, or call Close twice.

## Plan

Done in this order: the pipeline and its promise; the single-threaded Writer; the Reader;
the bit streams; the command; the block from bytes to bits and back; proofs of each of
the stateful components and of a block's way behind the sort, there and back. What is left:

1. `BlockSort` without recursive operators, so that `SortsAsPromised` can be proved.
2. A composition of `Writer`, the stored stream and `Reader` as a run of its own. Now they
   meet in `Rle` and in the parts of `Reader`'s source only.
3. Longer blocks in `block`, for quadrants that decide more than one comparison; blocks
   with codes of the reader's full length (20), which the encoder does not make.
