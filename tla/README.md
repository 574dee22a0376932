# RecordDelta: specifications, model checking and proofs

RecordDelta compresses line-oriented files (logs). `record_compress` codes each
line as a list of edits against a similar line among the last few, or stores it
raw, and writes the records block by block in a compact byte format; a general
compressor then packs the file. `record_decompress` undoes all of it. What
makes the pair correct is that the second program ends up, at every line, in
the state the first one was in. Nothing in the archive tells it what that state
is. This directory models that and everything it rests on.

Line numbers below are those of `src/c/`.

## Inventory

| Component | State | Operations | Talks to |
|---|---|---|---|
| Compressor (`record_compress.cpp:238`) | window `q`, records of the block, lines read | write header; read a block of lines; per line choose a reference, record it, slide the window; append the block; pack the file | distance functions, matchers, block encoder, `compress_file` |
| Decompressor (`record_decompress.cpp:389`) | window `q`, position in the buffer, output | read header; decode a block; per record check the reference, recover the line, write it, slide the window | block decoder, recovery, `BitInBuffer` |
| Block format (`record_compress.cpp:42`, `record_decompress.cpp:40`) | the stream; the lists decoded so far | eight fields in a fixed order, each with its own presence condition, length and alignment | list codecs, bit buffers |
| List codecs (`ts_2diff.cpp`, `bit_packing.cpp`, `rle.cpp`) | none, but `ts2diff` moves the stream | encode, decode | bit buffers |
| Bit buffers (`bit_buffer.cpp:24`) | bytes, a register of unfinished bits, a read position | `encode`, `pack`, `length`, `write`, `decode`, `align` | the file system |
| Matchers (`qgram_match.cpp`, `variable_length_substitution.cpp`) | none | edits and their cost from two lines; a line from edits and a reference | |
| Secondary compression (`bit_buffer.cpp:657`) | the intermediate file, the final file | read, pack, write under a new name, remove | the file system, compression libraries |
| Packing and unpacking (`bit_buffer.cpp:62`, `:450`) | an output buffer, its size, how far it is filled | one call that packs, a call or a loop that unpacks | lzma, zlib, zstd, lz4, bzip2 |
| lz4 block format (`../lz4-1.9.4/lib/lz4hc.c:582`, `lz4.c:1961`) | up to three overlapping matches; read and write positions | search, choose, write a sequence; read a sequence | |
| Distances and choice (`distance.cpp`, `record_compress.cpp:289`) | a cache of MinHash signatures, a running minimum | a score for two lines, the nearest line of the window | matchers |
| Command line, directory helpers, experiment scripts, lz4's frame format and tool, headers of the other libraries | | | |

Both programs are sequential. What is hard here is not interleaving but
*agreement without communication* (two windows, one format, two readings of it)
and *what is left behind* when a run dies or a call fails:

- the windows must stay equal across raw and coded records, block boundaries
  and the moment they fill up;
- the presence, length and alignment of each field are decided twice, by
  different conditions;
- the end of the archive is recognised by running off its end, so that most
  errors of the decoder look like success;
- edits must be applicable in order, apart from each other and within the line;
- registers hold bits across calls of every width, buffers are moved while a
  library writes to them, and their sizes are guessed;
- what is remembered from line to line must not change what is chosen, and what
  is chosen must not matter for what is restored;
- the intermediate file survives a killed run and is the input of the next;
  the final file replaces an older one; results of `write`, `close` and `read`
  are not all looked at, nor whether the output could be written.

`PROJECT.json` lists 40 such places, each with the properties that watch it or
the reason why none does.

What makes each component correct: *pipeline*: what is restored is a prefix of
the file, all of it when the compressor finished, up to the first block the
format cannot carry; *format*: the decoder stands
at each field where the encoder wrote it; *buffers*: a stream is its fields, and
what is unpacked is what was packed; *choice*: the nearest line is found, and
any choice restores the line; *matchers*: recovery yields the line,
and the cost is what the edits take; *files*: a finished archive always exists
under one of its names, no archive mixes two runs, and no output has a hole.

## Modules

| Module | Models | Correspondence |
|---|---|---|
| `LineArchive` | the abstract promise: lines become durable in order, a closed archive hands them back in order | none; it is what the other two implement |
| `RecordPipeline` | both main loops | one action per step of a loop: `WriteHeader`, `ReadBlock`, `CompressLine`, `WriteBlock`; `ReadHeader`, `DecodeBlock`, `RecoverLine`, and `Misread` once a block has not read back. `cq` and `dq` are the two deques `q`, `records` the vector of the block, `archive` and `blockEnd` the blocks appended. `Crash` is the death of the compressor |
| `BitStream` | `BitOutBuffer::encode`/`pack`, `BitInBuffer::decode`/`align` | a stream is the sequence of calls made, `Laid` the bits they leave; `ByteBits` scales all widths (8 in the code) |
| `IntLists` | ts2diff, bit packing, run lengths | an operator per function; decoders return how they failed |
| `BlockCodec` | `byteArrayEncoding`, `byteArrayDecoding` and the loop that calls it | `AppendBlock` is a call of the encoder; the decoder is one action per field (`DecodeCounts` ... `DecodeRaws`), `cursor` the bits consumed, `stage` the field it is at or how it stopped |
| `QgramMatch`, `Substitution` | the two matchers | an operator per stage of the algorithm |
| `LineEdits` | a line through a matcher and back | `MatchQgram` or `MatchSubstitution`, then `ApplyEdit` per edit, then `CopyRest` |
| `BitRegister` | both bit buffers, register and bytes | `Encode`, `Pack`, `Write` (which clears) of the writer; `Read`, `Decode`, `Align` of the reader. `outBits`, `outCount`, `inBits`, `inCount` are `current_bits` and `bit_count` of each; `calls` is the same stream as `BitStream`'s |
| `ReferenceChoice` | the three distances, the signature cache, the loop over the window and the record that results | `ReadBlock`, `Compare` (one line of the window), `Choose`. `nearest` and `begin` are `min_distance` and its index. Distances are fractions; where the code's doubles may round two equal ones apart, both outcomes are steps |
| `Unpacking` | the calls that pack and the five ways `read` unpacks | `Pack`, `PackFails`; `Begin` and `LzmaCall` or `GzipCall` per turn of a loop; `ZstdCall`, `Lz4Call`, `Bzip2Call`; `Cut` shortens the file between the programs. A call of a library yields what space and input allow |
| `Lz4Hc` | `LZ4HC_compress_hashChain` and `LZ4_decompress_generic` with the arguments `bit_buffer.cpp` gives | an action per label of the compressor (`_Search2`, `_Search3`) and per alternative there; `DecodeSequence`. The hash chains are not modelled but what they are for: a search yields any wider match in reach, or none when its attempts are used up. The block is written with every match that is chosen (`Encode`) |
| `ArchiveFiles` | header and block writes, `compress_file`, `read`, and the output of the decompressor, from the file system's side | `WriteHeader`, `AppendBlock`, `BlocksDone`, `Pack`, `Open`, `Store`, `Remove`; `Kill` at any point. `Refuse` or `OpenOutput` on any of the names, `WriteItem`, `Finish`; `KillReader` at any point |
| `RecordPipeline_proofs`, `ArchiveFiles_proofs`, `Unpacking_proofs`, `Lz4Hc_proofs`, `BitRegister_proofs`, `BlockCodec_proofs` | proofs of the module of that name | |
| `BitStream_proofs` | lemmas on `BitStream` and on sequences, for the last two | |
| `Matchers_proofs` | proofs of `QgramMatch`, `Substitution`, `LineEdits` and `ReferenceChoice` | |

`BlockCodec` extends `IntLists`, which extends `BitStream`, as does
`BitRegister`, which shows the registers to be that stream. `LineEdits` and
`ReferenceChoice` extend both matchers. `RecordPipeline` takes the matchers and the distance as constant
operators with one assumption, that applying the edits of `Diff(s, t)` to `s`
gives `t`: `LineEdits` checks exactly that of the two real matchers, and
`ReferenceChoice` that the compressor's records keep it with the real distances
(`SubstitutionTurns`, `QgramTurns` and `RecordsRebuild` prove it for all lines).
`RecordPipeline` takes a block for the records in it if the format can carry it,
and only then: its `Carried` stands for `BlockCodec`'s `Carried` and `Numbered`,
for which `RoundTrips` proves that blocks read back as their records; since a
block is decoded without looking at what stands behind it, that is so of all that
are ahead of one which is not carried. What any other block reads back as is left open (`Misread`):
wrong lines, which enter the window too, then any end. Such blocks are no rarity:
the first block of a file has no coded record if it has only one line, and the
decoder then takes four bytes of zeros for text. So `RecordPipeline`'s properties
speak of the records ahead of the first such block (`Sure`) and, where they speak
of success or refusal, of archives without one (`AllReadBack`).
`ArchiveFiles` treats blocks as opaque items which read back in their place; a
block out of its place comes out as anything (`After`). A `Crash` of the
pipeline is a `Kill` there. Its `Store` and `OpenOutput` take packing and
unpacking for one step each: `Unpacking` is what happens inside, and `Lz4Hc`
inside one of its calls.

In the modules a definition marked *Slip* is a plausible mistake in the
definition after it; the checks replace one by the other to see that a property
notices. No specification uses them.

## Runs

### pipeline (`MCRecordPipeline`)
Lines are the numbers 0 to 3 and an edit list is a difference, so that patching
a wrong reference gives a wrong line or none; blocks of 3, a window of 2, a
header field that holds sizes below 4. A block is carried if two of its records
or more have edits, which is what `BlockCodec`'s `Carried` comes to for lists of
two edits each. All files of up to 4 lines, carried or not, one-line files
among them, and those of 5 to 7 lines whose first block is carried; out of step
the decompressor hands over up to two lines (`MaxMisread`): any line, and any
line that slides into the window behind it.
With these numbers there are files of zero lines, of part of a block, of an
exact multiple of the block size (an empty last block) and of three blocks;
files whose first, second or last block is the first that does not read back;
windows that fill up inside and between blocks; references that are too far,
tied, and dearer than the line. The compressor may be killed at any step.
- `WindowsAgree`: each program's window is the last lines it has processed; the
  decompressor's up to the first block that is not carried.
- `OutputIsPrefix`: up to that block what is restored is the file's beginning.
- `SuccessIsComplete`: if every block is carried, success means all that was
  written, and all of the file when the compressor finished.
- `RefusedOnlyWithoutHeader`: if every block is carried, only a missing header
  is refused; if not, what is ahead of the first that is not has been restored.
- `ImplementsArchive`: refinement of `LineArchive`, again up to that block.
- `EventuallyRestored`: every run of the decompressor ends, with the whole file
  if the compressor finished and every block is carried. Fairness: weak fairness
  of each program's steps. Both are loops that only wait for a disk; a killed
  compressor has no step to be fair to. Out of step the loop ends too, since the
  archive does: each block the decoder makes out takes some of it.

### codec (`MCBlockCodec`)
A byte of 2 bits, hence words of 8, lengths of 4, delta counts of 3 bits, and 4
values to a ts2diff block (64 in the code). The proportions are the code's, and
so is every boundary: fields that start inside a byte, several ts2diff blocks
in a list, widths that use up the register. All blocks of up to 4 records over
six kinds (no edit, one, two, three edits; an empty and a full raw line) that
the format can carry (`Carried`, `Numbered`), and blocks of up to 3 followed by another or
by the empty block.
- `InStep`: the decoder is, at every field, where the encoder put it.
- `RoundTrip`, `ImplementsArchive`: it returns the same records and then stops
  in success.
- `FitsRegister`: no field, wherever it starts, overflows the 32-bit register
  of `encode`; with it the stream is the concatenation of its fields, which is
  how `Laid` defines it.

- `uncarried` takes the blocks outside `Carried`: without coded records; in
  which no record has two positions; with a list that leaves one value for its
  last ts2diff block; with a packed field too long for its length field; and
  every block of up to 3 records that is not carried. `RoundTrip` is violated,
  and with `tlc -continue` by each of the 179 archives, so that `Carried` is not
  narrower than it need be. The first three have been seen with the built
  programs on inputs of a few lines.

### bits (`MCBitRegister`)
A byte of 4 bits (a register of 16), up to 4 calls of `encode` and `pack` with
fields from no bit to a whole register, values wider than their field among them,
written in one piece or several; the reader then decodes any widths, 0 and one
too wide included, and aligns anywhere. Four calls are enough for a field that
begins inside a byte and overflows the register, and for fields behind it.
- `StreamIsCalls`: bytes written, bytes waiting and register together are the
  fields in order while none overflows; and when one does, its bits are wrong
  but every later field is where it should be. This is what lets `BlockCodec`
  work with `Laid`.
- `DecodesFields`: `decode` returns the field after the bits already taken, and
  throws only if there are not as many.
- `AlignStays`: `align` ends on the next byte boundary, never past the end.

### choice (`MCReferenceChoice`)
Files of up to 4 lines over seven lines with the q-gram matcher and up to 3 over
five with the other, all three distances; a window and blocks of 2, q = 2, a
threshold of 3/4; three hash functions, few enough to collide. The lines are
shorter than a gram and than a signature's grams, multiples of each other
(equal cosines from unequal counts), and long enough to be worth coding.
- `ChoiceIsNearest`: at every step of the loop the minimum is the nearest line
  so far by distances computed afresh, hence whatever the cache holds.
- `CacheOfBlock`: the cache holds right signatures only, and of this block's
  lines and the window's: nothing else bounds it.
- `RecordsRebuildLines`: the records restore the lines, whichever way ties and
  rounding went.

### unpack (`MCUnpacking`)
Contents of up to 33 bytes, packed to any size up to 2 more, cut or not, and an
unsigned int of 32 values: the buffers double up to five times, and sizes cross
the range of an int and of an unsigned. The size of the packed bytes is narrowed
as well (`Shown`): a library is then told of a part of the file, which acts like
a cut.
- `SuccessIsContent`: what is returned as success is the content, without a
  hole, however often the buffer was moved (of a cut lz4 file, maybe a
  beginning: a block has no end mark). Its premise `SizesFit` says that no size
  is beyond its parameter (4 GiB, 2 GiB for lz4).
- `WholeIsUnpacked`: a whole file is refused only where the code guesses the
  buffer: lz4 above a ratio of 4, bzip2 above 10. Both are reached through the
  interface of the class only; the option parser accepts lzma, gzip and zstd.
- `Answers`: the loops end, on cut and empty files and on sizes that do not fit
  too. Fairness: weak fairness of packing and of unpacking, calls that return
  and loops that wait for nothing.

### lz4 (`MCLz4Hc`)
A token's half of 4 values (16 in the code) and a byte of 16, margins of 2 and
7 bytes at the end (5 and 12), matches up to 16 back; up to two searches that
give up. The decoder's buffer has every size from none at all to 9 bytes too
large: the archive's is four times the packed size, which for a well-packed
block is far below the content. Sources are repetitions, none,
and four found by search that between them reach every alternative of the
lookahead.
- `ParseRules`: the matches written follow each other, are long enough, copy the
  right bytes and keep clear of the end.
- `WithinBound`: the block fits `LZ4_compressBound`, which is why the compressor
  may run without looking at the end of the buffer.
- `DecodesToSource`: the decoder returns the source, in a buffer that just fits
  too, and refuses a whole block only if the source does not fit; from a block
  that was cut it returns a beginning of it, or an error. Both ways of copying a
  match are in the model, the one that keeps clear of the buffer's end and the
  shortcut, which does not look at it (`Shortcut`).
- `Terminates`: restoring a dropped match does not lead back to itself. Weak
  fairness of both loops.

While modelling: of the corrections to a third match, the one for a third that
does not begin behind the second is never reached; and the comment at
`lz4hc.c:630` ("ip1+3 <= ip2") does not hold, a distance of 2 occurs (seen with
the library itself). `ParseRules` shows that no harm comes of it.

### edits (`MCLineEdits`)
All pairs of lines of up to 4 characters over two letters or 3 over three, q =
2, search limit 3 as in the code; both matchers. q = 2 is the smallest with
padding. The operators were also compared with the compiled functions on all
pairs of short lines.
- `EditsInOrder`: edits are in order, apart and inside the line, on which both
  recovery and the format rely.
- `RecoversLine`: a prefix of the line at every edit, the line at the end.
- `CostIsPaid`: the cost by which a line is stored raw is that of the edits.

All three are of lines without the pad characters when q-grams are matched
(`Unpadded`). The lengths handed to `substr` are never negative, with pad
characters neither: a run starts behind the last gram of the one before it.

`pad_in_line` takes lines that contain the padding characters: `RecoversLine`
is violated.

### files (`MCArchiveFiles`)
Two blocks, three runs (`MaxRuns`), two failing calls (`MaxFaults`), one plain
and one packed extension. Three runs let a run start over the remains of one
that started over the remains of another; two faults let one go unnoticed and
one be reported in the same run. A run may be killed at every point: also
between the call that empties the file and the header, or in the middle of a
block. A file in which a block is missing or torn is read on, and what is out of
its place comes out as nothing or as something else, with or without an error.
- `StartsAnew`: a run's file holds its own parts and nothing of an earlier run.
- `WholeSomewhere`: from the last block on the complete archive is under the
  path or the path with its extension, wherever the run is killed.
- `SuccessIsStored`: a successful run leaves it, and only it.
- `ReplacedByWhole`: an older archive is replaced only when the new one is
  complete under the path.
- `RestoresOneRun`: decompression never mixes runs, nor do two decompressions
  over the same output.
- `OutputIsBeginning`: the output is at any time a beginning of what was
  decoded, whichever of its writes fail, and an older output survives a call
  that is refused. A failed write is still a success to the caller; what the
  code does promise is that nothing is written behind it.

The first five except runs in which a write failed and was taken for a success:
the code promises nothing then. The two faults also count a killed
decompressor. Deadlock is checked; nothing here stops for
good, since a file can always be decompressed again.

`readme_usage`: decompressing the path given to the compressor, as README.md
does, fails. `torn_archive`: a packed archive that was cut short can be
decompressed with success.

## Proofs

`RecordPipeline_proofs`, for every set of lines, file, window size, block size,
distance and matcher with the stated contract:
- `TypeCorrect`, with no further assumption;
- `WindowsInSync`, `RestoresPrefix`, `SuccessMeansComplete`, `NeverRefused`
  and `Implements`, if `WindowFits` (`window_size < 65536`). Without it the
  header names another window and the theorems are false. Each holds for every
  `Carried`, and says what its property says: of all that is ahead of the first
  block the format cannot carry, or of archives that have none. Nothing is
  claimed behind such a block, where the programs do disagree (`uncarried`).

The properties are not inductive: that the two windows are equal says nothing
of the records lying between them. The invariant has two parts. `Base` says
where the compressor and the decompressor are in the file, how block ends divide
the archive, and that the decompressor has come through carried blocks only,
until it is lost; it needs no assumption and gives `TypeCorrect`. `Meaning` adds
what an archived record *means*: record k, patched against the last lines before
line k, is line k (coded against the window the compressor had there), and hence
what has been restored. From it a step of the decompressor finds its reference
inside the window and produces the next line. `SureFacts` says where `Sure`
is: at the end of the blocks that read back, which is where a decompressor that
is lost has lost its place. `Implements`
maps each step to a step or a stutter of `LineArchive` with the invariant in
hand; what is restored beyond `Sure` is no part of the mapping.

`ArchiveFiles_proofs`, for any number of runs, blocks and faults:
- `AlwaysStartsAnew`, `AlwaysWholeSomewhere`, `SuccessAlwaysStored`,
  `AlwaysReplacedByWhole`. The invariant carries a run's archive from the path
  (`StartsAnew`) over the copy in memory (`PackedIsWhole`) to the final file
  (`StoredIsWhole`) before `Remove` may take the path away.
- `FilesTypeCorrect`, `OutputAlwaysBeginning`: until its stream fails the output
  is all that was handed to it (`InOutput`); after that it does not change.
- `AlwaysRestoresOneRun`: while nothing has failed, every file holds the
  beginning of one run's archive and at most one torn block behind it
  (`FilesOfOneRun`), so that decoding up to the tear yields that run's first
  blocks; what reaches the output is a beginning of that.

`Unpacking_proofs`, for contents and integers of every size:
- `SuccessIsAlwaysContent`, `WholeIsAlwaysUnpacked`, `UnpackingTypeCorrect`. The
  invariant says what the loops keep up between two calls of a library: the
  buffer holds exactly the bytes produced, from its beginning, and the space the
  library is told of is what is left (`Filled`), as long as sizes fit the 32-bit
  parameters; and a whole file that is shown to the library entire (`Entire`) still yields all
  that was told to be packed (`Yields`).

`Lz4Hc_proofs`, for every source, margins, distance and width of a token, and
for a decoder's buffer of every size up to any number of bytes beyond the content:
- `ParseAlwaysFollowsRules`. At each of the labels the pending matches are in a
  particular position to each other and to the last one written (`Main`, `Two`,
  `Three` in `Steering`), which every alternative of the lookahead, the
  restoring of a dropped match included, must hand on to the next.
- `BlockAlwaysWithinBound`, `AlwaysDecodesToSource`, `Lz4TypeCorrect`. The block
  is the sequences of the parse, one after the other at increasing cuts, each no
  longer than the bytes it stands for plus one per 255 (`Blocks`); the decoder
  stands at one of the cuts and has written what the sequences before it stand
  for, in a whole block or in one cut short (`Reader`), and a copy by the shortcut stays
  inside the buffer although nothing compares it with the end (`ShortcutFits`).
  That a sequence read
  back gives its literals and its match, also where the match overlaps the bytes
  it makes, are lemmas on `Sequence` and the decoder's operators.
  `BoundSlack >= 2` is assumed (16 in lz4): a last run needs a token and one more
  byte of length.

`Matchers_proofs`, for lines of any length over any characters, grams of any
length and any look-back:
- `SubstitutionTurns`, `QgramTurns`: the edits turn the reference into the line
  and no two of them touch (`Turns`). Both matchers are followed from the left:
  edits *make* the first y characters of the line of the first x of the
  reference (`Makes`), one more edit makes more, a copied stretch makes more.
  For the substitution matcher the table's cells are such pairs, each holding
  the edit that leads to it from its predecessor (`IsTable`), and merging an edit
  with the one it touches keeps what is made. For q-grams the matches taken are
  in order, so the runs they are merged to lie clear of each other
  (`Descending`), and a run of equal grams is a stretch of equal characters
  (`Fits`) when no character of the lines is a pad. Without that premise
  `QgramTurns` is false, as `pad_in_line` shows.

In the same module, of `LineEdits`, with the same generality:
- `Recovered`, `EditsAlwaysInOrder`, `EditsTyped`: recovery stands behind edit k with the part
  of the line the first k edits make.
- `Paid`: the cost of a cell is that of the edits on the way to it (`Priced`):
  a touching edit is free because merging drops its fee.

and of `ReferenceChoice`, for every file, window, block, threshold and hash:
- `Typed`, and `RecordsRebuild` if no line has a pad character or q-grams are
  not matched. The window holds the last of the lines coded (`Windowed`), so a
  record's `begin` is where the decompressor finds the same line
  (`ReferenceIs`); the rest is `Turns`. Nothing is assumed of the choice: any
  line of the window would do.
- `Cached`: both lines of a comparison are of the block or of the window before
  it (`ComparedOfBlock`).
- `Chosen`: with signatures or q-grams, what the loop has found is the first of
  the nearest, since the cache makes no difference (`CacheIsFresh`) and fractions
  are in order (`BelowIsNearer`). For the cosine it is model-checked only, with a
  window of two: the model lets equal values from different counts round either
  way at each comparison, which among three lines allows roundings that
  contradict each other.

`BitRegister_proofs`, for bytes of any even number of bits and any sequence of
calls, whose fields have at most a register's width (`FieldsAssumption`: no field
the compressor encodes is longer):
- `RegisterTypeCorrect`, `DecodesAlways`, `AlwaysAligns`. The reader's register
  is the number made of the bits of the file that end at its position
  (`InFile`). Numbers of bits side by side make the number of all of them
  (`ValJoins`), which is what fetching a byte and taking bits come down to; a
  round of `decode` keeps the result and the register so (`RoundKeeps`) and takes
  at least a byte or what remains, so four rounds are enough for a word and the
  fifth finds nothing left.
- `StreamAlwaysCalls`. By induction on the calls: each adds to bytes and register
  what `Laid` adds for it (`CallMore`), since a number shifted over a field is
  the bits of both (`BitsJoin`), the whole bytes of a register and what is left
  of it are the register (`WholeBits`), and a byte filled up is the register and
  zeros (`FilledUp`). That nothing is shifted out follows from where the call
  begins: the unfinished byte holds the stream's length modulo a byte
  (`ToNextByte`), and `RegisterHolds` bounds the rest (`ShiftedWhole`). The
  shift by a whole register, which is undefined, is harmless then, since nothing
  waits. The length grows as it should whether or not bits are lost.

`BlockCodec_proofs`, for bytes of any even number of bits, ts2diff blocks of any
even size a delta count can say, any bytes, lines and edits, and any set of
archives the format can carry (`CarriedArchives`):
- `RegisterFits`. Each field of a block is a *piece* (`Piece`, `FieldsArePieces`):
  it fills whole bytes, none of its fields overflows the register, and its bits
  are the same wherever it is put. So the blocks of an archive are pieces one
  after the other (`BlockIsPiece`), and the stream is theirs (`PieceJoin`).
- `KeepsStep`, `RoundTrips`, `Typed`. A piece found at a place (`Finds`) is read
  there as what was put, and the reader ends where it ends: one lemma for each
  way of writing a list (`DiffIsRead`, `PackIsRead`, `RleIsRead`), the counts and
  the texts. What is read are eight lists of the whole block; that cutting them
  by the sizes, adding up the steps and breaking the text at newlines gives the
  records back is `BlockIsMade`. The properties are not inductive: that the
  decoder is in step says nothing of the lists it holds. The invariant `CInv` says
  that the stream is the pieces of the blocks appended, that the blocks decoded
  are the first of them (`Done`), and where the decoder stands: at a block
  (`AtStart`), at the end (`AtEnd`), or in a block at the place of its field, with
  the lists before that field known as they were encoded (`AtMiddle`, `AtField`).
  There is a lemma for each field (`CountsStep` ... `RawsStep`).
- `Implements`: with `CInv`, appending a block and reading the last field of one
  are steps of `LineArchive`, the end of the run is its success, all else
  stutters.

`CarriedArchives` is a premise because without it the theorems are false: that is
what `uncarried` shows. Besides `Carried` it asks that the numbers of a block fit
what the code writes them with (`Numbered`): counts and values that are ints,
packed values and ts2diff steps no wider than the byte for their width can say
and the register takes. `MCBlockCodec` assumes it of its archives
(`MCCarriedAssumption`), so TLC evaluates it: the archives of the `codec` run
satisfy it, empty last blocks included.

Only model-checked: `EventuallyRestored`, `Answers` and `Terminates` (liveness
under fairness is out of TLAPS's reach), and `ChoiceIsNearest` for the cosine. The library's induction theorems cannot be
used, since they take an operator; where a proof needs induction it takes the
least counterexample instead (`LeastNatural`, `CountUp`), also to show that a
recursive function is what its equation says (`PatchedIs`, `TableIs`, `LaidIs`).

## Not modelled

- lzma, zlib, zstd and bzip2: the repository has their headers only. A whole
  file is taken to unpack to what went in.
- Of the vendored lz4, all that the programs do not call: the frame format and
  its checksum, the command line tool, tests, fast mode, the optimal parser,
  dictionaries, streaming, partial decoding. This and the libraries' headers are
  by far the most lines of the repository (`src/c` has less than a tenth of
  them), and why the map covers a small share of all lines although it covers
  most of `src/c`.
- Option parsing and the exceptions of bad options; `block_size <= 0` and
  `window_size <= 0`, which the assumptions exclude; an input file that does not
  exist, which reads as an empty one.
- Square roots and rounding of the cosine, beyond that two equal distances may
  compare either way; its counts as ints that could overflow.
- `hashFunction`, `flush` and the directory helpers of `utils.cpp`, which nothing
  calls.
- What a block the format cannot carry reads back as, beyond one step of
  `BlockCodec`: `RecordPipeline` takes it for anything. `ArchiveFiles` has carried
  blocks only.
- The newline the decompressor adds after a last line without one: lines are
  whole in the models, the character that ends them is below them.

## Plan

Order in which the modules were written; the behaviour the programs
exist for came first.
1. Done: `LineArchive`, `RecordPipeline` with its proofs; `BitStream`,
   `IntLists`, `BlockCodec`; `QgramMatch`, `Substitution`, `LineEdits`;
   `ArchiveFiles` with its proofs.
2. Done: `BitRegister`, `ReferenceChoice`, `Unpacking`, `Lz4Hc`; the
   decompressor's output in `ArchiveFiles`, with the rest of its proofs.
3. Done: proofs of `Unpacking`, `Lz4Hc`, both matchers, `LineEdits`,
   `ReferenceChoice` and `BitRegister`.
4. Done: proofs of `BlockCodec`, field by field, on lemmas about streams that
   `BitRegister_proofs` shares. Every safety property of a run is now stated by a
   theorem (`ChoiceIsNearest` for two of the three distances).
