# A verification of the core of Q

Q is a column store that runs inside a modified LuaJIT. Its data are vectors:
long columns cut into chunks of a fixed number of elements, evaluated lazily, a
chunk at a time. This project models the parts of Q that keep state and can go
wrong in ways tests hardly reach, checks them with TLC on small instances, and
proves with TLAPS, for every instance, the central invariants of the Lua state
hand-over, of the vector tables, of the parallel put and of the hash map that holds the
tables.

## The system

| component | state | operations | talks to |
|---|---|---|---|
| Lua state hand-over (`QJIT/GUTILS/src/lua_state.c`, `process_req.c`, `luajit.c`) | `g_L_status`, `g_webserver_interested`, `g_master_interested`, `g_master_halt` | acquire, release, nap, the requests Lua, SetMaster, HaltMaster, Halt | main thread and one or two HTTP server threads, through shared words |
| vector table and chunk table (`RUNTIME/VCTR/src`, called through `cVector.c` by `lVector.lua`) | `g_vctr_hmap` (a row per vector), `g_chnk_hmap` (a row per chunk), `g_vctr_uqid` | add, put1, putn, put_chunk, eov, memo, early_free, delete, kill | accounting, files |
| access to vectors | `num_readers`, `num_writers`, the mapping `X` | get_chunk, unget_chunk, get1, get_lma_read/write and their ungets | clients hold chunks across calls |
| copies of vectors | L1 (RAM) and L2 (a file) per chunk, one linear file (LMA) per vector | make_mem, drop_mem, l1_to_l2, unprefetch, chnks_to_lma, lma_to_chnks, set_lma, append | accounting, files |
| nn vectors | `nn_key`, `parent_key` | set_nn_vec, brk_nn_vec, new with nulls | deletion |
| accounting (`mod_mem_used.c`) | `g_mem_used`, `g_dsk_used`, their quotas, a lock | incr and decr of each | everything that allocates |
| sessions (`init_session.c`, `clean_hmap.c`, `lgutils.c`, `save.lua`, `init.lua`) | the frozen tables and `q_meta.lua` on disk | start, save, restore, import a tablespace | both tables, all files of vectors |
| lazy evaluation (`lVector.lua`) | generators, siblings | get_chunk, eval, conjoin | operators call it, it calls them |
| operators (`OPERATORS/*/lua/expander_*.lua`) | closures: `l_chunk_num`, for unique a chunk held between calls | generators | get and unget chunks of their inputs |
| reducers (`Reducer.lua`, `F_TO_S`) | an accumulator, `_is_eor` | next, eval | get and unget chunks |
| hash maps (`TMPL_FIX_HASHMAP`) | buckets with probe lengths | put, get, del, merge, resize, freeze, unfreeze, chk | hold the two tables |
| aggregating hash map (`HASHMAP`) | buckets with hashes, aggregates and probe lengths; the arrays of a batch | mput (two parallel regions and a loop), put, get, del, resize, chk | threads of OpenMP |
| ML, graphs, CLI, utilities | none of their own | applications | vectors |

What is hard:

* **interleavings**: threads exist around the Lua state and inside `hmap_mput`; and a
  client holds chunks and linear files across any number of other calls, so its
  steps interleave with memo, deletion, dropping of copies and conversion;
* **partial failure**: most operations change several things and stop at the first
  error (`go_BYE`) without undoing anything;
* **stale copies**: three copies of the same elements, each backing the others;
* **limits**: quotas, memo length, lives of chunks, the last chunk of a vector;
* **restart**: a save is many files written one after the other, and restoring
  deletes files before it knows that it will succeed;
* **re-entrance**: a generator runs other generators, and conjoined vectors each
  other's, in the middle of making a chunk.

What makes each part correct, in short: one owner of `L` at a time and no server
starved; the chunk table is exactly what the vector table says; whoever reads a
chunk keeps it; readers or one writer; the copy one is given is current, and there
always is one; the accounts are exact; nn ties are mutual; what was saved is there
after any crash; a vector evaluated in pieces, in any order, is what its expression
means; the hash map is a map, and an aggregate has each value once, whichever threads
put it. The hazards, each at its
line, are in `PROJECT.json`.

## Modules

`LuaState` models the hand-over. Every shared word is a variable of that name, the
program counters `mpc` and `spc` say where the main thread (`main`, `pmain`,
`dotty`) and each server (`process_req`) are, and a step is one access to a shared
word. A failed compare-and-swap changes nothing and is no step. Both places where
an owner returns without releasing are there: end of input in `dotty`, and
`mkstemp` failing in `process_req`.

`VctrBase` has the state of the vectors: the two tables as sets of keys
(`vctrs`, `chnks`) and functions to rows, the files (`l2`, `lma`), the two accounts,
and the client's side (`held`, `lma_held`): what it got and has not given back. The
rows keep the fields of `vctr_meta_t` and `chnk_rs_hmap_val_t` that decide anything.
Values of elements are abstracted to whether a copy has the current one: a copy is
a set of slots. All vectors have chunks of the same size, all types are of one of
three kinds (`BL`, which an nn vector must be; `SC`, which `vctr_get1_lma` cannot
read; any other). The variable `half_deleted` remembers on which vectors
`vctr_del()` failed half way; the properties speak of the others.

| module | models | source |
|---|---|---|
| `VctrGrow` | creation, puts, eov, memo, early free | `vctr_add.c`, `vctr_put*.c`, `vctr_eov.c`, `vctr_memo.c`, `vctr_early_free.c`, `chnk_first.c`, `chnk_del.c` |
| `VctrAccess` | chunks, elements and linear files got and given back | `vctr_get_chunk.c`, `vctr_get1.c`, `vctr_lma_access.c`, `chnk_get_data.c` |
| `VctrTier` | L1, L2 and LMA made, dropped, converted, appended to | `chnk_drop_mem.c`, `chnk_make_mem.c`, `vctr_l1_to_l2.c`, `vctr_chnks_to_lma.c`, `vctr_lma_to_chnks.c`, `vctr_set_lma.c`, `vctr_append.c` |
| `VctrLife` | attributes, nn vectors, deletion | `vctr_persist.c`, `vctr_kill.c`, `vctr_nn_get_set.c`, `vctr_del.c`, `lVector.lua` |
| `Vctr` | all of them together, and the properties | |

Q calls these functions from one thread, so an operation is one step, with all it
does: the deletes memo makes inside a put, the drops inside `get_lma_write`, what a
loop got through before it failed (`Run` in `VctrBase` is the stretch of a loop up to
the first bad index). A call that fails before it changes anything is no step. A
call that fails half way is a step, with what it had changed by then: memo failing
after a put, `early_free` meeting a chunk with readers, `make_mem(2)` of a chunk that
is only in the linear file, `chnks_to_lma` of incomplete chunks, `vctr_del`.

The clients do what `lVector.lua` lets them: any operation in any order; giving back
only what they hold; reading on through a linear file until they are given no
elements; `early_free` of any chunk up to the most recent. Two habits are
parameters: `EarlyBackup`, whether L2 copies are made of chunks that are still being
filled (which the code does not survive, see Disagreements), and `MayFail`, whether a vector is ever marked as in
error, which only `vctr_persist` and `set_early_freeable` look at (on in `vctr_grow`
and `vctr_free`). A third parameter, `FilesFail`, is whether `vctr_set_lma` may fail at
the file, by when the disk is counted and the file perhaps renamed
(`vctr_set_lma.c:53-64`; on in `vctr_access`; the theorems of
`SessionProofs` are for both). That the client may name more elements than
the file has, which line 64 lets pass, is left out. The number of a vector that
`vctr_add` fails to make is not given again, and a failing `vctr_add` is a step for that
reason.

`VctrStolen` adds to `Vctr` a history variable, `stolen`, which counts the buffers that
`vctr_put_chunk` took over, and states `MemWithin` with it. `MCVctr` has the constraint of
`vctr_grow`.

`RsHmap` models the hash map that holds both tables: the four fields of its struct
that change (`size`, `nitems`, the hash that `hashkey` selects, `bkts`), and each
function of `TMPL_FIX_HASHMAP/src` as an operator of its name on such a table; a
`for (;;)` is `Loop` of one round of it. Any hash may follow any other when a resize
draws a new key. `HMap` is what callers think of: a function from keys to values,
with put, del and merge; `ImplementsMap` says that `RsHmap`, with `Contents` for the
function, implements it. A merge draws one of those hashes for each of its puts that
resizes. `VctrBase` uses such functions for the tables. Values are
replaced by a second put, as `rsx_val_update` of both tables does. `MCRsHmap` has the
constants. `HashUtil` has what the two maps share: loops, percentages, `prime_geq`.

`HmapMput` models the other map, `HASHMAP`, whose buckets also keep hashes and whose
second put updates an aggregate. `hmap_mput` copies `hashkey` and `divinfo`, and takes
a batch of `num_at_once` keys at a time. `pc` says which of its three parts it is in:
`look` (the parallel loop: every key is looked up by some thread, in any order),
`update` (the parallel region: each thread updates, in order, the keys found whose
hash is its number modulo `nP`; the read of an aggregate and the write are two steps,
with `reg` between them) and `insert` (the sequential loop over the keys not found,
each a whole `hmap_put` with the hash and place of its lookup). The ends of the
regions are barriers, steps of their own. `m` is the arrays of `hmap_multi_t`. As in
the code, 0 in a `dbg_t` stands for not computed. The lookup of a later batch divides
by the present size with the old `divinfo`; where the result is no bucket the code
reads beyond the array, and the behaviour ends in `undefined` (`LookOutside`).
`want` counts what was put for each key, for the properties. `MCHmapMput` has the
inputs.

`Session` extends `Vctr` with processes: `Q.save()` (`save.lua`) vector by vector,
`save_session` table by table, crashes, and starting (`read_configs.c`,
`init_session.c`, `clean_hmap.c`, `vctr_usage.c`, `init.lua`). What survives a crash
are the files of vectors, the variables `vctr_file` and `chnk_file` (each three
files, "torn" when they are not of one save) and `q_meta`. While a process is up its
client does any step of `Vctr`. A restored uqid's files keep their elements; those of
files nobody owns are nobody's (`Disowned`), so that a vector that is given them has
wrong data. `Careful` keeps the client off three habits the code does not survive
(`CarefulClient`): removing a file of a persisted vector, having a chunk read from a
file that an earlier vector left, and deleting a vector while one of its chunks is
read. A save passes over the vectors `save.lua` passes over, and may pass over any other
(`SaveSkip`): line 47 goes by whether a vector still has a generator, which is
a matter of Lua that `Vctr` does not follow. `whole` says that the last save came to its end, in a session that was clean and
had no vector half deleted; only such a save promises anything.

`LVector` models evaluation. There is one Lua state, so what is under way is a stack
of calls, the variable `stack`; a step runs the function on top to its next
`get_chunk` or its return. `get_chunk` has its three parts (the chunk is there, or is
generated and put, or the siblings are asked), the operators are their generators,
and `gen` holds the variables of their closures, shared by the two vectors of split
and of unique. Elements are what they were computed from, so `Meaning` can say what
each vector should hold without chunks and calls. A failing assert ends the
behaviour with `failed`. The C loop of unique (`unique.tmpl`) is a fold. `MCLVector`
has an expression in which a memoised source feeds a map and a zip that are
conjoined; one feeds split and unique, the other a reducer.

## Runs

| run | instance | shows |
|---|---|---|
| `luastate_ops` | master, a server for the web and one out of band, fair (2,580 states) | `OwnersExclude`: one owner at a time, named by the word, no release fails; `ServersNotStarved`: the nap lets a waiting server in |
| `vctr_grow` | one vector, 3 chunks of 2, memo 0 to 2, lives 0 and 1, no readers; or three of one element (24,965 states) | `ChnksMatchVctrs`, `MemoBound`, `MemExact`, `DskExact`, `NnMutual` |
| `vctr_access` | one vector, 2 chunks of 2, 2 readers of each, files that fail (627,150 states) | `LmaAccess`, `WriterHasOnlyCopy`, `CopiesCurrent`, `DataHeld` |
| `vctr_free` | one vector, 3 chunks of 2, a reader, lives, buffers stolen or not, no disk (365,981 states) | `ChnksMatchVctrs`, `ElemsMatchChnks`, `LivesAscend`, `MemWithin`, `ReadersProtect` |
| `rshmap_ops` | four keys, all hashes onto first and last bucket, 3 to 7 buckets, merges of two pairs (459 states) | `ImplementsMap`, `RobinHood`, `GetAgrees`, `ChkPasses` |
| `session_ops` | two vectors of one element, one reader of each, five calls, three processes, crashes anywhere (1.4 million states) | `SavedOnDisk`, `RestoreSucceeds`, `RestoredSound`, `RestoredAsSaved` |
| `lvector_ops` | seven vectors, six inputs of 1 to 5 elements in chunks of 2, one chunk held | `ValuesRight`, `NoneMissing`, `NeverFails`, `ReadersReturned`, `InStep`, `CallsReturn` |
| `hmap_mput` | two threads, three keys, two batches of at most two, three calls, growth from 3 to 7 buckets | `OneThreadPerBucket`, `IdxsCurrent`, `AggregatesExactUnlessGrown`, `ChkPasses`, `MputReturns` |

**Bounds.** Three chunks are the fewest with a first, a middle and a last one, so
that memo and early free can leave a hole; chunks of two elements the smallest that
can be empty, half full and full; two readers the fewest of which one can leave
first. No operation looks at more than two vectors, and a tie takes two, so three
vectors let a tie be attempted with a third. Ties do not look at memo, lives or copies:
the constraint `OneOrThree` of `vctr_grow` follows one vector in full, and beside a
second one only vectors of one element with none of these. The constraint
`LongLeftover` of `vctr_access` ends a behaviour where a failing `vctr_set_lma` has left the
account of the disk wrong, which none of the properties of that run reads, or a file shorter
than the longest; after one that leaves a counted file of the longest size
everything may follow. `MemAllowed` and `DskAllowed`
are wide enough not to be hit, except where they keep linear files out (`DskAllowed` = 0
in `vctr_free`). With memo and readers together `ChnksMatchVctrs` fails
(see Disagreements), so `vctr_grow` has the one and `vctr_free` the other. `MemExact`
is checked with buffers that are not stolen: `vctr_put_chunk` does not count the memory of
one that is, and it is taken off later all the same. `MemWithin` is what is left of it with
such buffers, which are the usual ones: never too much, and too little by at most the
buffers given away.
`DskExact` and the counters in `TypeOK` are the unsigned ones of the code: a
decrement below zero would leave `Nat`.

In `rshmap_ops` the water marks are closer together than in `rs_hmap_common.h` (58,
59 and 60 percent for 20, 60 and 85), so that four keys make the map grow, refuse to
grow at its maximum and shrink; the hashes 0 and 1154 are the first and the last
bucket at each of the three sizes, so keys collide and probes wrap round. The keys
are symmetric, and only safety is checked with symmetry. In `session_ops` two
vectors are a vector with its nn vector, or one that is saved and one that is not;
three processes are the fewest in which a session that was restored is saved and
restored again; without readers and with six calls (2.6 million states) TLC finds
nothing either, nor for `SavedOnDisk` and `RestoreSucceeds` with one vector of two
chunks, a reader, seven calls, two processes and `Tears` off (551 thousand states), where
a deletion can leave one chunk of a vector and not the other. In
`lvector_ops` the inputs have runs that end with a chunk and runs that do not, and
lengths that are a multiple of the chunk size and not; three chunks let a chunk be
asked for that is behind, at or beyond the last one.

`luastate_ops` has the two servers a process can start, for the web and out of band. They
share the interest word and write the same value into `g_L_status`, so that a release
could undo the other's acquisition. `ServersNotStarved` says that as long as the word is
raised and a server is waiting, some server gets `L`; nothing is promised to a server that
waits with the word down, since the code has no such promise (see Disagreements).

In `hmap_mput` batches of two are the smallest in which a key occurs twice, or a new
key beside a known one; inputs of three make a second, shorter batch; two threads
can have the same bucket if the division of keys is wrong. The third key makes the
map grow, by a put between calls or inside `hmap_mput`, with the high water mark at
50 percent for 85. The hashes 2 and 3 fall on the last and the first of three
buckets, so keys collide and probes wrap round. `hmap_del` shrinks the map only above
the minimum size, which three keys never reach; shrinking is checked in `rshmap_ops`.
`TeamSize`, the threads OpenMP gives a region that asks for no number, is `NumProcs`
here; see Disagreements.

**Deadlock** is checked in `rshmap_ops` and in `lvector_ops`, where it says that a
call always has a next step. It is not in the others: the main program ends, a
client may stop, and every counter is bounded.

**Fairness** (`luastate_ops`): the operating system runs the main
thread and every server that can run (`WF` of their steps). Nothing is assumed of
the script, of the console (`Loadline` may wait for ever, which `ServersNotStarved`
allows for) or of the arrival of requests. `DottyNap` contains one assumption about
time: the master naps 50 ms, a waiting server tries every 10 ms, so the nap does not
end while an attempt of a server would succeed. The model is sequentially
consistent; the atomics of `lua_state.c` are relaxed, which suffices for the word
but says nothing about what is in `L`.

`CallsReturn` (`lvector_ops`) assumes only that the one thread goes on with the call
it is in (`WF` of `Run`); nothing is assumed of the client. `MputReturns`
(`hmap_mput`) assumes that OpenMP runs every thread of a team to the end of its region
(`WF` of `MputSteps`), and nothing of their order.

**Disagreements.** Four runs show a line of the repository that the code does not
keep; `PROJECT.json` quotes the line in each case.

* `vctr_v_readers`: a client gets chunk 0, the vector ends, `chnks_to_lma` makes its linear
  file, a client reads that (one reader, counted on the vector) and the chunk is given back.
  `vctr_unget_chunk` goes by `is_lma` as it is now: it takes the reader off the vector, the
  count goes to 0, the file is unmapped under its reader and a writer may have it
  (`LmaReadersCounted`). `VctrLmaReadersCounted` says that the property holds unless a
  linear file is made or dropped while something of the vector is held.
* `hmap_v_resize`: a batch has two new keys; the put of the first makes the map grow,
  and `hmap_resize` draws a new `hashkey`. The second is put with the hash and the
  bucket computed before that, and `hmap_get` does not find it. The tests of
  `hmap_mput` make the map large enough never to grow. `AggregatesExactUnlessGrown`
  says that this is the only way to lose a value.
* `session_v_stale`: a vector is written to files, the process crashes before any
  save, `restore_session` is set. `init_session` finds no saved tables and starts a
  new session with uqids from 1, but `read_configs` has not emptied the data
  directory. A new vector 1 with a linear file is asked for RAM copies
  (`make_mem(1)`), and `chnk_make_mem` takes the old file of that name.
* `lvector_v_unique`: the distinct values fill their last chunk exactly. unique
  returns it without counting it in `l_chunk_num`, the vector is not ended because
  the chunk is full, and the next call fails its assert: neither vector of such a
  unique can be evaluated.

Others were met in the source and are part of the models, without a run of their
own: with two servers the shared interest word is lowered while one still waits
(`process_req.c:161`, against `qjit_globals.h:16`, "0 => webserver is NOT interested in
acquiring Lua state"; the master then does not nap for it), and the script of `pmain` runs without owning `L`
(`luajit.c:600`); when `mkstemp` fails `process_req` returns with `L` owned, and the
master waits for it for ever instead of seeing `g_master_halt` (`process_req.c:85`,
against `qjit_globals.h:19`, "set to 1 => master will quit"); `drop_mem(3)` removes a linear file in use (`vctr_drop_mem.c:40`,
against `vctr_chk.c:222`); reading past the end of a linear file counts a reader
nobody gives back (`vctr_get_chunk.c:159`, against `lVector.lua:714`), which is why
`LmaReadersCounted` is an inequality; a `vctr_set_lma` that fails at its file leaves the
disk counted (`vctr_set_lma.c:53`), which is why `DskExact` is checked without `FilesFail`;
append adds elements and no chunks
(`vctr_append.c:65`, against `vctr_chk.c:193`), which is why `ElemsMatchChnks` is
checked without linear files; `early_free` deletes the most recent chunk if asked
(`vctr_early_free.c:45`, against the comment on line 44) and moves `min_chnk_idx`
without memo (against `vctr_chk.c:295`); L1 and L2 may both be dropped when there is
a linear file (`chnk_drop_mem.c:50`, against `DOC/mem_mgr_thread.txt:1`); a persistent
vector may be made early freeable (`vctr_get_set.c:203`) and an empty one persistent
(`vctr_persist.c:28`), against `vctr_chk.c:199` and `:183`.

Of vectors, further:

* put, get_chunk, puts until the chunk ages out: `vctr_memo` cannot delete it and
  moves `min_chnk_idx` past it, so nobody will (`vctr_memo.c:80`, against
  `vctr_chk.c:47`);
* get_chunk, eov, chnks_to_lma, unget_chunk: with no reader of the linear file the last
  call fails (`vctr_chnks_to_lma.c:95`, against `lVector.lua:546`), and the chunk keeps
  its reader for ever; with one, see `vctr_v_readers`;
* put1, make_mem(2), put1, drop_mem(1) loses the second element: an L2 made too early
  is good enough for `chnk_drop_mem.c:50` (against the comment on line 51);
* delete of a vector with nulls: `vctr_del` passes a variable that is always 0 and
  the nn vector stays (`vctr_del.c:134`, against `lVector.lua:874`);
* `incr_mem_used` loses its status, so the quota stops the counter and not the
  allocation (`mod_mem_used.c:65`, against `qjit_globals.h:36`).

Of the hash map: `rs_hmap_get` compares keys before it asks whether the bucket is
full, so an absent key of all zeroes is found (`rs_hmap_get.c:42`, against line 51;
uqids start at 1); `prime_geq` tests `n % 0x1` and never returns `n` itself
(`aux.c:29`, against the comment above it); the maximum size is tested before the
size is rounded up (`calc_new_size.c:35`); at the maximum a put of a key that is
already there fails too; merging a map into itself may free what it reads;
`read_configs.lua:80` asks of a minimum size only that it be positive, and with one of
3, say, four buckets take four keys before the map grows, so that looking up a fifth
goes once round and fails (`rs_hmap_get.c` gives -1, `rs_hmap_del.c` too); the
test of the maximum beside it compares the name of a type with a number
(`read_configs.lua:82`), so that a configuration with a maximum is refused by an error.

Of the aggregating map, after `hmap_mput` has grown it: the lookups of later batches
use the old `divinfo` with the new size and may read outside the buckets
(`hmap_mput.c:163`); a key may then be there twice, under two hashes, and the next
resize, which counts it once, fails (`hmap_resize.c:42`). Always: a second parallel
region without `num_threads` may get fewer threads than `nP`, by which the keys were
divided, and the updates of the numbers that are missing are left out without an
error (`hmap_mput.c:220`); `tids` has 8 bits, so that with more than 128 processors
some numbers are negative and belong to nobody; a hash of 0, which `fasthash32` may
give, means not computed and `hmap_chk` rejects it (`hmap_chk.c:66`); the growth step
and water marks of the configuration are stored and not used.

Of sessions: a vector that was not persisted but is another's nn vector survives
`clean_hmap` when it is visited before its parent (against `clean_hmap.c:7`), which
is why `RestoredAsSaved` makes that exception; without the chunk table restoring
fails instead of starting anew (against `init_session.c:51`); a restore deletes the
files of vectors that were not persisted while the saved tables still name them, so
the next restore, without a save in between, fails (`clean_hmap.c:41`, against
`src/RUNTIME/VCTR/test/manual_test_1.txt:5`), and so it does after a normal end of the process, whose
garbage collection deletes the same files; `drop_mem(2)` or `get_lma_write` on a
persisted vector after a save makes the next restore fail as a whole
(`vctr_usage.c:66`); a missing linear file has size -1 and passes
(`vctr_usage.c:39`); a saved reader of a linear file makes `clean_hmap` fail
(`vctr_del.c:78`); a vector deleted while one of its chunks is read is left half
deleted (`vctr_del.c:112`), and the next save writes its row with chunks missing, and
if it was saved before, `get_lma_write` stops at the missing chunk after making its
files stale. `RestoreSucceeds` is therefore of saves that reached every vector, and
both it and `SavedOnDisk` of saves of whole vectors and of careful clients.

Of evaluation: when the length is a multiple of the chunk size, `get_chunk` returns
before it looks at the siblings, and a conjoined sibling is not ended
(`lVector.lua:614`, against `DOC/Q_PAPER/conjoin.lua:5`), which `InStep` allows for; a
consumer that lags behind a memoised vector is given 0 for a dropped chunk, takes it
for the end and is truncated without an error (`lVector.lua:671`), so that the
memoised vector of the model is only read by operators that keep up; a client that
holds a chunk of a memoised vector makes its next put fail; conjoining a vector with
its own input re-enters its generator; `expander_where.lua` calls `early_free()`
without the number that `lVector:early_free` asserts, so Q.where always raises and is
left out; the check of siblings under `qcfg.debug` uses a variable that does not
exist (`lVector.lua:645`).

Of tablespaces, which are not modelled: the test for duplicate names compares the
names already there and not the new one (`import_tbsp.c:52`, against lines 21 to 23), and a
slot stays taken when reading the tables fails.

## Proofs

All are for every value of the constants that satisfies the named assumptions of the
modules. Those of `Vctr` are `BoundsAssumption` and `InputsAssumption`: the bounds are
natural numbers (chunks of at least one element), the inputs are of the types
`vctr_add()` takes; that of `HmapMput` says that its sizes and numbers of threads are
positive and its inputs are sequences of keys that are not empty. Those of `RsHmap` are
`ConfigAssumption` (marks between 1 and 99 percent, the low one not above the high one)
and `RoomAssumption`, on which see below. Nine theorems about the
vectors and two about `RsHmap` have a hypothesis of their own, named below; what the
code does without it is among the Disagreements. Those about the hash maps have one that
is arithmetic, `SizesExist`.

`LuaStateProofs`:

* `LuaStateTypeOK` and `LuaStateOwnersExclude`, for any set of servers.
  `OwnersExclude` is inductive with the types: it says not only that two owners exclude
  each other but that `g_L_status` names the one there is, which is what makes a
  compare-and-swap from 0 safe.

`VctrProofs`:

* `VctrTypeOK`, for all 36 operations of `Vctr`. `TypeOK` is inductive by itself.
  What has to be argued is that no unsigned counter goes below zero (readers, lives,
  elements, both accounts) and that chunk indices computed by division stay indices; a
  lemma per operation, and lemmas on the accounts (`Accounts`), on loops that end early
  (`RunInOk`) and on deletion (`DelTypes`) that they share.
* `VctrLmaAccess`, that a linear file has readers or one writer, and is mapped exactly
  while it has. It is inductive given `TypeOK`: a statement about each row
  (`AccessOfRows`); most operations leave the three fields of every remaining row as
  they are (`SameAccess`, `TableAccess`, `SameRowAccess`); those that change them are
  the steps of `CountAccess`.
* `VctrNnMutual`, that a vector and its nn vector name each other. It is inductive with
  `UqidsGiven` (every uqid in the table is at most `g_vctr_uqid`): a new vector takes the
  next uqid, which must not be one that a tie names already.

`VctrCopyProofs`, first part: that no operation drops the last copy of a chunk. The inductive invariant is `CopyInv`, with two of the checked properties as
conjuncts, `WriterHasOnlyCopy` and `DataHeld`. What these need is

* `KeysReached`: chunks and L2 files are of uqids given out and of indices the vector
  has reached, so that a new chunk lands neither on an old one nor on an old file;
* `FilesKnown`: a chunk's row says that there is an L2 exactly when its file is full,
  so that the code, which looks at the row, decides by what is on disk;
* `RowsOk`: `max_chnk_idx` of a vector that has not ended follows from its elements,
  `min_chnk_idx` is 0 without memo and early free, and only a vector that has ended
  has a linear file;
* `LmaWhole`: a vector with a linear file has all the chunks its row speaks of, so the
  loops of `chnks_to_lma` and `get_lma_write` meet every one.

After lemmas on keys, rows and deletion there is one lemma per operation, and three
theorems: `VctrWriterHasOnlyCopy`, `VctrDataHeld`, and

* `VctrReadersProtect`, the action property that no step takes a chunk with readers out
  of the table or takes elements from it. The operations that remove chunks are memo,
  early free and the deletions, and each looks at `num_readers`, a loop of them chunk by
  chunk before it fails; that a put takes nothing from the chunk it goes on to fill
  follows from `CopyInv`.

`VctrCopyProofs`, second part: what the copies hold. The inductive invariant `DataInv` says of
every chunk, beside what `CopiesCurrent` says of it, that if its vector has not ended
then it has the elements the row accounts for, and no L2 before it is full
(`OpenFit`): otherwise a put would write at the wrong slot, or leave an L2 behind.
It is inductive given `TypeOK` and `CopyInv`.

* `VctrCopiesCurrent`: `CopiesCurrent`, if `EarlyBackup` is FALSE, as it is in every run.
  With it the put after a backup leaves the file behind the RAM (see Disagreements).
* `VctrElemsMatchChnks`: `ElemsMatchChnks`, for behaviours without `Append`, which adds
  elements and no chunks (see Disagreements).

`VctrRangeProofs`: which chunks a vector has, and who reads them. The inductive invariant
of the first three theorems is `RangeInv`, given `TypeOK` and `CopyInv`: the chunks of a
vector that is not half deleted are those of `min_chnk_idx` to `max_chnk_idx`; none is
before that range; a memoised range is no longer than `memo_len`; the lives of chunks
ascend and are at most those of a new one; and until the vector ends each has a copy of
its own, since `early_free` passes over a chunk without one. It also speaks of vectors a
deletion has left half done: the next deletion must find the chunks that are left.

* `VctrChnksMatchVctrs`, `VctrLivesAscend` and `VctrMemoBound`, for behaviours of which no
  step is `AgesInUse`: the range of a vector moves past a chunk that is being read. Only
  `vctr_memo` can do this; it leaves the chunk in the table for ever (see Disagreements),
  and early free and deletion may go on around it.
* `VctrLmaReadersCounted`: every read of a linear file that a client has yet to give back is
  counted on the vector, in behaviours of which no step is `MovesInUse`: a linear file is made
  or dropped while a client holds some of its vector (see `vctr_v_readers`).
  Nothing else is assumed: readers of chunks may meet memo, early free and deletion,
  writers may come and go. The inductive invariant `ReadersInv` says of a vector with a
  linear file that all that is held of it is counted on it, of one without that what is held
  of each chunk is counted on the chunk, and that nothing is held or counted where there is
  no chunk or no vector yet.

`VctrRangeProofs`, second part: the two accounts. `incr_mem_used` and `incr_dsk_used`
leave the counter alone when it would pass the quota and nobody learns of it, so each
theorem supposes that there is room in every state.

* `VctrMemWithin`: `MemWithin`, whatever buffers are given away, if there is always room
  for the chunks of one more vector (`MemRoom`), as no step makes more. A step that
  stops half way has counted what it did: the loops are followed as the set of chunks
  that were reached. A put of a stealable buffer is the only step that leaves the account
  short (`Short`), by one chunk; every other keeps the distance or lessens it.
* `VctrMemExact`: so `MemExact` holds for as long as no buffer was given away (`stolen = 0`),
  with the same `MemRoom`.
* `VctrDskExact`: `DskExact`, if there is always room for the elements of one more
  vector (`DskRoom`) and no `vctr_set_lma` fails at its file (`FilesFail`).
  Two invariants are needed beside those above. `WholeInv`: a vector
  without memo and early free has its chunks from 0 to `max_chnk_idx`, so that
  `chnks_to_lma` does not fail after making and counting its file. `SizedInv`: a linear
  file has the size of its vector's elements and there is none without `is_lma` (but one that a failing `vctr_set_lma` left), so that
  making one, which counts by `num_elements`, replaces no file that is counted, and
  `vctr_append` and deletion, which count by the size of the file, agree with it.
  `DskExact` says nothing while a vector is half deleted: its files go one by one and
  its row still speaks of all.

`SessionProofs`: what a restart brings back.

* `SessionRestoredAsSaved`: `RestoredAsSaved`, for all behaviours of calls, saves, crashes
  and starts, those where a crash tears the saved tables included. First the types
  (`SessionTypeInv`): a table that was saved whole is well typed (`SavedTypes`), so that a
  session that starts from it is, and `TypeOK` of `Vctr` holds in every session. Then the
  inductive invariant `CleanInv` of `clean_hmap()`, while it is under way: the vectors in
  the table are among the saved ones, as long as these; the persisted ones are all there;
  any other was an nn vector or has yet to be deleted; and nobody reads a chunk. The last
  is why a deletion that succeeds takes the vector as a whole and no other
  (`CleanDelEffect`), and leaves nn vectors alone, whose parent it may come to later.
* `SessionSavedOnDisk`: `SavedOnDisk`, for careful clients (`Careful`) that back up no
  vector that still grows (`EarlyBackup`), with any readers, crashes and restores.
  The invariant has three parts. `UpInv` holds of a session that began new: what is
  proved of `Vctr`'s tables in `VctrRangeProofs` and `VctrCopyProofs`, and that a file
  is complete when its flag says so. `SavingInv`, while a save is under way, says of
  every vector that was reached that it is persisted and all on disk. `WholeSaved`,
  from the end of the save on, says of each saved row that its files hold what it
  names, and that a running session still has the vector as it was saved or has let
  it go, which for a persisted vector leaves the files. The long part is that
  each operation a careful client may call leaves a persisted vector its chunks and the
  files it has (`Lasts`), or deletes its rows and leaves the files (`Goes`).
* `SessionRestoreSucceeds`: `RestoreSucceeds`, under the same conditions: a save that
  reached every vector leaves nothing for `clean_hmap()` to delete, and `vctr_usage()`
  finds each file it looks for (`AllRestorable`).

Both are of saves made in sessions that began new; these are then restored as often
as one likes. The variable `restored`, declared in `SessionProofs`, remembers whether
the present session came from tables, and the hypothesis is that such a session does
not save. `UpInv` does not hold of restored ones: the files of vectors that were not
saved may still be there under the uqids they had, and are given to new vectors.

The proof is why `whole` and `CarefulClient` speak of half-deleted vectors: without
that, `SavedOnDisk` is false for vectors of two chunks with a reader (see
Disagreements).

`LoopProofs` is what the proofs about hash maps need of loops, and those about sums of
induction. `Loop` is a recursive function, so that it has a value at all is a claim about every number of rounds
(`Iterates`), and so is that a loop keeps what each of its rounds keeps (`RoundsStay`).
Both are by induction, which is stated for sets of numbers (`NatSet`: a set with 0 and
with the successor of each of its numbers has them all) and proved from the library's
theorem that `<` on the natural numbers is well founded.

`HmapMputProofs`: that `hmap_mput` needs no lock.

* `MputOneThreadPerBucket`: two threads are never both between reading and writing the
  aggregate of one bucket. A bucket that a thread works on has the key the thread looked
  up, and the thread is the remainder of that key's hash (`MputBuckets`); so two threads
  have two keys, and two buckets.
* `MputIdxsCurrent`: the bucket a lookup found still has its key when it is updated.

The inductive invariant is `MputInv`. Beside types it says that the map is a well-formed
array of buckets (`TableOk`), without which nothing could be said of where the loops
of get, put, del and resize stop; that what was looked up is where it was found, and
belongs to the thread its hash gives (`LookedUp`), which is why the updates of others
must not move keys; and that a thread holds an aggregate only while it has a key to
update (`Holding`), so that nothing is held when the puts of the new keys begin. The
greater part are the lemmas on the operations: `GetFinds` (a key that is found is in the
bucket returned, and in the array), `InsertOk`, `ResizeOk`, `PutTableOk`, `DelLocOk` and
`DelTableOk` (the map stays well formed through robbing, growing, shrinking and the
backward shift). The hypothesis of both theorems, `SizesExist`, is that `prime_geq` stops,
at a size above the number it is given, if that is above 1. It is a consequence of
Bertrand's postulate, which these provers cannot reach; `SizesFound` in `MCHmapMput` and
in `MCRsHmap` has TLC evaluate it up to 200.

`RsHmapProofs`: that the Robin-Hood hash map is a map, for any number of keys, any
hashes and any configuration that leaves room.

* `RsHmapRobinHood`: `RobinHood`, the order the searches rely on to stop early.
* `RsHmapGetAgrees`: `GetAgrees`. It supposes, like the next, that no caller uses the key
  of all zeroes, which `rs_hmap_get` finds in any empty bucket (see Disagreements).
* `RsHmapChkPasses`: `ChkPasses`; the check of the repository never fails.
* `RsHmapImplementsMap`: `ImplementsMap`. The initial `Contents` is the empty map, and
  every put, del and merge, with the robbing, shifting and resizing it does, is the step
  of that name of `HMap`, or, for a put that fails, no step.

The inductive invariant is `MapInv`: the table is `Good`. That is, more than `MinSize`
buckets; `nitems` the number of full ones, and fewer than there are; and the buckets are
`Placed`: psl is the distance from home, an empty bucket is all zeroes, no key is there
twice, and before a bucket with psl p > 0 there is a full one with psl at least p - 1
(`Chained`). On the instance of `rshmap_ops` TLC finds it true of every state. The proof
follows the calls:

* a search (`DelLocFinds`, `GetFinds`) passes only keys as far from home as it is, so the
  key it looks for cannot be behind the bucket where it stops (`NotYet`), and it stops
  within a round because one bucket is empty;
* an insertion (`InsertOk`) carries an entry that fits the bucket before it, its own or
  the one it robbed (`Carried`, `RobOk`), and cannot come back to where it began without
  meeting the empty bucket (`EmptyAhead`); that the counter follows is `InsertCounts`;
* a deletion moves a hole: `Holed` is `Placed` but for the bucket behind the hole, and
  `MoveHoles` is the round of the shift, around the end of the array too. When it stops
  the hole closes (`HoleCloses`). The shift stops because the hole came from a full
  bucket and there is another empty one (`BackwardOk`);
* a resize (`ResizeOk`) has put the pairs of the first i buckets after i rounds (`Moved`),
  and as they are fewer than the new buckets each insertion finds its empty bucket; the
  test of the code that the number of keys has stayed the same never fails;
* a merge (`MergeOk`) has put a first part of its pairs after every round.

What the buckets hold is followed as the set of pairs of keys and values (`Pairs`, `Set`,
`Cut`), which a change of places leaves alone, and becomes a function at the end
(`AsMap`, `HoldsPairs`).

`RoomAssumption` says that the marks leave two empty buckets in the smallest table and
that a table shrunk to the ideal mark has more buckets than keys. It is arithmetic on the
configuration, not on what happens: with the marks of `rs_hmap_common.h` it holds from a
minimum size of 6 on, and its minimum is 1024, those of the configurations of the tests
32. `read_configs.lua` accepts less; see Disagreements for what happens then.

Only model-checked, and why:

* liveness (`LuaState`, `LVector`, `HmapMput`): under fairness, out of the prover's reach;
* of `HmapMput`: `TypeOK` says more than `MputInv`: that there are at most as many items as
  buckets and that an empty bucket is all zeroes; `AggregatesExactUnlessGrown` and
  `ChkPasses` need the Robin-Hood order of all buckets, which `MputInv` does not state, and
  hold of maps `hmap_mput` has not grown: in those it has a key may be twice, so that the
  lemmas of `RsHmapProofs` do not carry over as they stand;
* of `Session`: `RestoredSound`, and `SavedOnDisk` and `RestoreSucceeds` for saves made in
  a session that was itself restored. They need invariants of `Vctr` in restored
  sessions, weaker than those of `UpInv` because of the files left over, which would have to be
  shown of every operation anew;
* of `LVector`: `ValuesRight` compares with the meaning of an expression, a recursion over
  the inputs of operators, and the others need what the whole stack of calls means.

Some hazards no property catches, and `PROJECT.json` says of each why: among them a linear
file removed while it is read (`vctr_drop_mem.c:40`), RAM freed under a reader
(`chnk_drop_mem.c:50`), readers counted by calls that then fail (`vctr_get_chunk.c:159`,
`chnk_get_data.c:32`), a quota that is hit (`mod_mem_used.c:65`) and an `L` that is leaked
(`process_req.c:85`). The models do these things, or name the bound that keeps them out, but
what is asserted would not notice one more of the kind.

## Plan

Done: `LuaState`, the five vector modules, `HMap` and `RsHmap`, `Session`, `LVector`,
`HmapMput`, the runs above, the theorems above. Next, in this order:

1. Theorems: the Robin-Hood order of the aggregating map, along the lines of
   `RsHmapProofs`; of `Session` that what a restored session saves stays on disk as well;
   of `LVector` that the vectors of an operator keep in step.
2. The rest of the lifetime: chunk_delete, cast, rehydrate, clone, un-persist.
3. `MemQuota`: the lock of `mod_mem_used.c` with two threads, `lgutils` calls included.
4. nn vectors inside evaluation, of which the second operation fails; tablespaces.

## Not modelled, and why

ML, decision trees, graphs and aggregators compute data and keep no state but the
vectors they are given. The operators that are not in `LVector` are of three kinds:
more of the same shape (a generator that gets a chunk of each input and computes
one), those that want whole vectors in linear files (sort, permute), and Q.where,
which always raises. What generated C computes from elements is numeric. The
variable-length map (`TMPL_VAR_HASHMAP`) is the template of maps like the two that are
modelled. The C server, the command line, utilities and build
scripts are variants, I/O or glue. They are most of the repository's lines, with the
third-party LuaJIT, of which only `luajit.c` is Q's. CMEM and Scalar live outside the
repository; a CMEM appears as the buffer, stealable or not, given to `put_chunk`.
The webserver library appears as the caller of `process_req`.
