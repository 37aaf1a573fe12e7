# CryptoBench in TLA+

CryptoBench (`src/`) times RSA, AES and modular arithmetic in six
cryptographic libraries. This directory models the program in TLA+, checks the
models with TLC on small instances, and proves some of their properties with
TLAPS for every value of the constants. Paths below are relative to the
repository, `bench.cpp` is `src/src/bench.cpp`.

- `PROJECT.json` lists the components, the runs, the lines of code which each
  definition models (`map`), the mutants, the findings, the hazards, and the
  theorems.
- `tlc -config X.cfg M` checks a run (table below); `tlapm M.tla` checks the
  proofs of a module.

## 1. The system

The program is sequential: `main()` initializes the libraries, parses the
command line, and `run_all_benchmarks()` runs the selected stages. Difficulty
comes from elsewhere: state that outlives the call which set it (contexts,
padding modes, a global math backend, the last key size), numbers at their
boundaries (a clock which did not move, rounded sizes, products of large
counters), failures which exit in the middle of anything, key files shared with
another run of the program, and checks (the auto-tests) which guard only part of
what is then timed.

| Component | State | Operations | What makes it correct |
|---|---|---|---|
| Bench engine (`bench.cpp`, `sys.cpp` clock and `div64`) | iterations, CPU time, size of the next chunk | `run`, `display`, `score` | it ends; it ends for a stated reason; counts are exact; times and scores are defined; the extrapolation fits and progresses |
| Command line (`options.cpp`) | selections, defaults, numeric values | one pass over `argv`, then the defaults | the meaning of a command line does not depend on the order of its options |
| Program (`cryptobench.cpp`) | libraries initialized, stages | `main`, `run_all_benchmarks` | what is asked is run, once; key files are written before they are read |
| RSA benchmarks (`run_rsa`, `bench_rsa.cpp`, `lib::rsa_auto_test`) | current call, ciphertext, signature and DER buffers | loads, auto-test, timed loops with and without rekeying | each operation uses the key it is reported for; timed decryptions and verifications have valid inputs |
| RSA backends (`lib_openssl`, `lib_mbedtls`, `lib_gnutls`, `lib_tomcrypt`) | keys, contexts and reference counts, padding modes, global math backend | load, init, use, destroy | no stale context, no leak or double free, no key in the wrong backend, the documented padding |
| Key files | four PEM files | written by `generate_rsa_key`, read by the loads | a half-written or mixed pair is never benchmarked |
| AES benchmarks (`run_aes`, `bench_aes.cpp`, `lib::aes_auto_test`) | library, key size, bytes processed | auto-test, timed loops, ratio line | results are labelled right, a ratio compares equal work, wrong results are stopped |
| AES methods of the libraries (`lib_*.cpp`) | last key size, cipher contexts | check sizes, make a context, process, release it | no context leaks, outputs fit their buffers |
| Big numbers (`bignum.cpp`) | a heap of `BIGNUM`, one pointer per object | construct, copy, move, capture, destroy | value semantics; one owner per `BIGNUM` |
| Math benchmarks (`run_math`, `bench_math.cpp`, `openssl.cpp`) | shared BN, Montgomery and reciprocal contexts, the operands | one constructor per kind of function, iterations | the shared context holds the modulus of the current bench, no failure makes a bench time something else |
| Armv8 AES (`arm64.cpp`, `lib_arm64.cpp`) | expanded keys | key expansion, ECB and CBC | decryption inverts encryption for every key size |
| Reference benchmark (`bench_reference.cpp`) | a local buffer | a fixed computation | none beyond running |
| System helpers (`sys.cpp`) | none | base64, PEM, bit size, file I/O | a key file gives back its key, or an error |
| Report analyzer (`tools/analyze-reports.py`) | values of each report, the table being printed | read, compare with the reference system, print tables without empty rows and columns | a value stays in the row and the column it belongs to |

Interactions: `run_all_benchmarks` calls `run_math`, `run_rsa` and `run_aes`. The last two call the
virtual methods of class `lib` (the backends) directly and through the
`one_iteration` methods that `bench::run` calls back; the key files link the
generation, the loads and any other run of the program; `ltc_mp` links the two
LibTomCrypt objects; the OpenSSL contexts link the math benches. `run_math` takes
its modulus and exponents from a key file through `load_rsa_private_key_values`
and `load_pem_file_as_der`. The report analyzer is a program of its own: it reads
what the runs on many systems have printed.

The hazards, each with its line and the properties aimed at it, are the
`hazards` of `PROJECT.json`.

## 2. Modules

| Module | Models | State and actions against the code |
|---|---|---|
| `SysArith` | `sys::div64` and C++ division | operators |
| `BenchRun` | `bench::run`, `bench::display` | `iterations`, `usec_total`, `more`, `start` are the variables of the code. One action per iteration, per end of chunk (`ContinueLoop`, `LeaveLoop`: lines 44-62 with the clock read), per empty iteration, for the subtraction and for the display; implements `Measure` |
| `Measure` | what class `bench` promises | abstract: operations, the elapsed time, one result reported |
| `RsaOps` | vocabulary of class `lib` | sides, operations, keys; a ciphertext or signature is the key and padding it was made with |
| `LibOpenSSL`, `LibMbedTLS`, `LibGnuTLS`, `LibTomcrypt` | the RSA part of each backend | one variable per library, operators which are the effects of `load_rsa_*`, `rsa_init_*`, the operations and the destructor |
| `KeyFiles` | `generate_rsa_key` on the four files | one action per `fopen` (which truncates) and per `fclose` (which writes) |
| `RsaBench` | key generation, `run_rsa`, `rsa_auto_test`, `bench_rsa.cpp` and the destructors; composes the five modules above | `Script` is the sequence of calls of `run_rsa`, one action per kind of call; a timed loop repeats its calls any number of times |
| `Arm64Aes` | class `arm64::aes` | `key_data` is `arm64`; `set_key` is an operator on it, the ciphers and CBC are functions of it |
| `AesCalls` | the AES methods of the six libraries, the size checks of `lib.cpp`; extends `Arm64Aes` | a method is entered (`Enter`), makes its calls one by one (`LibraryCall`) and returns (`Return`); `LibraryCalls` is their sequence |
| `AesBench` | `run_aes`, `aes_auto_test`, `bench_aes.cpp`; extends `AesCalls` | `CurrentCall` is the call which the program is at; one action for its start, its library calls, the comparison with a vector, the end of an iteration and of a loop, the ratio line, a failure |
| `Options` | `options::options` | one action per kind of argument, then the defaults |
| `CryptoBench` | `main`, `run_all_benchmarks`; extends `Options` | one action per library initialized or cleaned up, per stage, per benchmark of a stage |
| `Numbers` | what class `bignum` promises | abstract: independent numbers, with `Change`, `Copy` and `Move` |
| `Bignum` | `bignum.cpp` | one action per method; a ghost (`asked`) names the last call and its operands, so that a copy must be a `Copy` of `Numbers` and not any change |
| `SysText` | base64 and PEM decoding, `large_number_bits` of `sys.cpp` | one action per group of four characters (`DecodeGroup`) |
| `MathBench` | `run_math`, `bench_math.cpp`, the random numbers of `bignum.cpp`; extends `SysText` | `RunMath` is the sequence of benches; one action per group decoded, for the key, the prime modulus, a constructor, an iteration, the end of a bench |
| `Reports` | `analyze-reports.py` | one action per file read or merged, to fill a table, per turn of the two loops which shrink it |
| `BenchRunProofs`, `BignumProofs`, `RsaBenchProofs`, `Arm64AesProofs`, `AesBenchProofs`, `CryptoBenchProofs`, `MathBenchProofs`, `ReportsProofs` | theorems about the module of the same name | section 4 |
| `MCBenchRun`, `MCRsaBench`, `MCAesBench`, `MCCryptoBench`, `MCMathBench`, `MCReports` | values of constants for TLC | |

A definition called "Mutant of X" is a plausible bug of X: no specification uses
it. Each property of a passing run is violated by one of them put in place of
the definition.

Abstractions worth knowing:

- **CPU time.** `BenchRun` counts CPU time in units finer than a microsecond and
  `Clock` is what `getrusage` shows of it: it advances by `Tick` microseconds
  every `Grain` units. An operation costs at least one unit. Since only
  differences of the clock matter, the origin is its last change before the run.
- **Libraries.** What the libraries do is modelled from how the code uses them
  and marked external in the map: `EVP_PKEY` structures are reference counted and
  a context holds a reference; MbedTLS keeps the padding mode in the key, parsing
  resets it to PKCS#1 v1.5, and `mbedtls_pk_sign` and `mbedtls_pk_verify` follow
  it; GnuTLS imports into the same object and encrypts with the v1.5 padding;
  the numbers of a LibTomCrypt key belong to the backend which made them.
- **Data.** Plain texts, outputs and keys are not there: a decryption or
  verification accepts what was made with the same key pair and padding; an AES
  call is right or wrong.
- **AES calls.** What a library does is a set of effects: allocate or release a
  context, expand a key for a direction, turn padding on or off, process data,
  write the last padded block. A library has at most one fault, in one mode,
  direction and key size. Faults in the use of the initial vector or in the chaining
  of blocks are outside this model of the libraries: the vectors have one block and
  a zero initial vector, so the auto-test does not see them. `Arm64Computes` checks
  the chaining of the AES which this program implements itself.
- **AES of `arm64.cpp`.** A word of an expanded key is its number in FIPS 197, a
  cipher is the sequence of its elementary steps, a block is an exclusive or of
  terms. The instructions and the tables do what their names say: the model
  checks which words, round keys and steps the code puts where.
- **Key files of `run_math`.** A structure is the length of its content in one
  byte, then the content; like `d2i_PrivateKey`, reading one needs all of it and
  ignores what follows. Characters are their codes.
- **Numbers of `run_math`** are known by their size in bits, zero being 0. A
  context is the modulus it holds, "unset", or "junk" when a failure left it
  half set. With such a context an iteration may still succeed, since the code
  tests nothing but the result.
- **Reports.** One operation of one algorithm, the others go through the same
  loops. Times are integers and a ratio is a pair of integers. The table of times is
  the one of a document, dropped when it is empty, or the one of the reference test,
  printed in any case: all its rows and columns are then removed.
- **Failures.** `sys::fatal`, `openssl::fatal` and the like exit, and `exit()`
  destroys no local object: a failure is a step to a final phase. Any library
  call may fail (`LibraryFails`, `Fatal`).
- **Another run of the program** writes the same key files at any point
  (`OtherProcess`), one file operation at a time.
- **Doubles** stay fractions: only their being defined matters (`Ratio`).

## 3. Runs

| Run | Module, configuration | Bounds | Shows |
|---|---|---|---|
| `bench_coarse` | `MCBenchRun`, `BenchRun_coarse.cfg` | 13 microseconds asked, clock grain 3 and tick 4, costs 1 to 3 constant or varying, minimum of 0 or 2 iterations | the loop ends (`Termination`) with the minimum time or without a measure after the first chunk (`EndsForAReason`), counts exactly, scores are defined, products fit; every step decreases a variant (`NoStepInVain`); the engine implements `Measure` (`KeepsPromise`) |
| `bench_exact` | `MCBenchRun`, `BenchRun_exact.cfg` | 40 microseconds, exact clock, constant costs 1 to 9 | "2 iterations as safe margin" (`bench.cpp:56`) does make one extrapolation enough |
| `rsa` | `MCRsaBench`, `RsaBench.cfg` | two key sizes; all libraries in turn, one alone, none; one other process | operations use the key loaded last, of the size reported (`FreshContexts`); inputs of timed operations fit (`TimedInputsMatch`); the auto-test accepts every real pair (`AutoTestComplete`); keys are freed exactly once (`NoKeyLeak`) and by their backend (`BackendMatches`) |
| `rsa_mbedtls` | `MCRsaBench`, `RsaBench_mbedtls.cfg` | MbedTLS alone | violation, finding 1 |
| `aes` | `MCAesBench`, `AesBench.cfg` | six libraries in three selections, data sizes 15, 16, 17, 32, no fault or any single fault | ratio lines are labelled right (`RatioLabel`) and compare equal work (`SameBytes`); a call is only refused for incomplete blocks in decryption; no fault which a vector reaches is timed (`AutoTestGuards`); no method writes past its output (`OutputFits`) or keeps a context (`ContextsReleased`); the arm64 code computes AES whatever keys it had before, and its CBC decryption inverts its encryption (`Arm64Computes`) |
| `aes_nettle` | `MCAesBench`, `AesBench_nettle.cfg` | Nettle alone, no fault | violation, finding 2 |
| `aes_size` | `MCAesBench`, `AesBench_size.cfg` | OpenSSL alone, sizes 16 and 17 | violation, finding 3 |
| `math` | `MCMathBench`, `MathBench.cfg` | files of keys of 2 to 4 bytes, cut anywhere; moduli of 3 bits; any call failing | a damaged key file gives its key or an error (`RightKey`), bit sizes are exact (`BitsExact`); a bench which could set its context uses its own modulus (`OwnModulus`); no unseen failure leads to a bench on a zero modulus or to an inverse of zero (`FailuresNoticed`) |
| `math_stale` | `MCMathBench`, `MathBench_stale.cfg` | one whole key file | violation, finding 4 |
| `reports` | `MCReports`, `Reports.cfg` | two report files, three libraries, up to two free lines each | a table shows each value in its row and column (`TableIsExact`), ratios are to the reference system (`RatiosToReference`), the script ends (`Finishes`) |
| `program` | `MCCryptoBench`, `CryptoBench.cfg` | every command line of up to four of ten words | a command line means the set of its options, whatever their order (`OrderIrrelevant`); what it asks for is run, once (`RunsWhatIsAsked`); keys are generated first (`KeysAreFresh`) |
| `bignum` | `Bignum`, `Bignum.cfg` | three objects, four addresses, two numbers | value semantics, a copy or a move giving the number of its source (`ValueSemantics`), sole ownership, no leak, no double free |

Why the bounds are enough:

- `bench_coarse` has operations cheaper and dearer than the grain, chunks which
  end on, before and after a tick, zero measures at the first chunk, and one, two
  and more extrapolations. `MaxInt64 = 20` is the largest operand that these
  values produce. In the program the operand is at most about
  (2000000 + tick) times the iterations, 10^15 to 10^16 for the default two
  seconds; it comes near 2^63 only when minutes are asked for operations of a
  nanosecond. The theorem `NoOverflow` gives the condition in general.
  `ChunkCap = 3` only bounds a ghost counter that no property reads above 2.
- `rsa`: two sizes make every change of key (other size, same size reloaded);
  two LibTomCrypt objects are all there are; one other process already produces
  truncated files and mixed pairs, of either or both sizes. Six handles are all
  that two slots and four contexts can keep alive.
- `aes`: the sizes are one below, at and above a block, and two blocks. A fault
  belongs to a library, mode, direction and key size: two faults of one library
  would be met by the same vectors independently.
- `math`: the bytes 0, 27, 251 and 255 make letters of both cases, digits and
  both signs of base64; the lengths 2, 3 and 4 end with one, no and two "=";
  lines have four characters, so that every file has one or two of them, ended by
  LF or CRLF; every prefix of every file is tried. The sequence of benches is the
  one of the code. Moduli of 3 bits leave room for a root and a random operand
  which are zero, one or longer.
- `reports`: with three libraries two adjacent columns may be empty, at either
  end; the reference system is the first file, the last one or both; the line
  `cpu-index` comes before or after the others, with or without a value.
- `program`: four arguments allow an option, its value, and two more, in any
  order; the libraries are two (one with RSA and AES, one without RSA) because
  `options.cpp` treats all of them alike. Of the three numeric options two are
  given, treated alike as well.
- `bignum`: two objects are related by an operation, the third one stays
  unrelated; no method involves more than three addresses. Proved for any number.

Fairness is assumed in two places, weak fairness of the whole next step in
`BenchRun` and in `Reports`: each is one thread which waits for nothing, always
enabled until it is done, and the system schedules it. Termination of `BenchRun`
also needs an operation to consume CPU time, which is the assumption on costs.
No other run checks liveness.

Deadlock checking is off where the program ends (every run but `bignum`).

### Findings

1. *MbedTLS signs with PSS.* `README.md:160` and `lib_mbedtls.cpp:214` say
   PKCS#1 v1.5. `set_rsa_padding` leaves the v2.1 mode in the keys, and both the
   auto-test and `run_rsa` encrypt and decrypt before they sign.
   `AutoTestComplete` shows that signer and verifier at least agree.
2. *Nettle decrypts CBC with encryption keys.* `lib_nettle.cpp:357` and `:363`
   call the encryption key schedule for 192-bit and 256-bit keys. The CBC vectors
   of the auto-test have 128-bit keys, so that the wrong result is timed.
3. *The decryption size is not rounded up.* `bench_aes.cpp:41`, against `:18`:
   with `--aes-data-size 17` the encryption is timed and the decryption is
   fatal. `SameBytes` shows that no wrong ratio is printed at least.
4. *A failure to set a context goes unseen.* `bench_math.cpp:125` says that the
   constructors set the modulus, but `BN_MONT_CTX_set` and `BN_RECP_CTX_set`
   return 0 when they fail, which the tests `< 0` of lines 130 and 137 do not
   see: the bench runs with what the shared context happens to hold. `OwnModulus`
   shows that a failure is the only way to get there.

Two behaviours are not findings, since the comments of the code say them. When
the CPU clock has not moved at the end of the first chunk, the bench ends with
no time (`bench.cpp:49`), although the README promises two seconds. And the
ratio of the report analyzer multiplies the ratio of the times by the inverse
ratio of the frequencies (`analyze-reports.py:283-291`), so it is not a ratio of
CPU cycles.

## 4. Proofs

Each module with proofs proves the properties of its component for every value of the
constants which satisfy the named assumptions. All have the same layout: lemmas about
the operators, an inductive invariant `Inv` in named parts, `Init => Inv`, one lemma or
step per action for `Inv /\ [Next]_vars => Inv'`, then each property from `Inv`. Each
theorem names in a comment the code it is about.

**Timing loop** (`BenchRunProofs`), under `BenchAssumption` and `NonNegative` (the
values of `--min-iterations` are not negative: section 5), for any clock grain and tick,
costs and requested time:

- `TypeCorrect`, `CountIsExact`, `EndIsJustified`: safety properties of `bench_coarse`;
  `NetTime`: the net time is between zero and what was measured; `DisplaySafe`: no
  displayed rate divides by zero.
- `NoOverflow`: `ExtrapolationFits`, when
  (M + Tick) * Grain * M + Tick * M <= Tick * MaxInt64, M the requested time.
- `Progress`: every chunk after the first has two iterations or more.
- `MarginIsSafe`: with an exact clock and any steady cost, two chunks at most.
- `LoopEnds` (`NoStepInVain`): every step decreases, in the order of the dictionary,
  four natural numbers: the phases left, whether nothing was timed yet, the iterations
  which a time below the minimum leaves, the iterations of the chunk. This is
  `Termination` but for fairness, however costs vary and extrapolations are rounded.
- `Implements` (`KeepsPromise`): every step maps to a step or a stutter of `Measure`,
  where what is reported is what was performed, at least the requested number of times,
  while the clock advanced by the requested time or not at all.

They follow from types and `TimeInv` (the clock is never behind its last reading, and no
more operations were executed than CPU units consumed, which turns a measured time into
a bound on the number of iterations), `LoopInv` (the executed operations are the counted
ones plus the index of the current chunk; after the first chunk the measure is between
zero and the minimum: without these bounds neither the division nor the product of line
57 could be shown safe) and `EndInv` (the reason for which the loop was left). `SteadyInv`
adds, for `MarginIsSafe`, that the time is the cost times the iterations; the lemma
`MarginSuffices` is the arithmetic of rounding to nearest plus two. For `LoopEnds`, the
number of iterations has a bound because they consume CPU units and the clock cannot
stay behind by more than a grain; it increases at each chunk because a chunk after the
first has two iterations or more, which `LoopInv` says.

**Big numbers** (`BignumProofs`), for any objects, addresses and numbers: `TypeCorrect`,
`Ownership` (`SoleOwner`), `Safety` (`NoLeakNoDangling`) and `Implements`, the
refinement: every step of the class maps to the step of `Numbers` which its call names
(a copy to a `Copy`), or to a stutter. Ownership
is needed to show that freeing one number frees no other, the absence of dangling
pointers that no number is freed twice, and the refinement needs both: writing through a
pointer changes one object only because no other object has that pointer.

**RSA** (`RsaBenchProofs`), for any key sizes, any selection of libraries, any math
backends, and any interleaving with another run of the program which rewrites the key
files; assumptions `RsaAssumption` and `NullIsNone` (no value is mistaken for a null).
The invariant has the types of the libraries and of the files, `NoKeyLeak`, and

- `OwnBackend`: each key was made by the backend of its object, which is what makes
  switching `ltc_mp` in the destructors right;
- `OwnSize`: a key file has a key of the size in its name, whoever wrote it;
- `Stage`: for each call of each part of `run_rsa`, which keys were loaded, which
  contexts made for them, in which keys MbedTLS left its padding, from where on both keys
  are halves of one pair, and what the buffers hold. No property says this of the
  calls before the timed ones, and none of the properties is inductive without it.

It gives `TypeCorrect`, `NoLeak`, `BackendsDoNotMix`, `ContextsAreFresh`, `InputsMatch` and
`OnePairPasses`. That a new structure finds a free handle is the lemma `OneIsFree`: six
holders, and one handle more.

**AES of `arm64.cpp`** (`Arm64AesProofs`): for the three key sizes, whatever keys the object
had before, its words are those of FIPS 197, encryption is the cipher and decryption
its inverse; `CbcInverts`: CBC decryption gives back a message of any length, with the IV
the encryption left; `CbcChains`: two calls in a row are one call on both inputs. Their
hypothesis `Keyed` is what `set_key` establishes (lemma).

**AES benchmarks** (`AesBenchProofs`), for any data sizes, any selection of libraries and
any single fault; assumption `AesAssumption`. The invariant has `Midway`, the state of the
library's context after each of the calls of a method, `Tested`, the faults which the
vectors passed so far exclude, and `Timed`, which relates the sizes and the key size of the
benchmarks done to those asked. It gives `TypeCorrect`, `LabelIsMeasured`, `SameWork`,
`OnlyPartialBlocks`, `AutoTestIsEnough`, `OutputIsLargeEnough`, `NoContextLeak`, `Arm64IsAes`:
all the properties of the run `aes`.

**Command line and program** (`CryptoBenchProofs`), for command lines of any length, any
list of libraries, with RSA, AES or not; assumptions `OptionsAssumption` and
`CryptoBenchAssumption`. `Meaning(k, o)` says what the options are as a function of the
words read before the k-th, which of them are values being decided by a recursion;
`StageInv` and `WorkInv` relate what was run to the stages done, without duplicates and
keys first. They give `TypeCorrect`, `ArgumentsMeanASet`, `AskedIsRun` and `KeysComeFirst`.

**Math benches** (`MathBenchProofs`), for any key file, any size of the modulus and
any failures; assumption `MathAssumption`. Of a key file it says that its text is a first
part of a PEM file of the key (`StartsPemFile`), cut anywhere, which is what a full disk or
another run of the program leaves: a line with dashes, the base64 of the key with
any spaces and ends of lines, dashes again. `Encoded` is base64 as RFC 4648 defines it,
not as the code decodes it.

- `KeyIsRight` (`RightKey`): what is read is the key, or nothing. The invariant `Reading`
  says that what is left of the text is a part of the file behind 4g characters which are
  not spaces, and that the bytes decoded so far are the 3g first ones of the key. It
  needs that the four characters of a group give back its three bytes (`FirstByte`,
  `SecondByte`, `ThirdByte`), what the fourth character of rank 4g + 4 is (`PlaceIs`),
  and what the two loops which skip lines at both ends leave (`WithoutDashesPart`): a
  part which is cut within a group loses bytes, never invents one. A structure (of up
  to 256 bytes here) is complete when it has the length in its first byte, so a first
  part which reads as a key is the key.
- `SizesAreExact` (`BitsExact`): the highest bit of a number, of any number of bytes. It
  needs that the count, the mask and the byte of the loop stay in step: a turn goes from
  one bit to the next one (`TurnIs`), so the loop stops at the first one which is set
  (`LoopIs`).
- `ContextsAreOwn` needs that the shared contexts only change between two objects,
  `ZeroesNoticed` that a prime which is zero makes its square fail.
- `TypeCorrect`: that shifted and truncated characters stay bytes (`BytesOfIs`).

**Report analyzer** (`ReportsProofs`), for any number of reports with any lines and any list
of libraries; assumption `ReportsAssumption`:

- `TableShowsTheReports` (`TableIsExact`). The invariant keeps, along both loops, the file
  each row is of and the library each column is of, as increasing functions; only empty
  lines and columns were removed and there is none before the current one. That the
  files dropped by the first loop cannot fill a column in the second is the
  reason why testing the rows left is enough.
- `RatiosAreToReference`. The reference and the ratios depend on times and frequencies,
  which the computation of the other ratios does not change (`RatiosKept`).
- `LoopsEnd` (`NoStepInVain`): every turn of the loops passes or removes one file, row or
  column, and stays at a place which the table has. With fairness
  and a step possible in every phase, this is `Finishes`.
- `TypeCorrect`. What `read_file` knows after n lines is `KnownAfter`: the last result, the
  last cpu-index, else the first cpu.

The invariants of `RsaBench` and `CryptoBench` were also checked with TLC on the states of
the runs `rsa` and `program` before they were proved.

*Recursive functions.* The library's induction theorems cannot be instantiated, so what
a recursive function computes (the key expansion, CBC, the meaning of the options, the
loop over the lines of a report, the value of a number, powers of two) is proved
through a least counterexample (`LeastNat`, from the well-foundedness of the naturals);
that there is such a function, by extending by one the domain of a function which
satisfies the recursion.

*Properties without a run:* `NetTimeInRange` and `ChunkProgress` of `BenchRun` follow from
`KeepsPromise` and `NoStepInVain`, which a run checks; `NoStepInVain` of `Reports` makes
precise what `Finishes` checks.

*What is only model-checked:* `Termination` and `Finishes`, since fairness and ENABLED are
out of the prover's reach (a decreasing variant is proved for both); and the
four runs which refute a property.

## 5. Not modelled

- Nettle's RSA code: disabled by `rsa_available()` (`lib_nettle.cpp:144-149`).
- Random generators, library versions, formatting, localisation, the contents of
  the result lines: no property is about them.
- The instructions and tables which `arm64.cpp` is made of, the reference
  computation, `issues/`, `reports/`, the shell scripts: no state of the program
  depends on them.
- A negative `--min-iterations`: counted though not executed (`bench.cpp:45`), so that
  `CountedIsExecuted` would not hold; left out of the runs and, by `NonNegative`, of
  the theorems.

## 6. Plan

Done, in order: the bench engine and its proofs (every result goes through it);
RSA with its four backends, the hardest state of the program; AES down to the
calls of each library and to the code of `arm64.cpp`; the command line and the
whole program; big numbers with their abstract specification and its proof; the
math benches from the bytes of the key file on; the report analyzer.

Every invariant and every action property of a passing run is proved, for all values
of the constants which satisfy the assumptions named in section 4, and so are both
refinements. What could come next: several operations and algorithms in one table of
the report analyzer, and the RSA code of Nettle, when the program enables it.
