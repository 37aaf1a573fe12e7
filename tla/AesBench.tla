------------------------------ MODULE AesBench ------------------------------
(***************************************************************************)
(* The AES benchmarks of cryptobench.cpp: run_aes() makes every tested     *)
(* library go through aes_auto_test(), timed CBC encryptions, timed CBC    *)
(* decryptions, then a line with their ratio; first with a 128-bit key,    *)
(* then with a 256-bit one.  AesCalls details the calls.                   *)
(*                                                                         *)
(* The result of a call is right or wrong.  It is wrong when the method    *)
(* did not compute AES, or when the library has a fault for that mode,     *)
(* direction and key size.  The number of timed iterations is free, zero   *)
(* included (--min-iterations 0).                                          *)
(***************************************************************************)
EXTENDS AesCalls

CONSTANTS
  DataSizes,    (* Values of --aes-data-size.                              *)
  Selections,   (* Possible sequences of tested libraries with AES.        *)
  Faults,       (* Faults of one library: [lib, mode, op, bits].           *)
  None          (* No fault, no rejected call, no ratio, no call yet.      *)

(* The libraries which have AES. *)
AesLibraries == {"openssl", "mbedtls", "gnutls", "tomcrypt", "nettle", "arm64"}

ASSUME AesAssumption ==
  /\ DataSizes \subseteq Nat
  /\ \A s \in Selections : s \in Seq(AesLibraries) /\ s # <<>>

VARIABLES
  tested,        (* Libraries still to be run, the current one first.          *)
  key_sizes,     (* Key sizes still to be run for the current library.         *)
  pc,            (* The part of run_aes() in progress.                         *)
  vector,        (* Index of the current call of aes_auto_test().              *)
  aes_data_size, (* opt.aes_data_size.                                         *)
  fault,         (* The fault of some library, or None.                        *)
  processed,     (* Bytes per iteration of the current timed loops, by         *)
                 (* direction; None before the first iteration.                *)
  rejected,      (* The call which a size check refused.                       *)
  ratio          (* The last "encrypt/decrypt-ratio" line.                     *)

position == <<tested, key_sizes, pc, vector>>
results == <<processed, rejected, ratio>>
vars == <<callvars, position, aes_data_size, fault, results>>

SetOf(s) == {s[i] : i \in DOMAIN s}
Libraries == UNION {SetOf(s) : s \in Selections}
Lib == tested[1]

(* Is the output of the call what AES says?  *)
IsRight(l, c) ==
  /\ Computed(l, c)
  /\ ctx.written = c.input
  /\ fault # [lib |-> l, mode |-> ModeUsed(l, c.mode), op |-> c.op, bits |-> c.bits]

-----------------------------------------------------------------------------
(* The calls of run_aes(). *)

Pair(mode, key, bits, size, output) ==
  <<Call(mode, "encrypt", key, bits, size, output), Call(mode, "decrypt", key, bits, size, output)>>

(* The test vectors of lib::aes_auto_test(), each with a key of its own.   *)
EcbVectors(key, bits) == Pair("ecb", key, bits, 16, 16) \o Pair("ecb", key + 1, bits, 16, 16)
CbcVectors == Pair("cbc", 7, 128, 16, 256) \o Pair("cbc", 8, 128, 32, 256)
Vectors == EcbVectors(1, 128) \o EcbVectors(3, 192) \o EcbVectors(5, 256) \o CbcVectors

BenchKey == 0

(* Mutant of EncryptCall: the data size is not rounded up. *)
EncryptCallExact(bits) == Call("cbc", "encrypt", BenchKey, bits, aes_data_size, aes_data_size)

(* bench_aes_encrypt: the data size is rounded up to complete blocks. *)
RoundedUp(n) == ((n + AES_BLOCK_SIZE - 1) \div AES_BLOCK_SIZE) * AES_BLOCK_SIZE
EncryptCall(bits) ==
  Call("cbc", "encrypt", BenchKey, bits, RoundedUp(aes_data_size), RoundedUp(aes_data_size))

(* bench_aes_decrypt: it is not, only the output buffer is larger. *)
DecryptCall(bits) ==
  Call("cbc", "decrypt", BenchKey, bits, aes_data_size, aes_data_size + AES_BLOCK_SIZE)

TimedCall(op) == IF op = "encrypt" THEN EncryptCall(key_sizes[1]) ELSE DecryptCall(key_sizes[1])

(* The call which is in progress, or is the next one. *)
CurrentCall == IF pc = "auto-test" THEN Vectors[vector] ELSE TimedCall(pc)
Calling == pc \in {"auto-test", "encrypt", "decrypt"}

Init ==
  /\ InitCalls(Libraries)
  /\ tested \in Selections
  /\ key_sizes = <<128, 256>>
  /\ pc = "auto-test" /\ vector = 1
  /\ aes_data_size \in DataSizes
  /\ fault \in {f \in Faults : f.lib \in SetOf(tested)} \cup {None}
  /\ processed = [op \in Directions |-> None]
  /\ rejected = None /\ ratio = None

(* A method of the library is called and checks its sizes. *)
StartCall ==
  /\ Calling
  /\ Enter(Lib, CurrentCall)
  /\ IF SizesAccepted(CurrentCall)
       THEN UNCHANGED <<pc, rejected>>
       ELSE pc' = "fatal" /\ rejected' = CurrentCall
  /\ UNCHANGED <<tested, key_sizes, vector, aes_data_size, fault, processed, ratio>>

CallLibrary ==
  /\ Calling
  /\ LibraryCall(Lib, CurrentCall)
  /\ UNCHANGED <<position, aes_data_size, fault, results>>

(* Mutant of Passes: decryption is not compared with the plain text. *)
PassesEncryptOnly(c) == IsRight(Lib, c) \/ c.op = "decrypt"

(* The comparison of an output of the auto-test with its vector. *)
Passes(c) == IsRight(Lib, c)

TestVector ==
  /\ pc = "auto-test"
  /\ Return(Lib, Vectors[vector])
  /\ IF Passes(Vectors[vector])
       THEN IF vector < Len(Vectors)
              THEN vector' = vector + 1 /\ pc' = pc
              ELSE vector' = 1 /\ pc' = "encrypt"
       ELSE pc' = "fatal" /\ vector' = vector
  /\ UNCHANGED <<tested, key_sizes, aes_data_size, fault, results>>

(* one_iteration() of bench_aes_encrypt and bench_aes_decrypt ends;        *)
(* nothing compares the output.                                            *)
TimedIteration ==
  /\ pc \in Directions
  /\ Return(Lib, TimedCall(pc))
  /\ processed' = [processed EXCEPT ![pc] = TimedCall(pc).input]
  /\ UNCHANGED <<position, aes_data_size, fault, rejected, ratio>>

EndLoop ==
  /\ pc \in Directions
  /\ progress = Idle
  /\ pc' = IF pc = "encrypt" THEN "decrypt" ELSE "ratio"
  /\ UNCHANGED <<callvars, tested, key_sizes, vector, aes_data_size, fault, results>>

(* Mutant of NextRun: the last library is followed by another. *)
NextRunPast ==
  IF Len(key_sizes) > 1
    THEN key_sizes' = Tail(key_sizes) /\ tested' = tested /\ pc' = "auto-test"
    ELSE key_sizes' = <<128, 256>> /\ tested' = Tail(tested) /\ pc' = "auto-test"

(* Next key size, or next library, or the end of the AES tests. *)
NextRun ==
  IF Len(key_sizes) > 1
    THEN key_sizes' = Tail(key_sizes) /\ tested' = tested /\ pc' = "auto-test"
    ELSE /\ key_sizes' = <<128, 256>>
         /\ IF Len(tested) > 1
              THEN tested' = Tail(tested) /\ pc' = "auto-test"
              ELSE tested' = tested /\ pc' = "done"

(* The last line of run_aes(), under aes_name(). *)
PrintRatio ==
  /\ pc = "ratio"
  /\ ratio' = [bits |-> key_sizes[1], label |-> aes_key_bits[Lib], bytes |-> processed]
  /\ processed' = [op \in Directions |-> None]
  /\ NextRun
  /\ UNCHANGED <<callvars, vector, aes_data_size, fault, rejected>>

(* Any call to a library may report an error and end the program. *)
LibraryFails ==
  /\ Calling
  /\ InProgress(Lib, CurrentCall)
  /\ pc' = "fatal"
  /\ UNCHANGED <<callvars, tested, key_sizes, vector, aes_data_size, fault, results>>

Next ==
  StartCall \/ CallLibrary \/ TestVector \/ TimedIteration \/ EndLoop \/ PrintRatio \/ LibraryFails

Spec == Init /\ [][Next]_vars

-----------------------------------------------------------------------------

Sizes == {RoundedUp(n) : n \in DataSizes} \cup DataSizes

TypeOK ==
  /\ TypeOKArm64
  /\ tested \in Seq(Libraries) /\ tested # <<>>
  /\ key_sizes \in {<<128, 256>>, <<256>>}
  /\ pc \in {"auto-test", "encrypt", "decrypt", "ratio", "done", "fatal"}
  /\ vector \in 1 .. Len(Vectors)
  /\ aes_key_bits \in [Libraries -> KeyBits \cup {0}]
  /\ aes_data_size \in DataSizes
  /\ fault \in Faults \cup {None}
  /\ processed \in [Directions -> Sizes \cup {None}]
  /\ progress = Idle \/ (Calling /\ progress \in 0 .. Len(LibraryCalls(Lib, CurrentCall))) \/ pc = "fatal"
  /\ ctx.schedule \in Directions \cup {"none"} /\ ctx.padding \in BOOLEAN

(* The key size which starts a ratio line is remembered by the library     *)
(* from its last call (lib.h:65), which may be one of the auto-test: it is *)
(* the size of the benchmarks as soon as one iteration ran.                *)
RatioLabel ==
  ratio # None /\ (\E op \in Directions : ratio.bytes[op] # None) => ratio.label = ratio.bits

(* A ratio compares the same amount of work: although encryption rounds    *)
(* the data size up and decryption does not (bench_aes.cpp:18, 41), both   *)
(* process the same number of bytes, or decryption is refused.             *)
SameBytes ==
  (ratio # None /\ \A op \in Directions : ratio.bytes[op] # None) =>
    ratio.bytes["encrypt"] = ratio.bytes["decrypt"]

(* Encryption is never refused for its sizes, and decryption is only       *)
(* refused for data which are not complete blocks.                         *)
RejectsOnlyPartialBlocks ==
  rejected # None => rejected.op = "decrypt" /\ aes_data_size % AES_BLOCK_SIZE # 0

(* After the auto-test passed, the timed operations with the key size of   *)
(* its CBC vectors compute AES, whichever fault the library has; so do all *)
(* those of GnuTLS, which has its CBC code tested by the ECB vectors.      *)
AutoTestGuards ==
  /\ pc \in Directions /\ Returning(Lib, TimedCall(pc))
  /\ key_sizes[1] = 128 \/ Lib = "gnutls"
  => IsRight(Lib, TimedCall(pc))

(* No method writes past the output buffer which it was given: the one of  *)
(* the timed encryption has no room for a block of padding.  The check of  *)
(* lib_openssl.cpp:428 would see it too late, after the bytes are written. *)
OutputFits == Calling /\ progress # Idle => ctx.written <= CurrentCall.output

(* The timed loops make millions of calls: none leaves a cipher context    *)
(* allocated, and none releases one which it has not.                      *)
ContextsReleased == ctx.live \in {0, 1} /\ (progress = Idle => ctx.live = 0)

(* The arm64 code computes AES in every call, whatever keys the object had *)
(* before (a longer key leaves its last round keys in place), and its CBC  *)
(* decryption inverts its encryption, the IV being updated to chain calls  *)
(* (arm64.h:42).                                                           *)
Arm64Computes ==
  Lib = "arm64" /\ Calling /\ Returning(Lib, CurrentCall) =>
    /\ EncryptSteps = Cipher(CurrentCall.key, CurrentCall.bits)
    /\ LET Block(x) == {[text |-> x]}
           plain == <<Block(1), Block(2)>>
           cipher == encrypt_cbc(Block(0), plain)
           first == encrypt_cbc(Block(0), <<Block(1)>>)
           second == encrypt_cbc(first.iv, <<Block(2)>>)
       IN  /\ cipher.output = first.output \o second.output /\ cipher.iv = second.iv
           /\ decrypt_cbc(Block(0), cipher.output) = [iv |-> cipher.iv, output |-> plain]

(* lib.h:60: aes_encrypt_cbc and aes_decrypt_cbc are "AES CBC encryption   *)
(* or decryption"; for a library without a fault, whatever the key size.   *)
ComputesAes ==
  pc \in Directions /\ fault = None /\ Returning(Lib, TimedCall(pc)) => IsRight(Lib, TimedCall(pc))

(* lib.h:60: the size "must be a multiple of block size".                  *)
CompleteBlocks == pc \in Directions => TimedCall(pc).input % AES_BLOCK_SIZE = 0

=============================================================================
