------------------------------ MODULE AesCalls ------------------------------
(***************************************************************************)
(* The AES methods of class lib: aes_encrypt(), aes_decrypt(),             *)
(* aes_encrypt_cbc() and aes_decrypt_cbc() of the six libraries.  Each     *)
(* checks its sizes, then makes a cipher context from scratch, works and   *)
(* releases it; only lib_arm64 keeps its keys in the object.               *)
(*                                                                         *)
(* A call is known by its mode, direction, key and sizes.  What a call of  *)
(* the underlying library does is a set of effects:                        *)
(*   allocate, release   a cipher context,                                 *)
(*   key                 expand a key for one direction,                   *)
(*   pad, unpad          padding is turned on (by default), or off,        *)
(*   crypt, finish       process the data, write the last padded block.    *)
(***************************************************************************)
EXTENDS Arm64Aes

VARIABLES
  aes_key_bits,  (* [libraries -> _aes_key_bits].                              *)
  progress,      (* Calls to the underlying library made by the current        *)
                 (* method, Idle between two methods.                          *)
  ctx            (* [live: number of allocated contexts, schedule: direction   *)
                 (* of the expanded key, padding, written: bytes of output].   *)

callvars == <<arm64, aes_key_bits, progress, ctx>>

AES_BLOCK_SIZE == 16
Directions == {"encrypt", "decrypt"}
Idle == 99
NewContext == [live |-> 0, schedule |-> "none", padding |-> FALSE, written |-> 0]

Call(mode, op, key, bits, input, output) ==
  [mode |-> mode, op |-> op, key |-> key, bits |-> bits, input |-> input, output |-> output]

(* GnuTLS has no ECB mode: one block of CBC with a zero IV replaces it. *)
ModeUsed(l, mode) == IF l = "gnutls" THEN "cbc" ELSE mode

(* The key schedule that a call expands: Nettle takes the encryption one   *)
(* for CBC decryption, but with 128-bit keys.                              *)
KeySchedule(l, c) ==
  IF l = "nettle" /\ c.mode = "cbc" /\ c.op = "decrypt" /\ c.bits # 128
    THEN "encrypt"
    ELSE c.op

(* Mutant of OpensslCalls: padding is left on. *)
OpensslCallsPadded ==
  <<{"allocate"}, {"key", "pad"}, {"crypt"}, {"finish"}, {"release"}>>

(* EVP_CIPHER_CTX_new, Init, set_padding, Update, Final, free. *)
OpensslCalls ==
  <<{"allocate"}, {"key", "pad"}, {"unpad"}, {"crypt"}, {"finish"}, {"release"}>>

(* mbedtls_cipher_setup pads in CBC mode only. *)
MbedtlsCalls(c) ==
  (IF c.mode = "cbc"
     THEN <<{"allocate", "pad"}, {"key"}, {"unpad"}>>
     ELSE <<{"allocate"}, {"key"}>>)
  \o <<{"crypt", "finish"}, {"release"}>>

(* Mutant of GnutlsCalls: the cipher handle is not released. *)
GnutlsCallsForget == <<{"allocate", "key"}, {"crypt"}>>

GnutlsCalls == <<{"allocate", "key"}, {"crypt"}, {"release"}>>

(* LibTomCrypt: aes_setup or cbc_start, then done. *)
TomcryptCalls == <<{"allocate", "key"}, {"crypt"}, {"release"}>>

(* Contexts of Nettle are local variables, set_key of arm64 stores in the  *)
(* object.                                                                 *)
NettleCalls == <<{"key"}, {"crypt"}>>
Arm64Calls == <<{"key"}, {"crypt"}>>

LibraryCalls(l, c) ==
  CASE l = "openssl"  -> OpensslCalls
    [] l = "mbedtls"  -> MbedtlsCalls(c)
    [] l = "gnutls"   -> GnutlsCalls
    [] l = "tomcrypt" -> TomcryptCalls
    [] l = "nettle"   -> NettleCalls
    [] l = "arm64"    -> Arm64Calls

-----------------------------------------------------------------------------

InitCalls(libraries) ==
  /\ arm64 = Wiped
  /\ aes_key_bits = [l \in libraries |-> 0]
  /\ progress = Idle
  /\ ctx = NewContext

(* Mutant of check_aes_key_size: the size is only stored once. *)
check_aes_key_size_once(l, bits) ==
  aes_key_bits' = IF aes_key_bits[l] = 0 THEN [aes_key_bits EXCEPT ![l] = bits] ELSE aes_key_bits

(* lib::check_aes_key_size, for the sizes which the program uses. *)
check_aes_key_size(l, bits) == aes_key_bits' = [aes_key_bits EXCEPT ![l] = bits]

(* Mutant of SizesAccepted: CBC data may be incomplete blocks. *)
SizesAcceptedAny(c) ==
  IF c.mode = "ecb"
    THEN c.input = AES_BLOCK_SIZE /\ c.output >= AES_BLOCK_SIZE
    ELSE c.output >= c.input

(* The other checks of lib::check_aes_size and lib::check_aes_cbc_size. *)
SizesAccepted(c) ==
  IF c.mode = "ecb"
    THEN c.input = AES_BLOCK_SIZE /\ c.output >= AES_BLOCK_SIZE
    ELSE c.input % AES_BLOCK_SIZE = 0 /\ c.output >= c.input

(* The method is entered; FALSE in accepted is a fatal error.              *)
Enter(l, c) ==
  /\ progress = Idle
  /\ check_aes_key_size(l, c.bits)
  /\ progress' = IF SizesAccepted(c) THEN 0 ELSE Idle
  /\ ctx' = [ctx EXCEPT !.written = 0]
  /\ UNCHANGED arm64

InProgress(l, c) == progress # Idle /\ progress < Len(LibraryCalls(l, c))
Returning(l, c) == progress = Len(LibraryCalls(l, c))

(* One call to the underlying library. *)
LibraryCall(l, c) ==
  /\ InProgress(l, c)
  /\ LET does == LibraryCalls(l, c)[progress + 1]
         change == CASE "allocate" \in does -> 1 [] "release" \in does -> -1 [] OTHER -> 0
         bytes == IF "crypt" \in does THEN c.input ELSE 0
         padded == IF "finish" \in does /\ ctx.padding /\ c.op = "encrypt" THEN AES_BLOCK_SIZE ELSE 0
     IN  /\ ctx' = [live     |-> ctx.live + change,
                    schedule |-> IF "key" \in does THEN KeySchedule(l, c) ELSE ctx.schedule,
                    padding  |-> ("pad" \in does \/ ctx.padding) /\ "unpad" \notin does,
                    written  |-> ctx.written + bytes + padded]
         /\ IF l = "arm64" /\ "key" \in does THEN set_key(c.key, c.bits) ELSE UNCHANGED arm64
  /\ progress' = progress + 1
  /\ UNCHANGED aes_key_bits

(* Did the method compute AES?  *)
Computed(l, c) ==
  CASE l # "arm64"                      -> ctx.schedule = c.op
    [] l = "arm64" /\ c.op = "encrypt"  -> EncryptSteps = Cipher(c.key, c.bits)
    [] l = "arm64" /\ c.op = "decrypt"  -> Inverts(DecryptSteps, Cipher(c.key, c.bits))

(* The method returns; the next one has a context of its own.              *)
Return(l, c) ==
  /\ Returning(l, c)
  /\ progress' = Idle
  /\ ctx' = [ctx EXCEPT !.schedule = "none", !.padding = FALSE]
  /\ UNCHANGED <<arm64, aes_key_bits>>

=============================================================================
