------------------------------ MODULE RsaBench ------------------------------
(***************************************************************************)
(* The RSA benchmarks of cryptobench.cpp: run_all_benchmarks() generates   *)
(* the key files, then run_rsa() makes every tested library go through     *)
(* the same calls, for each key size: load the two keys, rsa_auto_test(),  *)
(* the timed encryptions, decryptions, signatures and verifications, and   *)
(* the timed key loads.  Another run of the program may rewrite the key    *)
(* files at any time.                                                      *)
(*                                                                         *)
(* A library call may fail and end the program.  A timed loop is left      *)
(* after any number of iterations (BenchRun models how many).              *)
(***************************************************************************)
EXTENDS RsaOps, Integers, Sequences

CONSTANTS
  SizeOrder,    (* Key sizes, in the order of the runs.             *)
  Instances,    (* The objects of class lib_tomcrypt.               *)
  MathDesc,     (* Their math backends.                             *)
  Selections    (* Choices of the tested libraries, in their order. *)

VARIABLES
  openssl, mbedtls, gnutls, ltc_mp, tomcrypt, mixed,   (* The libraries.     *)
  files, written,                                      (* The key files.     *)
  phase,      (* Where run_all_benchmarks() is.                              *)
  tested,     (* The libraries still to be run, the current one first.       *)
  sizes,      (* The key sizes still to be run for the current library.      *)
  block,      (* Index of the current block of calls of run_rsa().           *)
  call,       (* Index of the current call in the block.                     *)
  output,     (* Buffer of rsa_auto_test().                                  *)
  encrypted,  (* Buffers of run_rsa().                                       *)
  sig,
  der

OpenSSL == INSTANCE LibOpenSSL
MbedTLS == INSTANCE LibMbedTLS
GnuTLS == INSTANCE LibGnuTLS
Tomcrypt == INSTANCE LibTomcrypt
Files == INSTANCE KeyFiles

tomvars == <<ltc_mp, tomcrypt, mixed>>
libs == <<openssl, mbedtls, gnutls, tomvars>>
filevars == <<files, written>>
position == <<phase, tested, sizes, block, call>>
buffers == <<output, encrypted, sig, der>>
vars == <<libs, filevars, position, buffers>>

Self == "self"
Other == "other"

(* cryptobench.cpp has two objects of class lib_tomcrypt.  Null is none of *)
(* the values which it stands in for.                                      *)
ASSUME RsaAssumption ==
  /\ {Self, Other} \subseteq Gens
  /\ SizeOrder \in Seq(Sizes) /\ SizeOrder # <<>>
  /\ Instances = {"tomcrypt", "tomcrypt_gmp"}
  /\ \A l \in Selections : l \in Seq({"openssl", "mbedtls", "gnutls"} \cup Instances)
ASSUME NullIsNone ==
  /\ Null \notin Keys \cup Nat
  /\ Null \notin [key : Keys, padding : {"v15", "v21"}]
  /\ Null \notin [key : Keys, mp : {MathDesc[t] : t \in Instances}]

-----------------------------------------------------------------------------
(* The calls of run_rsa(). *)

Call(act, on) == [act |-> act, on |-> on]
Once(calls) == [loop |-> FALSE, calls |-> calls]
Timed(calls) == [loop |-> TRUE, calls |-> calls]

(* lib::rsa_auto_test(). *)
AutoTest == Once(
  <<Call("check", "private"),
    Call("init", "encrypt"), Call("test", "encrypt"),
    Call("init", "decrypt"), Call("test", "decrypt"),
    Call("init", "sign"), Call("test", "sign"),
    Call("init", "verify"), Call("test", "verify"), Call("refuse", "verify")>>)

(* The timed blocks are the one_iteration() methods of bench_rsa.cpp, *)
(* without and with rekeying.                                         *)
Script ==
  <<Once(<<Call("load", "private"), Call("load", "public")>>),
    AutoTest,
    Once(<<Call("init", "encrypt"), Call("init", "decrypt"), Call("keep", "encrypt")>>),
    Timed(<<Call("time", "encrypt")>>),
    Timed(<<Call("time", "decrypt")>>),
    Timed(<<Call("init", "encrypt"), Call("time", "encrypt")>>),
    Timed(<<Call("init", "decrypt"), Call("time", "decrypt")>>),
    Once(<<Call("init", "sign"), Call("init", "verify"), Call("keep", "sign")>>),
    Timed(<<Call("time", "sign")>>),
    Timed(<<Call("time", "verify")>>),
    Timed(<<Call("init", "sign"), Call("time", "sign")>>),
    Timed(<<Call("init", "verify"), Call("time", "verify")>>),
    Once(<<Call("read", "public")>>),
    Timed(<<Call("reload", "public")>>),
    Once(<<Call("read", "private")>>),
    Timed(<<Call("reload", "private")>>)>>

Current == Script[block].calls[call]
AtCall(act) == phase = "rsa" /\ Current.act = act
Lib == tested[1]
Size == sizes[1]

-----------------------------------------------------------------------------
(* The virtual methods of class lib, on the current library. *)

LoadKey(side, k) ==
  \/ Lib = "openssl" /\ OpenSSL!load_rsa_key(side, k) /\ UNCHANGED <<mbedtls, gnutls, tomvars>>
  \/ Lib = "mbedtls" /\ MbedTLS!load_rsa_key(side, k) /\ UNCHANGED <<openssl, gnutls, tomvars>>
  \/ Lib = "gnutls" /\ GnuTLS!load_rsa_key(side, k) /\ UNCHANGED <<openssl, mbedtls, tomvars>>
  \/ Lib \in Instances /\ Tomcrypt!load_rsa_key(Lib, side, k) /\ UNCHANGED <<openssl, mbedtls, gnutls>>

(* Only OpenSSL has contexts, the default methods of lib.cpp do nothing. *)
InitContext(op) ==
  IF Lib = "openssl"
    THEN OpenSSL!rsa_init(op) /\ UNCHANGED <<mbedtls, gnutls, tomvars>>
    ELSE UNCHANGED libs

(* What an operation does to the state of its library. *)
Perform(op) ==
  CASE Lib = "mbedtls" -> MbedTLS!set_rsa_padding(op) /\ UNCHANGED <<openssl, gnutls, tomvars>>
    [] Lib \in Instances -> Tomcrypt!Touch(Lib) /\ UNCHANGED <<tomcrypt, openssl, mbedtls, gnutls>>
    [] OTHER -> UNCHANGED libs

(* The key and padding of an operation. *)
UseOf(op) ==
  CASE Lib = "openssl" -> OpenSSL!rsa_use(op)
    [] Lib = "mbedtls" -> MbedTLS!rsa_use(op)
    [] Lib = "gnutls" -> GnuTLS!rsa_use(op)
    [] OTHER -> Tomcrypt!rsa_use(Lib, op)

KeyBits(side) ==
  CASE Lib = "openssl" -> OpenSSL!rsa_key_bits(side)
    [] Lib = "mbedtls" -> MbedTLS!rsa_key_bits(side)
    [] Lib = "gnutls" -> GnuTLS!rsa_key_bits(side)
    [] OTHER -> Tomcrypt!rsa_key_bits(Lib, side)

LoadedKey(side) ==
  CASE Lib = "openssl" -> OpenSSL!Loaded(side)
    [] Lib = "mbedtls" -> MbedTLS!Loaded(side)
    [] Lib = "gnutls" -> GnuTLS!Loaded(side)
    [] OTHER -> Tomcrypt!Loaded(Lib, side)

-----------------------------------------------------------------------------
(* Progress of the calls. *)

(* The libraries to run: run_all_benchmarks() skips those without RSA.     *)
HasRsa(x) == x \in Instances => Tomcrypt!rsa_available(x)
WithRsa(l) ==
  LET kept[n \in 0 .. Len(l)] ==
        IF n = 0 THEN <<>>
        ELSE IF HasRsa(l[n]) THEN Append(kept[n - 1], l[n]) ELSE kept[n - 1]
  IN  kept[Len(l)]

(* Mutant of EnterBlock: one block too many. *)
EnterBlockPast(b) ==
  /\ call' = 1
  /\ IF b <= Len(Script) + 1
       THEN block' = b /\ UNCHANGED <<phase, tested, sizes>>
       ELSE block' = 1 /\ phase' = "destroy" /\ UNCHANGED <<tested, sizes>>

(* Enter block b, or what follows run_rsa() when it is over. *)
EnterBlock(b) ==
  /\ call' = 1
  /\ IF b <= Len(Script)
       THEN block' = b /\ UNCHANGED <<phase, tested, sizes>>
       ELSE /\ block' = 1
            /\ IF Len(sizes) > 1
                 THEN sizes' = Tail(sizes) /\ UNCHANGED <<phase, tested>>
                 ELSE /\ sizes' = SizeOrder
                      /\ tested' = Tail(tested)
                      /\ phase' = IF Len(tested) = 1 THEN "destroy" ELSE phase

NextCall ==
  IF call < Len(Script[block].calls)
    THEN call' = call + 1 /\ UNCHANGED <<phase, tested, sizes, block>>
    ELSE IF Script[block].loop
           THEN call' = 1 /\ UNCHANGED <<phase, tested, sizes, block>>
           ELSE EnterBlock(block + 1)

Fatal == phase' = "fatal" /\ UNCHANGED <<tested, sizes, block, call>>

-----------------------------------------------------------------------------

Init ==
  /\ OpenSSL!Init /\ MbedTLS!Init /\ GnuTLS!Init /\ Tomcrypt!Init /\ Files!Init
  /\ phase = "generate"
  /\ tested \in {WithRsa(l) : l \in Selections}
  /\ sizes = SizeOrder /\ block = 1 /\ call = 1
  /\ output = Null /\ encrypted = Null /\ sig = Null /\ der = Null

(* generate_rsa_key() for each size, then the RSA benchmarks. *)
Generate ==
  /\ phase = "generate" /\ ~Files!Generated(Self)
  /\ Files!WriteFile(Self)
  /\ UNCHANGED <<libs, position, buffers>>

StartRsa ==
  /\ phase = "generate" /\ Files!Generated(Self)
  /\ phase' = IF tested = <<>> THEN "destroy" ELSE "rsa"
  /\ UNCHANGED <<libs, filevars, tested, sizes, block, call, buffers>>

(* Another run of the program generates its keys. *)
OtherProcess ==
  /\ Files!WriteFile(Other)
  /\ UNCHANGED <<libs, position, buffers>>

(* load_rsa_private_key_file, load_rsa_public_key_file. *)
LoadFile ==
  /\ AtCall("load")
  /\ LET k == files[Size][Current.on]
     IN  IF k = Null
           THEN Fatal /\ UNCHANGED <<libs, buffers>>
           ELSE LoadKey(Current.on, k) /\ NextCall /\ UNCHANGED buffers
  /\ UNCHANGED filevars

(* First test of rsa_auto_test(); asking the key size is a library call. *)
CheckKeys ==
  /\ AtCall("check")
  /\ IF KeyBits("private") = 0 \/ KeyBits("private") # KeyBits("public")
       THEN Fatal ELSE NextCall
  /\ IF Lib \in Instances
       THEN Tomcrypt!Touch(Lib) /\ UNCHANGED <<tomcrypt, openssl, mbedtls, gnutls>>
       ELSE UNCHANGED libs
  /\ UNCHANGED <<filevars, buffers>>

InitCall ==
  /\ AtCall("init")
  /\ InitContext(Current.on)
  /\ NextCall
  /\ UNCHANGED <<filevars, buffers>>

(* Does the data that an operation reads fit the key and padding in use?   *)
(* If not, a decryption fails or returns garbage, and a verification fails *)
(* or says no.                                                             *)
Accepts(op, data) == data = UseOf(op)

(* Mutant of TestPasses: the size of the outputs is tested, not decryption *)
(* or verification.                                                        *)
TestPassesSize(op) == UseOf(op).key.bits = KeyBits("public")

(* The tests of rsa_auto_test(): encryption and signature fill the buffer  *)
(* with the size of the public key, decryption and verification then have  *)
(* to accept it.                                                           *)
TestPasses(op) ==
  IF op \in {"encrypt", "sign"}
    THEN UseOf(op).key.bits = KeyBits("public")
    ELSE Accepts(op, output)

TestCall ==
  /\ AtCall("test")
  /\ Perform(Current.on)
  /\ LET op == Current.on
     IN  /\ IF TestPasses(op) THEN NextCall ELSE Fatal
         /\ output' = CASE op \in {"encrypt", "sign"} -> UseOf(op)
                      [] op = "decrypt" -> Null
                      [] OTHER -> output
  /\ UNCHANGED <<filevars, encrypted, sig, der>>

(* The last test: the signature is not the one of another message. *)
RefuseCall ==
  /\ AtCall("refuse")
  /\ Perform(Current.on)
  /\ NextCall
  /\ UNCHANGED <<filevars, buffers>>

(* run_rsa() keeps one ciphertext and one signature. *)
KeepCall ==
  /\ AtCall("keep")
  /\ Perform(Current.on)
  /\ NextCall
  /\ encrypted' = IF Current.on = "encrypt" THEN UseOf("encrypt") ELSE encrypted
  /\ sig' = IF Current.on = "sign" THEN UseOf("sign") ELSE sig
  /\ UNCHANGED <<filevars, output, der>>

(* A timed operation; bench_rsa_verify wants its signature verified. *)
TimedAccepts(op) ==
  CASE op = "decrypt" -> Accepts(op, encrypted)
    [] op = "verify" -> Accepts(op, sig)
    [] OTHER -> TRUE

TimedCall ==
  /\ AtCall("time")
  /\ Perform(Current.on)
  /\ IF TimedAccepts(Current.on) THEN NextCall ELSE Fatal
  /\ UNCHANGED <<filevars, buffers>>

(* sys::load_pem_file_as_der() before the timed loads: an empty file is    *)
(* only found out by the library.                                          *)
ReadCall ==
  /\ AtCall("read")
  /\ der' = files[Size][Current.on]
  /\ NextCall
  /\ UNCHANGED <<libs, filevars, output, encrypted, sig>>

ReloadCall ==
  /\ AtCall("reload")
  /\ IF der = Null
       THEN Fatal /\ UNCHANGED libs
       ELSE LoadKey(Current.on, der) /\ NextCall
  /\ UNCHANGED <<filevars, buffers>>

(* Leave a timed loop; the last one ends run_rsa() and its local buffers. *)
LeaveLoop ==
  /\ phase = "rsa" /\ Script[block].loop /\ call = 1
  /\ EnterBlock(block + 1)
  /\ IF block < Len(Script)
       THEN UNCHANGED buffers
       ELSE output' = Null /\ encrypted' = Null /\ sig' = Null /\ der' = Null
  /\ UNCHANGED <<libs, filevars>>

(* Any call of a library or of the file system may fail and exit, key      *)
(* generation included.                                                    *)
LibraryFails ==
  /\ phase \in {"generate", "rsa"}
  /\ Fatal
  /\ UNCHANGED <<libs, filevars, buffers>>

(* The destructors, at the end of run_all_benchmarks(): the objects go in  *)
(* the reverse order of their declarations.                                *)
Destructors == <<"tomcrypt_gmp", "tomcrypt", "gnutls", "mbedtls", "openssl">>

DestroyObject(l) ==
  CASE l = "openssl" -> OpenSSL!Destroy /\ UNCHANGED <<mbedtls, gnutls, tomvars>>
    [] l = "mbedtls" -> MbedTLS!Destroy /\ UNCHANGED <<openssl, gnutls, tomvars>>
    [] l = "gnutls" -> GnuTLS!Destroy /\ UNCHANGED <<openssl, mbedtls, tomvars>>
    [] OTHER -> Tomcrypt!Destroy(l) /\ UNCHANGED <<openssl, mbedtls, gnutls>>

DestroyNext ==
  /\ phase = "destroy"
  /\ DestroyObject(Destructors[block])
  /\ IF block < Len(Destructors)
       THEN block' = block + 1 /\ UNCHANGED phase
       ELSE block' = 1 /\ phase' = "done"
  /\ UNCHANGED <<tested, sizes, call, filevars, buffers>>

Next ==
  \/ Generate \/ StartRsa \/ OtherProcess
  \/ LoadFile \/ CheckKeys \/ InitCall \/ TestCall \/ RefuseCall \/ KeepCall \/ TimedCall
  \/ ReadCall \/ ReloadCall \/ LeaveLoop \/ LibraryFails
  \/ DestroyNext

Spec == Init /\ [][Next]_vars

-----------------------------------------------------------------------------

TypeOK ==
  /\ OpenSSL!TypeOK /\ MbedTLS!TypeOK /\ GnuTLS!TypeOK /\ Tomcrypt!TypeOK /\ Files!TypeOK
  /\ phase \in {"generate", "rsa", "destroy", "done", "fatal"}
  /\ block \in 1 .. Len(Script) /\ call \in 1 .. 10
  /\ output \in Uses \cup {Null} /\ encrypted \in Uses \cup {Null} /\ sig \in Uses \cup {Null}
  /\ der \in Keys \cup {Null}

UsesKey == AtCall("test") \/ AtCall("refuse") \/ AtCall("keep") \/ AtCall("time")

(* Every operation works with the key which the object has loaded last,    *)
(* of the size under which its result is reported, although OpenSSL        *)
(* contexts outlive the key they were made from (lib_openssl.cpp:227-333). *)
FreshContexts ==
  UsesKey => /\ UseOf(Current.on).key = LoadedKey(SideOf(Current.on))
             /\ UseOf(Current.on).key.bits = Size

(* A timed decryption gets a ciphertext, and a timed verification a        *)
(* signature, which fit the key and the padding in use then: the auto-test *)
(* keeps away the key files of two different runs (lib.cpp:189, 202).      *)
TimedInputsMatch == AtCall("time") => TimedAccepts(Current.on)

(* The auto-test does not reject the two halves of one key pair: what one  *)
(* test leaves in the library does not disturb the next one.               *)
AutoTestComplete ==
  AtCall("test") /\ LoadedKey("private") = LoadedKey("public") => TestPasses(Current.on)

(* No EVP_PKEY is leaked or used after it was freed.                       *)
NoKeyLeak == OpenSSL!RefCountExact

(* No LibTomCrypt key meets another backend than its own.                  *)
BackendMatches == Tomcrypt!BackendMatches

(* README.md:160 and the comment of lib_mbedtls.cpp:214: MbedTLS signs     *)
(* with the PKCS#1 v1.5 padding.                                           *)
MbedSignsV15 ==
  (UsesKey /\ Lib = "mbedtls" /\ Current.on = "sign") => UseOf("sign").padding = "v15"

=============================================================================
