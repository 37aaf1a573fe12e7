----------------------------- MODULE MCRsaBench -----------------------------
(***************************************************************************)
(* Values of the constants of RsaBench for TLC.                            *)
(***************************************************************************)
EXTENDS RsaBench

MCSizes == {2048, 4096}
MCSizeOrder == <<2048, 4096>>
MCGens == {Self, Other}
MCInstances == {"tomcrypt", "tomcrypt_gmp"}
MCMathDesc == [t \in MCInstances |-> IF t = "tomcrypt" THEN "ltm" ELSE "gmp"]

(* All libraries, and the choices which leave out some of them. *)
MCSelections ==
  {<<"openssl", "mbedtls", "gnutls", "tomcrypt", "tomcrypt_gmp">>, <<"tomcrypt_gmp">>, <<>>}
MCMbedOnly == {<<"mbedtls">>}

=============================================================================
