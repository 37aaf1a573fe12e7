----------------------------- MODULE MCAesBench -----------------------------
(***************************************************************************)
(* Values of the constants of AesBench for TLC.                            *)
(***************************************************************************)
EXTENDS AesBench

MCSelections == {<<"openssl", "gnutls", "nettle">>, <<"tomcrypt", "arm64">>, <<"mbedtls">>}
MCNettle == {<<"nettle">>}
MCOpenSSL == {<<"openssl">>}

(* Any single fault of any library; GnuTLS has no ECB code to be wrong. *)
MCFaults ==
  {f \in [lib : Libraries, mode : {"ecb", "cbc"}, op : Directions, bits : KeyBits] :
     f.mode = ModeUsed(f.lib, f.mode)}
MCNoFault == {}

=============================================================================
