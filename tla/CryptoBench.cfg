\* Command lines of up to four arguments, a library with RSA and AES and one
\* with AES only.
SPECIFICATION Spec
CONSTANTS
  Libs <- MCLibs
  CommandLines <- MCCommandLines
  LibOrder <- MCLibOrder
  RsaAvailable = {"openssl"}
  AesAvailable = {"openssl", "arm64"}
INVARIANTS TypeOK OrderIrrelevant RunsWhatIsAsked KeysAreFresh
\* The program ends.
CHECK_DEADLOCK FALSE
