------------------------------ MODULE Derivation ------------------------------
(***************************************************************************)
(* From an identity to the path of its key on the Ledger: its text is hashed,  *)
(* and the digest becomes five components of a BIP32 path.  A text is the      *)
(* sequence of its parts, "" an empty part; SHA-256 is left to the caller.    *)
(***************************************************************************)
EXTENDS Integers, SequencesExt

(* Identity::port of an identity whose port was not read.                   *)
NoPort == -1

(* L":" + port is a pointer into the literal or behind it: what it points to    *)
(* at 1 is the literal's end, and at a larger port whatever lies there.      *)
Colon(port, behind) == IF port > 1 THEN behind[port] ELSE <<>>

(* Identity::ToString.  Nothing in the program sets a path.                  *)
IdentityString(ident, behind) ==
  <<IF ident.proto = "" THEN "ssh" ELSE ident.proto, "://">>
    \o (IF ident.user = "" THEN <<>> ELSE <<ident.user, "@">>)
    \o <<ident.host>> \o Colon(ident.port, behind)

(* The same identity for ledger-agent.py: the port is part of it, if there is   *)
(* one.                                                                     *)
AgentString(ident) ==
  <<ident.proto, "://">>
    \o (IF ident.user = "" THEN <<>> ELSE <<ident.user, "@">>)
    \o <<ident.host>> \o (IF ident.port > 0 THEN <<":", ToString(ident.port)>> ELSE <<>>)

-----------------------------------------------------------------------------
Hardened(b) == IF b < 128 THEN b + 128 ELSE b

(* Identity::GetAddress: 13, or 17 for ECDH, and four integers that the digest   *)
(* has with their lowest byte first; all are hardened.                       *)
GetAddress(digest, ecdh) ==
  <<Hardened(0), 0, 0, IF ecdh THEN 17 ELSE 13>>
    \o FlattenSeq([n \in 1..4 |-> <<Hardened(digest[4 * n]), digest[4 * n - 1],
                                    digest[4 * n - 2], digest[4 * n - 3]>>])

(* Identity::GetPathBIP32: how many components, and the components.          *)
GetPathBIP32(digest) ==
  LET path == GetAddress(digest, FALSE) IN <<(Len(path) + 1) \div 4>> \o path
=============================================================================
