---------------------------- MODULE ClipboardSyncMC ----------------------------
(***************************************************************************)
(* ClipboardSync for TLC: crlf is the text lf with Windows line endings,   *)
(* which the client reads back as lf.                                      *)
(***************************************************************************)
EXTENDS ClipboardSync

CONSTANTS lf, crlf

MCCanon == [t \in Text |-> IF t = crlf THEN lf ELSE t]

================================================================================
