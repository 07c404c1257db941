---------------------------- MODULE MCFileServer -----------------------------
(***************************************************************************)
(* An instance of FileServer for TLC.                                      *)
(***************************************************************************)
EXTENDS FileServer

CONSTANTS a, b

OneMode == {[omode |-> "O_RDWR", flags |-> {"O_CREAT"}]}

NoFile == {<<>>}

\* All calls but READ: a client may read for ever.
AllButRead == {"OPEN", "WRITE", "SET_SIZE", "STAT", "FLUSH", "SYNC"}

=============================================================================
