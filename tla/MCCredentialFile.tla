--------------------------- MODULE MCCredentialFile ---------------------------
(* A daemon and a command of the CLI, each a process with a writer.        *)
EXTENDS CredentialFile, TLC

CONSTANTS d, c

MCProcessOf == d :> "daemon" @@ c :> "cli"
=============================================================================
