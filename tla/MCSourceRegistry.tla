-------------------------- MODULE MCSourceRegistry --------------------------
(* One scheme is longer than an entry's string and is cut to another that  *)
(* is a scheme of its own.                                                 *)
EXTENDS SourceRegistry, TLC

CONSTANTS short, long, cut

MCSchemes == {short, long, cut}
MCStored == short :> short @@ long :> cut @@ cut :> cut
=============================================================================
