--------------------------- MODULE MCChannelzConn ---------------------------
(***************************************************************************)
(* Small instances of ChannelzConn for TLC.                                *)
(***************************************************************************)
EXTENDS ChannelzConn, TLC

\* A handler made by CreateHandler, and one with a mock client, as in the
\* package's own tests.
ManagedOrMocked == {{}, {"client"}}
=============================================================================
