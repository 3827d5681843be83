------------------------------ MODULE MCProcess ------------------------------
(***************************************************************************)
(* TLC instance of Process.                                                *)
(***************************************************************************)
EXTENDS Process

\* From memory the kernel has corrupted there is nothing left to say.
NotWild == ~wild
=============================================================================
