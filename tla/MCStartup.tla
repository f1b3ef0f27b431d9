----------------------------- MODULE MCStartup ------------------------------
(***************************************************************************)
(* Startup on every graph of three processes, with dependencies listed     *)
(* twice and unknown ones among them.                                      *)
(***************************************************************************)
EXTENDS Startup

Lists ==
    {<<>>} \cup {<<d>> : d \in Names \cup {Unknown}} \cup
    {<<d, e>> : d, e \in Names}
=============================================================================
