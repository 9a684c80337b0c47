---------------------------- MODULE MCConfigStore ----------------------------
(***************************************************************************)
(* Instances of ConfigStore for TLC.                                       *)
(***************************************************************************)
EXTENDS ConfigStore

CONSTANTS h1, h2

\* As the cockpit saves them, and as anyone may post or write them.
PostedLists == {<<>>, <<<<h2, "port">>, <<h1, "port">>>>, <<<<h1, "bare">>, <<h1, "bare">>>>}
WrittenLists == {<<<<h2, "bare">>>>}
=============================================================================
