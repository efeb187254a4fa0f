---------------------------- MODULE MCChatStream ----------------------------
(* Values of ChatStream's constants for TLC. *)
EXTENDS ChatStream

\* Every piece by itself, and events that bring the prefix at once, with the array's beginning,
\* with all of it, or with more of it than the buffer takes.
SmallDeltas ==
  {<<p>> : p \in Pieces} \union
  {<<"Tool", " calls:">>, <<"Tool", " calls:", "[">>, <<"Tool", " calls:", "[", "...]">>,
   <<"Tool", " calls:", "[", "other", "other">>}
=============================================================================
