----------------------------- MODULE MCBalances -----------------------------
(***************************************************************************)
(* Values of the constants of Balances for model checking.                 *)
(***************************************************************************)
EXTENDS Balances, TLC

Symmetry == Permutations(EventIds) \cup Permutations(Reads)

\* No read is under way.
NoReads == {}

\* rollover_max: absent, everything lost at a boundary, one unit kept.
AllCaps == {None, 0, 1}
NoCap == {None}
SomeCaps == {None, 1}

\* Clients leave every timestamp to the server.
NowOnly == {}

\* Expirations: none, or one tick after a grant takes effect.
ShortOrEndless == {None, 1}
Endless == {None}

=============================================================================
