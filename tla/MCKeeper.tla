------------------------------ MODULE MCKeeper ------------------------------
(***************************************************************************)
(* Small instances of Keeper for TLC.                                      *)
(***************************************************************************)
EXTENDS Keeper, TLC

CONSTANTS l1, l2, p1, p2

Ok(l, t, p) == [id |-> l, type |-> t, sealed |-> p]

\* A stream of two good items, and one that uses their identifiers with other
\* bytes and whose second item the table refuses.
MCBatches ==
  {<<Ok(l1, "AUTH", p1), Ok(l2, "CARD", p2)>>,
   <<Ok(l2, "AUTH", p1), Ok(l1, "BINARY", p2)>>}

\* Only a stream of two good items.
MCPair == {<<Ok(l1, "AUTH", p1), Ok(l2, "CARD", p2)>>}

\* Streams with an item that the handler, AddSealed or the object store
\* refuses, the first one after two items that are stored.
MCRefused ==
  {<<Ok(l1, "AUTH", p1), Ok(l2, "CARD", p1), Ok(l1, "MALFORMED", p1)>>,
   <<Ok(l2, "CARD", Empty)>>, <<Ok(NoLocator, "CARD", p1)>>}

\* Two single items that use one identifier.
MCReuse == {<<Ok(l1, "AUTH", p1)>>, <<Ok(l1, "AUTH", p2)>>}

MCSymmetry == Permutations(Requests) \cup Permutations(DataIDs)
=============================================================================
