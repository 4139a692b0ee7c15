-------------------------- MODULE MCMetadataCache ---------------------------
(***************************************************************************)
(* MetadataCache for TLC, with the history of its failures.                *)
(***************************************************************************)
EXTENDS MetadataFailures, TLC

MCMedia(id, w) == [id |-> id, width |-> w, height |-> 2160,
                   label |-> [stem |-> "1080", scan |-> "p"]]
MCListings == {<<MCMedia("a", 3840)>>, <<MCMedia("a", 1920), MCMedia("b", 3840)>>}
MCOneListing == {<<MCMedia("a", 3840)>>}

MCSymmetry == Permutations(Keys)
=============================================================================
