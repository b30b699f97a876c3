---------------------------- MODULE MC_Artifacts ----------------------------
(* Instances of ArtifactStore: two quotes being issued and one migrated    *)
(* from V1, two clients at a time; the documents' directories share their  *)
(* parent.                                                                 *)
EXTENDS ArtifactStore, TLC

CONSTANTS x, y, c1, c2, aa, bb1, bb2

MCBytes == {x, y}
MCQuotes == 1..3
MCLegacy == {2}
MCRendered == <<{x}, {}, {y}>>
MCClients == {c1, c2}
MCInner == (x :> bb1) @@ (y :> bb2)
MCTop == (x :> aa) @@ (y :> aa)
AllTops == {aa}
NoTops == {}
MCDamages == {"absent", "altered"}

(* Outside damage hits, and repairs are for, one of the documents.  One    *)
(* verification at a time, beside a publication; damage and repairs would  *)
(* not change what it goes through.                                        *)
Kinds == [c \in Clients |-> client[c].kind]
Narrow ==
    /\ file[LegacyKey] = "intact" /\ file[y] \in {"absent", "intact"}
    /\ \A c, d \in Clients :
          /\ Kinds[c] = "repair" => client[c].quote # 3
          /\ Kinds[c] = "verifier" /\ d # c =>
                Kinds[d] \in {"none", "attempt"} /\ file[x] \in {"absent", "intact"}
MCSpec == Init /\ [][Next /\ Narrow' /\ promised \cap {y} \subseteq promised']_vars

MCSymmetry == Permutations(MCClients)
=============================================================================
