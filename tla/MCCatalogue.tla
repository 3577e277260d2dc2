----------------------------- MODULE MCCatalogue -----------------------------
(* Instances of Catalogue for TLC.  Four parts of the catalogue are explored *)
(* one after the other, each with the rows and codes that matter to it.      *)
EXTENDS Catalogue, TLC

CONSTANTS c1, c2, b1, b2, r1, k1, k2, e1

VARIABLE part    \* the codes each row may have; none: the row does not exist

Codeless == [x \in All |-> {}]
Moves == (c1 :> {"A"}) @@ (c2 :> {"B"}) @@ (b1 :> {"A"}) @@ Codeless
Booking == (c1 :> {"A"}) @@ (b1 :> {"A"}) @@ (r1 :> {"A"}) @@ (k1 :> {"A"})
           @@ (e1 :> {"A"}) @@ Codeless
Buildings2 == (c1 :> {"A"}) @@ (b1 :> {"A", "B"}) @@ (b2 :> {"A", "B"}) @@ Codeless
Slugs == (k1 :> {"A", "B", Blank}) @@ (k2 :> {"A", "B", Blank}) @@ Codeless

InPart(x, r) == r.code \in part[x] \cup {"none"}

MCInit == CatalogueInit /\ part \in {Moves, Booking, Buildings2, Slugs}

(* Edits that change nothing are left to events, which are saved whole; only *)
(* in the first part is a row created inactive or is_active sent.            *)
MCNext ==
  /\ CatalogueNext
  /\ \A x \in All: InPart(x, row'[x])
  /\ \A w \in Clients:
       LET c == change'[w] IN
       /\ c.op = "create" =>
            InPart(c.id, c.new) /\ (c.new.active \/ part = Moves)
       /\ c.op = "patch" /\ c.id \in Managed =>
            /\ Patched(c.copy, c.patch) # c.copy
            /\ "active" \in DOMAIN c.patch => part = Moves
  /\ UNCHANGED part

MCSpec == MCInit /\ [][MCNext]_<<catalogueVars, part>>

Symmetry == Permutations(Clients)
=============================================================================
