--------------------------- MODULE MCMongoSegment ---------------------------
(* MongoSegment on small instances.  Workers are interchangeable.           *)
EXTENDS MongoSegment, TLC

Symmetry == Permutations(Workers)
=============================================================================
