--------------------------- MODULE MCStudyStore -----------------------------
(* One publication in two editions; what differs only by name is symmetric. *)
EXTENDS StudyStore

MCSymmetry == Permutations(Place) \cup Permutations(Name) \cup Permutations(Pub) \cup Permutations(Edition)
=============================================================================
