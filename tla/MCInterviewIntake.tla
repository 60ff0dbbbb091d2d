--------------------------- MODULE MCInterviewIntake ---------------------------
EXTENDS InterviewIntake, TLC

Def(q, v, d, active, content) ==
  [question |-> q, version |-> v, domain |-> d, active |-> active,
   reviewed |-> active, content |-> content]

MCMinimum == [count \in {4} |-> [d \in Domains |-> 1]]

MCFirstRelease ==
  {Def("g1", 1, "go", TRUE, "x"), Def("g2", 1, "go", TRUE, "x"),
   Def("h1", 1, "http", TRUE, "x"), Def("h2", 1, "http", TRUE, "x"),
   Def("c1", 1, "cache", TRUE, "x")}

(* Of these, each contradicts or outdates a part of some other.             *)
MCReleases ==
  { (* the stored version again, beside a new one *)
    {Def("g1", 1, "go", TRUE, "x"), Def("g1", 2, "go", TRUE, "y")},
    (* the same new version saying something else; a question that moves *)
    {Def("g1", 2, "go", TRUE, "x"), Def("h2", 3, "cache", TRUE, "x")},
    (* two tombstones, one older than the version that moves its question; *)
    (* with both, four questions are more than there are                   *)
    {Def("g1", 3, "go", FALSE, "x"), Def("h2", 2, "http", FALSE, "x")} }

Symmetry == Permutations(Importers) \cup Permutations(Handlers) \cup Permutations(Keys)
===============================================================================
