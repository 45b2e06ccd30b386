---------------------------- MODULE MCReturnsDesk ----------------------------
(* Instances of ReturnsDesk for TLC: see the .cfg files and the README. *)
EXTENDS ReturnsDesk, TLC

Numbered == CHOOSE at \in Repos : TRUE

\* A report's number that is also a repository's: the ids come from two sequences.
MCSameId == Reports \X {Numbered}

\* One target each, or a client, a company and one repository: a company never alone.
MCBodies == {{t} : t \in Targets \ {"company"}} \cup {Outside \cup {Numbered}}

\* Only runs without liveness properties use this.
Symmetry == Permutations(Orders) \cup Permutations(Reports) \cup Permutations(Requests)
=============================================================================
