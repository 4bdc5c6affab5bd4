-------------------------------- MODULE MCChat --------------------------------
(* Instances of SiteChat for TLC. *)
EXTENDS SiteChat, TLC

\* Users with the same contacts are alike.
Contacted ==
  {p \in Permutations(Users) : {{p[u] : u \in c} : c \in Contacts} = Contacts}

Symmetry == Permutations(Sockets) \union Permutations(Threads)
            \union Contacted
=============================================================================
